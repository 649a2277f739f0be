------------------------------ MODULE Resources ------------------------------
(***************************************************************************)
(* The pools that all Resources of a process share, and the objects (the   *)
(* matrices, vectors and solvers) that outlive some of them: src/          *)
(* resources.cu, the pools' construction and destruction in src/           *)
(* global_thread_handle.cu, and the calls of src/amgx_c.cu that create and *)
(* destroy.  The user destroys an object before its own Resources, as      *)
(* examples/amgx_capi_multi.c does, and makes one call at a time: several  *)
(* threads are in MemoryManager.tla, how a pool cuts its regions into      *)
(* blocks is in MemoryPool.tla.  Here a region is one block, its place     *)
(* stands for its address, and requests of any size may fit or not.        *)
(***************************************************************************)
EXTENDS Integers, FiniteSets

CONSTANTS
  Handles,    \* the Resources a user may have
  Objects,    \* the matrices, vectors and solvers
  Buffers,    \* the buffers an object may hold
  Devices,
  Places,     \* the addresses the driver may return
  None        \* no device, no Resources, NULL

ASSUME NoneAssumption == None \notin Handles \union Devices \union Places

VARIABLES
  device,     \* of a Resources: m_devices[0], None when there is no such
  rsc,        \* of an object: m_resources, None when there is no such
  memory,     \* of an object: the addresses in its buffers
  active,     \* the objects that the current API call works on
  doing,      \* that call: "idle", "compute", "setup" or "destroy"
  driver,     \* the device on which a place is allocated
  pinnedPool, \* m_main_pinned_pool is set
  devicePool, \* m_main_device_pool is set
  ownedPtrs,      \* the regions of that pool: m_owned_ptrs
  usedBlocks,       \* its blocks in use: m_used_blocks
  table,      \* m_allocated_blocks: what came from the driver directly
  asyncFree,  \* m_use_async_free
  warned,     \* ~MemoryPool has found blocks in use, and said so on rank 0
  terminated  \* an exception left a destructor: std::terminate

userVars == <<device, rsc, active, doing>>
poolsVars == <<pinnedPool, devicePool, ownedPtrs, usedBlocks>>
resourcesVars == <<userVars, memory, driver, poolsVars, table, asyncFree, warned,
          terminated>>

Idle == doing = "idle" /\ ~terminated

Clear == [b \in Buffers |-> None]

Held(o) == {memory[o][b] : b \in Buffers} \ {None}

-----------------------------------------------------------------------------
(* Resources. *)

\* Mutant: the pool is made anew although there is one.
MakeDevicePoolAlways(d) ==
  \E p \in Places :
    /\ driver[p] = None
    /\ driver' = [driver EXCEPT ![p] = d]
    /\ devicePool' = TRUE
    /\ ownedPtrs' = {p}
    /\ usedBlocks' = {}

\* hasDeviceMemoryPool(), else a new pool with one region of the device that
\* is current.
MakeDevicePool(d) ==
  IF devicePool
  THEN UNCHANGED <<driver, devicePool, ownedPtrs, usedBlocks>>
  ELSE \E p \in Places :
         /\ driver[p] = None
         /\ driver' = [driver EXCEPT ![p] = d]
         /\ devicePool' = TRUE
         /\ ownedPtrs' = {p}
         /\ usedBlocks' = {}

\* AMGX_resources_create: both pools unless they are there.
CreateResources(h, d) ==
  /\ Idle
  /\ device[h] = None
  /\ device' = [device EXCEPT ![h] = d]
  /\ pinnedPool' = TRUE
  /\ MakeDevicePool(d)
  /\ asyncFree' = FALSE
  /\ UNCHANGED <<rsc, active, doing, memory, table, warned, terminated>>

\* The driver refuses the pool's memory: the exception leaves the constructor,
\* and the pinned pool stays behind without any Resources.
CreateResourcesThrows(h) ==
  /\ Idle
  /\ device[h] = None
  /\ ~devicePool
  /\ pinnedPool' = TRUE
  /\ UNCHANGED <<userVars, memory, driver, devicePool, ownedPtrs, usedBlocks, table,
                 asyncFree, warned, terminated>>

\* Mutant: destroyDeviceMemoryPool forgets to set the pointer to NULL.
FreeResourcesKeepsPointer ==
  /\ driver' = [p \in Places |-> IF p \in ownedPtrs THEN None ELSE driver[p]]
  /\ terminated' = (\E p \in ownedPtrs : driver[p] = None)
  /\ warned' = (warned \/ (usedBlocks # {} /\ ~terminated'))
  /\ pinnedPool' = FALSE
  /\ UNCHANGED <<devicePool, ownedPtrs, usedBlocks>>

\* free_resources: whoever else uses the pools.  ~DeviceMemoryPool frees the
\* regions and may not throw, then ~MemoryPool complains about blocks in use.
FreeResources ==
  /\ driver' = [p \in Places |-> IF p \in ownedPtrs THEN None ELSE driver[p]]
  /\ terminated' = (\E p \in ownedPtrs : driver[p] = None)
  /\ warned' = (warned \/ (usedBlocks # {} /\ ~terminated'))
  /\ pinnedPool' = FALSE
  /\ devicePool' = FALSE
  /\ ownedPtrs' = {}
  /\ usedBlocks' = {}

\* AMGX_resources_destroy, after the objects of that Resources.
DestroyResources(h) ==
  /\ Idle
  /\ device[h] # None
  /\ \A o \in Objects : rsc[o] # h
  /\ device' = [device EXCEPT ![h] = None]
  /\ FreeResources
  /\ UNCHANGED <<rsc, active, doing, memory, table, asyncFree>>

\* AMGX_finalize, when the user is done: "just in case".
Finalize ==
  /\ Idle
  /\ \A h \in Handles : device[h] = None
  /\ FreeResources
  /\ UNCHANGED <<userVars, memory, table, asyncFree>>

-----------------------------------------------------------------------------
(* Calls on objects. *)

CreateObject(o, h) ==
  /\ Idle
  /\ rsc[o] = None
  /\ device[h] # None
  /\ rsc' = [rsc EXCEPT ![o] = h]
  /\ UNCHANGED <<device, active, doing, memory, driver, poolsVars, table,
                 asyncFree, warned, terminated>>

\* An upload, a solve or a setup of objects that share one Resources; a setup
\* postpones what it frees.
BeginCall(h, kind) ==
  /\ Idle
  /\ kind \in {"compute", "setup"}
  /\ active' = {o \in Objects : rsc[o] = h}
  /\ active' # {}
  /\ doing' = kind
  /\ asyncFree' = (kind = "setup")
  /\ UNCHANGED <<device, rsc, memory, driver, poolsVars, table, warned,
                 terminated>>

\* setup_no_throw catches what happens, so that the flag is always reset.
EndCall ==
  /\ ~terminated
  /\ doing \in {"compute", "setup"}
  /\ active' = {}
  /\ doing' = "idle"
  /\ asyncFree' = FALSE
  /\ UNCHANGED <<device, rsc, memory, driver, poolsVars, table, warned,
                 terminated>>

BeginDestroy(o) ==
  /\ Idle
  /\ rsc[o] # None
  /\ active' = {o}
  /\ doing' = "destroy"
  /\ UNCHANGED <<device, rsc, memory, driver, poolsVars, table, asyncFree,
                 warned, terminated>>

EndDestroy(o) ==
  /\ ~terminated
  /\ doing = "destroy"
  /\ active = {o}
  /\ Held(o) = {}
  /\ rsc' = [rsc EXCEPT ![o] = None]
  /\ active' = {}
  /\ doing' = "idle"
  /\ UNCHANGED <<device, memory, driver, poolsVars, table, asyncFree, warned,
                 terminated>>

-----------------------------------------------------------------------------
(* The buffers. *)

MayTake(o, b) ==
  /\ ~terminated
  /\ doing \in {"compute", "setup"}
  /\ o \in active
  /\ memory[o][b] = None

\* cudaMallocAsync, from the pool.
TakeFromPool(o, b, p) ==
  /\ MayTake(o, b)
  /\ devicePool
  /\ p \in ownedPtrs \ usedBlocks
  /\ usedBlocks' = usedBlocks \union {p}
  /\ memory' = [memory EXCEPT ![o][b] = p]
  /\ UNCHANGED <<userVars, driver, pinnedPool, devicePool, ownedPtrs, table,
                 asyncFree, warned, terminated>>

\* ... or from the driver, on the device of the object's Resources, which each
\* call of the API makes the current one.
TakeFromDriver(o, b, p) ==
  /\ MayTake(o, b)
  /\ driver[p] = None
  /\ driver' = [driver EXCEPT ![p] = device[rsc[o]]]
  /\ table' = table \union {p}
  /\ memory' = [memory EXCEPT ![o][b] = p]
  /\ UNCHANGED <<userVars, poolsVars, asyncFree, warned, terminated>>

\* A buffer is released in the destructor of a vector's storage, when the call
\* at hand resizes the vector or with its object.
GiveUp(o, b) ==
  /\ ~terminated
  /\ o \in active
  /\ memory[o][b] # None
  /\ memory' = [memory EXCEPT ![o][b] = None]

\* cudaFreeAsync of a block in use.
FreeToPool(o, b) ==
  /\ GiveUp(o, b)
  /\ devicePool
  /\ memory[o][b] \in usedBlocks
  /\ usedBlocks' = usedBlocks \ {memory[o][b]}
  /\ UNCHANGED <<userVars, driver, pinnedPool, devicePool, ownedPtrs, table,
                 asyncFree, warned, terminated>>

\* ... of anything else while frees are postponed: the pool takes over what the
\* table knows, and an address it does not know is an internal error.
FreeLater(o, b) ==
  /\ GiveUp(o, b)
  /\ devicePool /\ memory[o][b] \notin usedBlocks
  /\ asyncFree
  /\ IF memory[o][b] \in table
     THEN /\ ownedPtrs' = ownedPtrs \union {memory[o][b]}
          /\ table' = table \ {memory[o][b]}
          /\ UNCHANGED terminated
     ELSE /\ terminated' = TRUE
          /\ UNCHANGED <<ownedPtrs, table>>
  /\ UNCHANGED <<userVars, driver, pinnedPool, devicePool, usedBlocks, asyncFree,
                 warned>>

\* ... and otherwise through the driver, which refuses what is not allocated.
\* The table keeps its entry.
FreeAtOnce(o, b) ==
  /\ GiveUp(o, b)
  /\ devicePool => memory[o][b] \notin usedBlocks /\ ~asyncFree
  /\ driver' = [driver EXCEPT ![memory[o][b]] = None]
  /\ terminated' = (driver[memory[o][b]] = None)
  /\ UNCHANGED <<userVars, poolsVars, table, asyncFree, warned>>

-----------------------------------------------------------------------------

Init ==
  /\ device = [h \in Handles |-> None]
  /\ rsc = [o \in Objects |-> None]
  /\ memory = [o \in Objects |-> Clear]
  /\ active = {}
  /\ doing = "idle"
  /\ driver = [p \in Places |-> None]
  /\ pinnedPool = FALSE /\ devicePool = FALSE
  /\ ownedPtrs = {} /\ usedBlocks = {} /\ table = {}
  /\ asyncFree = FALSE
  /\ warned = FALSE
  /\ terminated = FALSE

UserStep ==
  \/ \E h \in Handles, d \in Devices : CreateResources(h, d)
  \/ \E h \in Handles : CreateResourcesThrows(h)
  \/ \E h \in Handles : DestroyResources(h)
  \/ Finalize
  \/ \E o \in Objects, h \in Handles : CreateObject(o, h)
  \/ \E h \in Handles, kind \in {"compute", "setup"} : BeginCall(h, kind)
  \/ EndCall
  \/ \E o \in Objects : BeginDestroy(o) \/ EndDestroy(o)

BufferStep ==
  \E o \in Objects, b \in Buffers :
    \/ \E p \in Places : TakeFromPool(o, b, p) \/ TakeFromDriver(o, b, p)
    \/ FreeToPool(o, b)
    \/ FreeLater(o, b)
    \/ FreeAtOnce(o, b)

Next == UserStep \/ BufferStep

Spec == Init /\ [][Next]_resourcesVars

-----------------------------------------------------------------------------

\* Each variable holds what the declarations in the code allow.
TypeOK ==
  /\ device \in [Handles -> Devices \union {None}]
  /\ rsc \in [Objects -> Handles \union {None}]
  /\ memory \in [Objects -> [Buffers -> Places \union {None}]]
  /\ active \subseteq Objects
  /\ doing \in {"idle", "compute", "setup", "destroy"}
  /\ driver \in [Places -> Devices \union {None}]
  /\ pinnedPool \in BOOLEAN /\ devicePool \in BOOLEAN
  /\ ownedPtrs \subseteq Places
  /\ usedBlocks \subseteq Places
  /\ table \subseteq Places
  /\ asyncFree \in BOOLEAN /\ warned \in BOOLEAN /\ terminated \in BOOLEAN

\* Until a destructor of the pool finds blocks in use (global_thread_handle.cu
\* 74-82), the order in which Resources and objects come and go does no harm:
\* nothing is freed twice or in vain, each buffer has memory that is allocated,
\* its own, and never offered by the pool to others.
MemoryKept ==
  ~warned =>
    /\ ~terminated
    /\ \A o \in Objects : \A p \in Held(o) :
         driver[p] # None /\ (p \in ownedPtrs => p \in usedBlocks)
    /\ \A o1, o2 \in Objects, b1, b2 \in Buffers :
         memory[o1][b1] = memory[o2][b2] /\ memory[o1][b1] # None
           => o1 = o2 /\ b1 = b2

\* Even then no memory is lost: what the driver has given is in the pool or in
\* a buffer, and a block of the pool that is in use is in a buffer.
NothingLost ==
  /\ \A p \in Places : driver[p] # None =>
       p \in ownedPtrs \/ \E o \in Objects : p \in Held(o)
  /\ \A p \in usedBlocks : p \in ownedPtrs /\ \E o \in Objects : p \in Held(o)
=============================================================================
