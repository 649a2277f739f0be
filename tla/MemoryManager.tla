---------------------------- MODULE MemoryManager ----------------------------
(***************************************************************************)
(* cudaMallocAsync, cudaFreeAsync and expandDeviceMemoryPool of            *)
(* src/global_thread_handle.cu, called by several threads: they share the  *)
(* device pool (MemoryPool), the table m_allocated_blocks of what came     *)
(* from the driver, and the flag m_use_async_free that every solver setup  *)
(* switches.  The pool's own operations are atomic (m_mutex2); what lies   *)
(* between them is not: each step here is one critical section, one call   *)
(* of the driver or one unlocked read.                                     *)
(***************************************************************************)
EXTENDS MemoryPool

CONSTANTS
  Threads,      \* the threads that use the library
  Threshold,    \* m_alloc_scaling_threshold
  Factor,       \* m_alloc_scaling_factor, in percent
  ExpandSizes   \* the sizes expandPool() is asked for

ASSUME ScalingAssumption == Threshold \in Nat /\ Factor \in Nat
ASSUME ExpandAssumption  == ExpandSizes \subseteq Nat \ {0}
ASSUME FiniteAssumption  ==
  Threads # {} /\ IsFiniteSet(Threads) /\ IsFiniteSet(Regions)

VARIABLES
  live,         \* the driver's allocations, as [begin, size] (external)
  allocated,    \* m_allocated_blocks: address -> size
  useAsyncFree, \* m_use_async_free
  pc,           \* where each thread is inside a call
  item,         \* the memory, or only its size, that the call is about
  held,         \* what each thread was given and may use
  lost          \* ghost: regions dropped by an exception in a free

managerVars == <<live, allocated, useAsyncFree, pc, item, held, lost>>
vars == <<poolVars, managerVars>>

Piece(a, n) == [begin |-> a, size |-> n]
NoItem == Piece(0, 0)

-----------------------------------------------------------------------------

\* MemoryManager::scale: over-allocate what is large.
Scaled(n) == IF n >= Threshold THEN n + Factor * (n \div 100) ELSE n

\* What the fallback asks the driver for.
FallbackSize(n) == PageRoundUp(Scaled(n))

\* cudaMalloc returns memory that nobody has (external).
Unused(r) == \A l \in live : Disjoint(l, r)

\* The thread leaves the call.
Return(t) == pc' = [pc EXCEPT ![t] = "idle"] /\ item' = [item EXCEPT ![t] = NoItem]

GoTo(t, l, x) == pc' = [pc EXCEPT ![t] = l] /\ item' = [item EXCEPT ![t] = x]

Give(t, p) == held' = [held EXCEPT ![t] = @ \union {p}]

-----------------------------------------------------------------------------
(* cudaMallocAsync. *)

PoolAllocate(t, n, i) ==
  /\ pc[t] = "idle"
  /\ Allocate(n, i)
  /\ Give(t, Piece(free[i].begin, PageRoundUp(n)))
  /\ UNCHANGED <<live, allocated, useAsyncFree, pc, item, lost>>

PoolHasNoRoom(t, n) ==
  /\ pc[t] = "idle"
  /\ AllocateNothing(n)
  /\ GoTo(t, "driverMalloc", Piece(0, FallbackSize(n)))
  /\ UNCHANGED <<live, allocated, useAsyncFree, held, lost>>

\* The exception leaves the call, and m_mutex2 locked.
PoolRejectsZero(t) ==
  /\ pc[t] = "idle"
  /\ AllocateZero
  /\ UNCHANGED managerVars

\* ::cudaMalloc, for the fallback and for expandPool.
DriverMalloc(t, r) ==
  /\ pc[t] \in {"driverMalloc", "expandMalloc"}
  /\ r.size = item[t].size
  /\ Unused(r)
  /\ live' = live \union {r}
  /\ GoTo(t, IF pc[t] = "driverMalloc" THEN "register" ELSE "expandLimit", r)
  /\ UNCHANGED <<poolVars, allocated, useAsyncFree, held, lost>>

\* Mutant: the retry behind the check is made, over and over.
DriverRefusesRetries(t) ==
  /\ pc[t] \in {"driverMalloc", "expandMalloc"}
  /\ GoTo(t, pc[t], item[t])
  /\ UNCHANGED <<poolVars, live, allocated, useAsyncFree, held, lost>>

\* ... which may fail: cudaCheckError throws, the "very last attempt" is dead.
DriverRefuses(t) ==
  /\ pc[t] \in {"driverMalloc", "expandMalloc"}
  /\ Return(t)
  /\ UNCHANGED <<poolVars, live, allocated, useAsyncFree, held, lost>>

\* m_allocated_blocks[address] = size.
Entered(address, size) ==
  [a \in DOMAIN allocated \union {address} |->
     IF a = address THEN size ELSE allocated[a]]

\* Mutant: the table gets the size before over-allocation.
RegisterRequest(t) ==
  /\ pc[t] = "register"
  /\ allocated' = Entered(item[t].begin, item[t].size - PageSize)
  /\ Give(t, item[t])
  /\ Return(t)
  /\ UNCHANGED <<poolVars, live, useAsyncFree, lost>>

\* Under m_mutex; it overwrites what an earlier ::cudaFree left behind.
Register(t) ==
  /\ pc[t] = "register"
  /\ allocated' = Entered(item[t].begin, item[t].size)
  /\ Give(t, item[t])
  /\ Return(t)
  /\ UNCHANGED <<poolVars, live, useAsyncFree, lost>>

-----------------------------------------------------------------------------
(* cudaFreeAsync. *)

\* MemoryPool::is_allocated.
IsAllocated(p) == \E b \in used : b.begin = p.begin

\* The caller gives p up; is_allocated is one critical section, what follows
\* from it another.
FreeBegins(t, p) ==
  /\ pc[t] = "idle"
  /\ p \in held[t]
  /\ ~locked
  /\ held' = [held EXCEPT ![t] = @ \ {p}]
  /\ GoTo(t, IF IsAllocated(p) THEN "poolFree"
             ELSE IF useAsyncFree THEN "find" ELSE "driverFree", p)
  /\ UNCHANGED <<poolVars, live, allocated, useAsyncFree, lost>>

PoolFree(t) ==
  /\ pc[t] = "poolFree"
  /\ \E b \in used : b.begin = item[t].begin /\ Free(b)
  /\ Return(t)
  /\ UNCHANGED <<live, allocated, useAsyncFree, held, lost>>

\* m_allocated_blocks.find(ptr), without m_mutex.
FindBlock(t) ==
  /\ pc[t] = "find"
  /\ item[t].begin \in DOMAIN allocated
  /\ GoTo(t, "freeLimit", Piece(item[t].begin, allocated[item[t].begin]))
  /\ UNCHANGED <<poolVars, live, allocated, useAsyncFree, held, lost>>

\* A concurrent insert or erase rebalances the tree under the unlocked find.
TableInMotion(t) ==
  \E u \in Threads \ {t} : pc[u] \in {"register", "erase"}

\* The find misses: "Invalid call to cudaFreeAsync", the block is dropped.
FindMisses(t) ==
  /\ pc[t] = "find"
  /\ item[t].begin \notin DOMAIN allocated \/ TableInMotion(t)
  /\ lost' = lost \union {item[t]}
  /\ Return(t)
  /\ UNCHANGED <<poolVars, live, allocated, useAsyncFree, held>>

\* Mutant: only expandPool() tests the limit.
LimitAssumed(t) ==
  /\ pc[t] \in {"freeLimit", "expandLimit"}
  /\ GoTo(t, IF pc[t] = "freeLimit" THEN "freeAdd" ELSE "expandAdd", item[t])
  /\ UNCHANGED <<poolVars, live, allocated, useAsyncFree, held, lost>>

\* The limit test of add_memory, before it takes the mutex ...
LimitPassed(t) ==
  /\ pc[t] \in {"freeLimit", "expandLimit"}
  /\ WithinLimit(item[t])
  /\ GoTo(t, IF pc[t] = "freeLimit" THEN "freeAdd" ELSE "expandAdd", item[t])
  /\ UNCHANGED <<poolVars, live, allocated, useAsyncFree, held, lost>>

\* ... throws: the region stays with the driver and nobody knows it.
LimitReached(t) ==
  /\ pc[t] \in {"freeLimit", "expandLimit"}
  /\ ~WithinLimit(item[t])
  /\ lost' = lost \union {item[t]}
  /\ Return(t)
  /\ UNCHANGED <<poolVars, live, allocated, useAsyncFree, held>>

\* The critical section of add_memory.
AddToPool(t) ==
  /\ pc[t] \in {"freeAdd", "expandAdd"}
  /\ AddMemory(item[t])
  /\ IF pc[t] = "freeAdd" THEN GoTo(t, "erase", item[t]) ELSE Return(t)
  /\ UNCHANGED <<live, allocated, useAsyncFree, held, lost>>

\* m_allocated_blocks.erase(ptr_it), under m_mutex.
Erase(t) ==
  /\ pc[t] = "erase"
  /\ allocated' = [a \in DOMAIN allocated \ {item[t].begin} |-> allocated[a]]
  /\ Return(t)
  /\ UNCHANGED <<poolVars, live, useAsyncFree, held, lost>>

\* Mutant: ::cudaFree is skipped while frees are to be postponed.
DriverFreePostponed(t) ==
  /\ pc[t] = "driverFree"
  /\ live' = IF useAsyncFree THEN live ELSE live \ {item[t]}
  /\ Return(t)
  /\ UNCHANGED <<poolVars, allocated, useAsyncFree, held, lost>>

\* ::cudaFree: the entry of m_allocated_blocks stays.
DriverFree(t) ==
  /\ pc[t] = "driverFree"
  /\ live' = live \ {item[t]}
  /\ Return(t)
  /\ UNCHANGED <<poolVars, allocated, useAsyncFree, held, lost>>

-----------------------------------------------------------------------------

\* expandPool tests the limit, asks the driver, and adds with a second test.
ExpandBegins(t, n) ==
  /\ pc[t] = "idle"
  /\ MaxSize = 0 \/ n + poolSize <= MaxSize
  /\ GoTo(t, "expandMalloc", Piece(0, n))
  /\ UNCHANGED <<poolVars, live, allocated, useAsyncFree, held, lost>>

\* A solver setup of this thread begins (TRUE) or ends (FALSE).
SetAsyncFreeFlag(t, set) ==
  /\ pc[t] = "idle"
  /\ useAsyncFree' = set
  /\ UNCHANGED <<poolVars, live, allocated, pc, item, held, lost>>

ManagerInit ==
  /\ PoolInit
  /\ live = owned
  /\ allocated = <<>>
  /\ useAsyncFree = FALSE
  /\ pc = [t \in Threads |-> "idle"]
  /\ item = [t \in Threads |-> NoItem]
  /\ held = [t \in Threads |-> {}]
  /\ lost = {}

\* The steps of a call that has begun.
Continue(t) ==
  \/ \E r \in Regions : DriverMalloc(t, r)
  \/ DriverRefuses(t)
  \/ Register(t)
  \/ PoolFree(t)
  \/ FindBlock(t)
  \/ FindMisses(t)
  \/ LimitPassed(t)
  \/ LimitReached(t)
  \/ AddToPool(t)
  \/ Erase(t)
  \/ DriverFree(t)

Begin(t) ==
  \/ \E n \in Requests, i \in DOMAIN free : PoolAllocate(t, n, i)
  \/ \E n \in Requests : PoolHasNoRoom(t, n)
  \/ 0 \in Requests /\ PoolRejectsZero(t)
  \/ \E p \in held[t] : FreeBegins(t, p)
  \/ \E n \in ExpandSizes : ExpandBegins(t, n)
  \/ \E set \in BOOLEAN : SetAsyncFreeFlag(t, set)

ManagerNext == \E t \in Threads : Begin(t) \/ Continue(t)

\* A thread inside a call is scheduled again; nobody has to start one.
ManagerSpec ==
  /\ ManagerInit /\ [][ManagerNext]_vars
  /\ \A t \in Threads : WF_vars(Continue(t))

-----------------------------------------------------------------------------

\* Two threads, or one thread twice, never own the same byte, and no memory
\* is given back to the driver while a thread may use it.
HeldApartAndLive ==
  /\ \A t, u \in Threads : \A p \in held[t], q \in held[u] :
       (t # u \/ p # q) => Disjoint(p, q)
  /\ \A t \in Threads : \A p \in held[t] :
       \E r \in live : r.begin <= p.begin /\ End(p) <= End(r)

\* Labels at which a thread has a driver region in hand that no list knows.
Carrying == {"register", "find", "freeLimit", "freeAdd", "driverFree",
             "expandLimit", "expandAdd"}

\* No driver memory is forgotten, however frees, setups and expansions of
\* several threads interleave: it is owned by the pool, held, being carried
\* between the two, or was dropped by an exception.
NothingForgotten ==
  \A r \in live :
    \/ r \in owned \/ r \in lost
    \/ \E t \in Threads : r \in held[t] \/ (pc[t] \in Carrying /\ item[t] = r)

Largest == CHOOSE n \in {r.size : r \in Regions} : \A r \in Regions : r.size <= n

\* The limit is passed by at most one region per thread that raced for it.
OvershootBounded ==
  MaxSize # 0 => poolSize <= MaxSize + (Cardinality(Threads) - 1) * Largest

\* Whatever the threads do between the pool's critical sections, the pool
\* goes through steps of MemoryPool: regions are fresh when they are added and
\* blocks in use when they are freed, so what is proved of it holds here.
ImplementsPool == PoolSpec

\* Every call returns, with memory, without it, or with an exception, unless
\* a request of no bytes has left the pool's mutex locked.
EveryCallReturns ==
  \A t \in Threads : pc[t] # "idle" ~> pc[t] = "idle" \/ locked
=============================================================================
