# A verification project for AmgX

AmgX solves sparse linear systems on GPUs with algebraic multigrid and Krylov
methods. Most of its source is floating-point kernels, which these modules do
not model. They model the parts in which *order* and *state* decide: the memory
pools behind every vector and the threads that share them; the hierarchy of
grids that is set up, set up again and deleted, and the recursion that solves
with it; setup and solve around it; the `Resources` that create and destroy the
pools for everybody; the exchange of halos between ranks; and three algorithms
that work in rounds, of which one chooses coarse points with messages between
ranks, and two pair rows and color them with racing threads.

Paths below are relative to the repository; `src/amg.cu` stands for the file of
that name in its `src` directory.

## Inventory

| Component | State | Operations | What makes it hard | What makes it correct |
|---|---|---|---|---|
| **Memory pool** `src/global_thread_handle.cu`, class `MemoryPool` | lists of used and free blocks, owned regions, sizes, a mutex | `add_memory`, `allocate`, `free`, `is_allocated` | splitting and merging over long series of calls, regions that are adjacent or not page-aligned, a list that is only almost sorted | blocks partition the regions; the statistics are exact |
| **Memory manager** same file | table of driver allocations, async-free flag, the device pool | `cudaMallocAsync`, `cudaFreeAsync`, `expandDeviceMemoryPool`, `setAsyncFreeFlag` | several threads; limit test and table lookup outside the mutexes; stale entries; exceptions | no memory shared or forgotten; calls return |
| **AMG hierarchy** `src/amg.cu`, `src/amg_level.cu` | levels linked in two memory spaces, `fine_h`, `fine_d`, coarse solvers, `num_levels` | `setup` (fresh, with reuse, hybrid, host levels), destructor | reuse of levels of an earlier setup, exceptions half-way, two ways out of the loop, ownership across memory spaces | levels fit each other, solvers belong to this matrix, nothing leaks or dies twice, coarsening ends |
| **Cycles** `src/cycles/` | flag `init` of each level, shared vectors `bc`, `xc` | V, W, F, CG, CGF | recursion over shared flags and vectors | each visit starts from the right data and yields a usable result |
| **Solver lifecycle** `src/solvers/solver.cu`, `src/amg_solver.cu` | set-up flag, scaling of matrix and vectors, residual history | `setup`, `resetup`, `solve` | early returns and exceptions between scaling and unscaling, history of fixed size | a call that succeeds unscales what it scaled; a solve uses one whole setup |
| **Scalers**, **convergence criteria** | factors, norms | scale, unscale, check | – | pairing (see solver lifecycle) |
| **Krylov solvers** `src/solvers/*gmres*`, `pcg`, `idr` ... | Krylov vectors, restarts | one iteration | restart boundaries | each vector is defined before use |
| **Smoothers, direct solvers** | factors, colors | setup, smooth | data-parallel numerics | – |
| **Aggregation** `src/aggregation/` | aggregates, strongest neighbours | matching, MIS, renumbering, Galerkin product | racy handshakes of thousands of GPU threads, a count that is a round old, leftover vertices | every row in one connected aggregate, rounds end, the same result every time if asked for |
| **Classical AMG** `src/classical/` | C/F marking of rows and halo | PMIS, aggressive PMIS, HMIS, interpolation | rounds over ranks that mark each other's points, ties, ranks with nothing to do | coarse points independent and covering; the partition does not show; ranks stay in step |
| **Energy minimisation** | – | interpolation | – | – |
| **Matrix coloring** `src/matrix_coloring/` | colors | rounds of hashing | threads that read colors while others write them, ties, entries without counterpart | no edge inside a color, each round colors something |
| **Matrices and products** `src/matrix.cu`, `src/csr_multiply*.cu` | CSR arrays, hash tables | SpMV, SpGEMM, transpose | a hash table that overflows and is retried larger | retry ends and repeats nothing |
| **Distribution** `src/distributed/` | halo maps, dirty bits, buffers, requests in flight | exchange in six ways, folds, renumbering, consolidation | non-blocking messages, tags, buffers filled again, each rank deciding alone whether to exchange | kernels read current halos; no buffer changes under a message; no deadlock |
| **C API** `src/amgx_c.cu` | handles, shared ownership | create, destroy, setup, solve | order of destruction, calls on destroyed handles | an object lives while a handle needs it |
| **Resources, threads** `src/resources.cu`, `src/thread_manager.cu` | global pools, (empty) thread manager | create, destroy, expand | process-wide pools owned by each `Resources` | pools outlive their users |
| **Configuration**, **readers**, **eigensolvers**, **wrappers** | – | parsing, I/O, numerics | – | – |

How they interact: a handle of the **C API** owns an `AMG_Solver`, which wraps a
tree of `Solver` objects. `AMG_Solver::setup` switches the **memory manager** to
postponed frees, runs `Solver::setup` and switches back. One kind of solver is
AMG: its `setup` builds the **hierarchy**, whose levels call **aggregation** or
**classical** coarsening, the **products** and the **smoothers**; its
`solve_iteration` runs one **cycle**. Every vector they use is allocated and freed
by the **memory manager**, from whichever thread of the application calls. There
are no threads inside: `ThreadManager` is a set of empty functions, so the
concurrency is that of the application's threads and of MPI ranks.

`PROJECT.json` lists every hazard found in this survey with the line where it
bites and the properties that would catch it.

## The modules

| Module | Models | Uses |
|---|---|---|
| `Allocator` | what a pool promises: pieces inside its regions, none lent twice | – |
| `MemoryPool` | class `MemoryPool` | `Allocator` (refinement) |
| `MemoryManager` | several threads in the calls around the pool | extends `MemoryPool` |
| `MemoryProofs` | theorems about `MemoryPool`, `MemoryManager` and `Resources` | `MemoryManager`, `Resources` |
| `AMGHierarchy` | `AMG_Setup::setup`, `AMG_Level`, `~AMG` | – |
| `AMGHierarchyProofs` | theorems about `AMGHierarchy` | `AMGHierarchy` |
| `Cycle` | `FixedCycle::cycle` and the dispatchers | – |
| `CycleProofs` | theorems about `Cycle` | `Cycle` |
| `SolverLifecycle` | `AMG_Solver`, class `Solver`, matrix handles | – |
| `SolverLifecycleProofs` | theorems about `SolverLifecycle` | `SolverLifecycle` |
| `Resources` | `Resources`, creation and destruction of objects and pools | – |
| `NeighborSync` | what an exchange promises: a barrier among neighbors | – |
| `HaloExchange` | `DistributedManager`'s exchanges over MPI, and their callers | `NeighborSync` (refinement) |
| `HaloExchangeProofs` | theorems about `HaloExchange` | `HaloExchange`, `NeighborSync` |
| `Pmis` | PMIS and aggressive PMIS on a distributed matrix | the promise of `NeighborSync` |
| `PmisProofs` | theorems about `Pmis` | `Pmis` |
| `Size2Selector` | pairwise aggregation on a GPU | – |
| `Size2SelectorProofs` | theorems about `Size2Selector` | `Size2Selector` |
| `ColoringRounds` | what the coloring promises, without threads | – |
| `MinMaxColoring` | the coloring `MIN_MAX` on a GPU | `ColoringRounds` (refinement) |
| `MinMaxColoringProofs` | theorems about `MinMaxColoring` | `MinMaxColoring` |
| `MC*` | instances for TLC | the module of that name |

### MemoryPool

`used` and `free` are the two block lists, `owned` is `m_owned_ptrs`. `used` is a
set, because the code searches it by address only; `free` is a sequence, because
its order decides what best fit finds and what `free()` merges. Every operation
holds `m_mutex2` from its first to its last line, so that each is one action:
`AddMemory`, `Allocate` (best fit, first of equals, exact fit or split),
`AllocateNothing` (returns NULL), `AllocateZero`, `Free` (ordered insertion, then
merging of the *first* mergeable run). `locked` records that an exception left
the mutex held: from then on nothing can happen. The window-shifting loop of
`free()` is given by what it computes (`IsFirstRun`, `ReplaceRun`).

`WithinLimit` is not a guard of `AddMemory`, since the code tests it outside the
critical section. Clients free what they hold; a second `free` of an address is
a `FatalError` and is excluded. Sizes are natural numbers: 64-bit `size_t` does
not overflow for memory that exists.

### MemoryManager

Extends the pool with threads. `pc[t]` says where a call of thread `t` is; an
action is one critical section, one call of the driver, or one read that the
code makes without a lock. `cudaMallocAsync` is `PoolAllocate`, or `PoolHasNoRoom`
(the size is scaled and rounded), `DriverMalloc`, `Register`. `cudaFreeAsync` is
`FreeBegins` (`is_allocated`, then the flag), and then `PoolFree`, or `DriverFree`,
or `FindBlock`, `LimitPassed`, `AddToPool`, `Erase`. `expandPool` is `ExpandBegins`,
`DriverMalloc`, `LimitPassed`, `AddToPool`. Exceptions are `DriverRefuses`,
`LimitReached`, `FindMisses`, `PoolRejectsZero`; a region they drop is recorded in
the ghost `lost`. `FreeBegins` joins the reads of `m_main_device_pool`, the result of
`is_allocated` and the flag: only the flag can change in between, and reading it
at the end of the critical section or later gives the same set of behaviours,
because `SetAsyncFreeFlag` commutes with every other action up to there.

`FindMisses` is also enabled while another thread is inside an insertion or
removal. That is a data race on a `std::map`, hence undefined; of its outcomes the
model keeps a hit and a miss. A crash is not modelled.

### AMGHierarchy

`heap` maps addresses to `AMG_Level` objects, so that dangling pointers, leaks and
double deletions can be expressed; `Deletable` and `Deleted` are what the recursive
destructor may do and does. A level keeps its rows, the setup its values come
from (`version`), what its smoother was set up on, its number of aggregates and
the size of its coarse vectors. The loop of the setup is `AtBottom`/`ReachBottom`
(its first exit), `ReuseNext` or `AllocateNext`, `CreateCoarseVertices` (any number
of aggregates, including all of them), `Descend` or `StopCoarsening` (its second
exit). Behind it come `SetupCoarseSolver`, `SwitchSpace` (hybrid mode), and `Split`,
`CopyLevel`, `LinkCopies` (host levels). `SetupThrows` is an exception of the
coarsening or of R\*A\*P, `CopyThrows` one of `allocate`, `transfer_from`, `setup` or
`setup_smoother` while levels are copied (`amg.cu:1062`-`1082`). The label `crashed`
stands for any use of deleted memory.

Until `LinkCopies` (`setFinestLevel`, line 1106) the copies hang on `first_host_lvl` alone,
a local of `setup` (`first`). No destructor runs when the loop throws, so the copies
made so far are lost, and with them the one that is being made. They leave `heap`,
because nothing leads to them any more, and the ghost `lost` keeps their addresses,
which stay in use. `NothingLeaks` says that no other level is ever lost. The
`FatalError` in line 1077 is not in the model: it is reached when the device has a coarse
solver and the host has none, and the loop only drops that of the space it works in,
which is the mode's own unless the solver is hybrid.

Not in this module: distributed matrices and consolidation (`setup_v2`),
`dense_lu_num_rows` raising `min_coarse_rows` (the instance is given the result),
constructors that throw between `delete` and assignment, and exceptions of the setup of
a smoother or coarse solver elsewhere than above (those leave the chains as they are).

The ghost `damaged` marks a hierarchy in which a setup has thrown. A level linked
but not coarsened is then taken for a usable one by a setup that reuses the
structure, so the properties of finished hierarchies start over when level 0 is
allocated again; leaks and double deletions are checked after an exception too. The
invariant below does not need the exception, because the model does not say what a throw
leaves half-made of a matrix; the code does not promise more, so it stays.

`HostLevelsAssumption` excludes solvers that are hybrid and have host levels. The
comment at `amg.cu:1037` does so too ("Used only for device modes without hybrid
mode") but no code does: the levels of the hybrid setup would be lost, because
`setFinestLevel` puts the first copy in the place of their root.

### Cycle

The recursion is a stack of frames. Of a vector pair (b, x) only this is kept:
does x approximate the solution for *this* b? Writing b makes it false, starting
from zero makes it true, adding a correction keeps it if the correction was
valid. `Given(l)` is the pair that a level shares between all visits, `Krylov(l)`
the pair (r, z) of the CG iteration around it. `PreSmooth`, `Restrict`, `Prolongate`
(with postsmoothing), `LaunchInVisit` are the parts of `FixedCycle::cycle`;
`Dispatched` is `generateNextCycles` with the dispatchers; `CGBegin`, `CGContinue`,
`CGEnd` are `dispatch_aux`, which CG and CGF share up to arithmetic.

The memory space of a level does not matter here: crossing it copies vectors
forth and back. `isASolvable()` is constantly false, so `solveExactly` is left out.

### SolverLifecycle

One action is one call of the user or one part of a call between two places that
may throw. `call` is the call in progress, afterwards what it returned; `entry` and
`rc` in it serve the properties. Setup is `Setup` or `Resetup` (`m_ptrA`, the test for
reuse, `set_is_matrix_setup(false)`), then `RefuseSetup` or `SetupMatrix`,
`ScaleForSetup` (`set_A`, the factors, the scaling), `SolverSetup`, `EndSetup`; or all of
it is `SkipSetup` (`reuse_all`). Solve is `Solve` (all up to the scaling), `StartSolve`,
`Iterate`, `EndSolve` or `SolveThrows`. The second disjunct of a step is its
exception.

Values are abstracted to their origin. `built` and `scaler` are the call of setup
that made them, entries of the history and the status the solve that wrote
them; of matrix, b and x it is kept how often they are scaled. Convergence is a
free choice after every iteration. The history is modelled as if it were stored.
A matrix lives while its handle or `m_ptrA` of a solver owns it. Two ghosts record
what the properties except: `torn`, the last setup threw after `set_A`; `kept`, the
last setup was refused or skipped, which replaced `m_ptrA` but not `m_A`.

These are the places where the code promises less than one may expect, found
while stating the properties, and the reason for their exceptions:

* `solve()` with `max_iters` 0 returns before it unscales (`solver.cu:788`), against the
  scheme written down in `Solver::setup` ("Scale initial solution, unscale matrix
  and rhs", line 445); so does every exception.
* `m_is_solver_setup` is never reset: after a setup that threw, `solve()` runs on
  what is left (`solver.cu:552`).
* With a setup refused or skipped for another matrix, the solver no longer owns
  the one it has (`amg_solver.cu:265`).
* With `structure_reuse_levels` -1 the setup of a *new* solver is skipped, with
  success, when another solver has set the matrix up (`amg_solver.cu:191`).
* A matrix whose `setupMatrix()` threw is uninitialized, but solvers set up earlier
  do not look at that when they solve with it.

Glued and consolidated matrices, solvers inside solvers (`smooth()`), and the life
of solver handles are not in this module.

### Resources

The pools belong to the process: the first `Resources` makes them, on its own
device (`MakeDevicePool`), and each that is destroyed destroys them, as does
`finalize()` (`FreeResources`). The module follows the memory of the objects, which
are the C++ objects behind the handles, through this. A call of the C API works on
the objects of one `Resources` (`BeginCall`, `EndCall`, `BeginDestroy`, `EndDestroy`);
while it runs, buffers take a block of the pool or memory of the driver and are
released in the three ways of `cudaFreeAsync` (`FreeToPool`, `FreeLater`,
`FreeAtOnce`). The user makes one call at a time and destroys an object before
its `Resources`, which is what `examples/amgx_capi_multi.c` does and less than a
program with a single `Resources` keeps to.

A region is one block here, so the initial region serves one buffer and the pool
grows by the regions that `FreeLater` hands to it: how regions are cut, and that
an address inside one is no base, add nothing to the question of who has what.
`warned` is the message that `~MemoryPool` prints about blocks in use; `MemoryKept`
holds up to it. `terminated` is what an exception of `cudaCheckError` does in a
destructor, `~DeviceMemoryPool` or that of a vector's storage.
Left out: lists of several devices, the size limit of the pool (0 by default),
pinned buffers beyond the existence of their pool, CUDA library handles (made
again on demand), and `expandRootPool()`, which calls a thread manager that the
constructor no longer creates.

### HaloExchange and NeighborSync

All ranks run one program of operations on vectors (`program`; a rank that reaches
its end chooses the next one for all). An operation is a list of calls (`Calls`): the
explicit exchanges of the classical setup, one and two rings deep; the folds
`min_from_halo` and `add_from_halo`; a matrix product, which exchanges around its
interior rows or before all of them; a smoother, which starts two exchanges, works
on interior rows and waits (`SmootherTail` is the branch it takes then), also from
a zero initial guess, whose halo needs no exchange. Every rank decides alone, from
its dirty bit and its number of rows, whether and how it exchanges.

`Post` is the setup of buffers, the gather and the requests; `FinishExchange` is
`MPI_Waitall`, the end of the transfer and, on the receiver, the copy into the halo.
`sent` and `posted` hold the requests of each pair of ranks. MPI (external) copies
a message out of the sender's buffer early (`SendEagerly`) or only when it is
matched (`Deliver`), and matches messages of one pair and tag in order. Data are
version numbers, so that a halo can be compared with the rows it copies.

`NeighborSync` knows only how many exchanges of a vector a rank has entered and
left, and lets it leave the k-th when its neighbors have entered theirs. The
histories `entered` and `left` of `HaloExchange` refine it.

`MPI_Test` and the state SENDING are left out, because `delayed_send` is always 1 and
never leads there; so is the variant for CUDA-aware MPI. Every rank has a
neighbor: without one, no call of this module does anything.

### Pmis

Each rank runs the kernels and exchanges of a round: `Mark` (initial marks, then
the comparison of weights), `FoldMarks` (`min_from_halo`), `ExchangeMarks`
(`exchange_halo`, and rows next to coarse points become fine), `ExchangeRound`, and
the reduction that decides on another round (`NextRound`). The ranks are as far
apart as exchanges let them be: a rank sends its k-th values to `mailbox` and goes
on when its neighbors have sent theirs, which is the promise of `NeighborSync`. The
kernels have a thread per row but write only equal values to one place, so each is
one step. The aggressive selector makes a matrix `S2` of the coarse points and runs
a second pass on it (`BeginSecond`), unless the rank has none (`SkipSecond`).

The strong connections, the hash of a point and the partition are inputs. Weights
are numbers of dependent points plus a hash below 1.0, in units of `Unit`; the hash
is of the row's number in the matrix, which the second pass renumbers, so each
pass has its own.

### Size2Selector

A kernel that looks for neighbors is a step per thread: thread i sees, of each row
written since the kernel began, the old aggregate or the new one (`Views`), which is
all that a GPU promises of unsynchronised reads. `FindStrongestNeighbour` is the
kernel of both phases, `Merge` the one for what is left. `MatchEdges` writes only
rows that no other thread reads, and is one step. The host loop counts the
unaggregated rows in even rounds and reads the count in odd ones (`StartCount`,
`ReadCount`), so it always decides on a count of the round before. Edge weights
(as computed from the matrix) are inputs; the renumbering of the aggregates is left
out.

### MinMaxColoring and ColoringRounds

With one ring, `LaunchColorRows` starts a kernel in which each uncolored row has a
thread (`ColorRow`). It reads of each neighbor the color it had when the kernel
began or, if its thread is done, the new one (`Views`, as above). With two rings one
kernel writes hashes to two arrays (`FindMinMaxNeighbors`) and another one colors
(`ColorRowsRingTwo`); neither reads what it writes, and each is one step. The host
counts the rows that are left and ends with `Finish`. Columns beyond the view are
skipped by the kernels and are not in the model; other numbers of rings are an
error. The hash is an input and may collide: `hash_function` maps 32 bits to 32 bits
but is no bijection.

`ColoringRounds` has no threads: in a round the greatest and the least uncolored
rows near them take a color, and some row takes one. That the kernel with its races
implements such a round rests on the tests of the two colors of the round: a
neighbor that has taken the color this thread is about to take counts as
uncolored. Between two rows that do not see each other mutually this does not
work. Where only one has an entry for the other, it may or may not overlook it
(`OneSided`).

## The runs

| Run | Instance | Shows |
|---|---|---|
| `pool` | pages of 2 bytes; 4 regions, two adjacent, one starting and one ending between pages; requests of 0–2 pages | the lists stay a partition, the counters exact, and the pool implements `Allocator` |
| `manager` | 2 threads; 4 regions, two at one address, two adjacent, one off the page grid; requests of 0, 150 (not scaled) and 250 bytes (scaled), expansion by 200, a limit that any one region fits; the flag | memory is never shared or forgotten; races pass the limit by at most one region; the answer of `is_allocated` is still right when `free` acts on it, so the pool steps as in `MemoryPool`; every call returns |
| `hierarchy` | 2 setups, matrices of 3 and 4 rows, up to 3 levels, 4 configurations, `structure_reuse_levels` -1, 0, 2 | levels fit each other, solvers are current, only copies that an exception drops are lost, a plain hierarchy never uses or deletes a deleted level, a reused structure is kept, setup ends |
| `cycle` | 5 cycle types, 1–4 levels, with and without coarse solver, sweeps and intensive smoothing, 1–2 CG iterations, 3 outer iterations | visits start from the right data, results are of the right hand side at hand, and levels are visited as often as the type says |
| `lifecycle` | 2 solvers sharing 2 matrices; with and without scaling, `structure_reuse_levels` -1, 0, 1, `max_iters` 0 and 2; 3 calls of setup, resetup and solve, any number of uploads and destructions between them | scaling is undone, solves run on one setup, results are of one solve, matrices in use are alive, with the exceptions above |
| `resources` | 2 `Resources` on any of 2 devices, 2 objects with 2 buffers each, 3 addresses | as long as no pool dies with blocks in use, buffers keep memory of their own and nothing terminates; memory is never lost, whatever dies |
| `halo` | 3 ranks in a line, one of them big enough to hide latency; 2 vectors, one with a tag that is the number of a rank; any 2 operations | kernels read current halos, dirty bits are right and equal on all ranks, buffers are kept, nothing is left over, nobody waits forever, exchanges are barriers |
| `pmis` | a path of 5 points, 3 partitions over 3 ranks, all 256 sets of strong connections, 2 hash functions, both selectors | coarse points are independent and cover the fine ones, halos agree, rounds are bounded, nobody waits forever, the partition does not show |
| `size2` | 6 rows: a path with growing weights, a path with weights 1 and 2 and one or two phases, a ring with a chord, a graph with one-sided entries and weights -1 to 2; with and without `merge_singletons` and `determinism_flag` | aggregates are connected and complete, only limits leave neighbors unaggregated, one phase is deterministic if asked to be, the selector returns |
| `coloring` | 5 rows: a path, a ring, a triangle with a tail and diagonals, a ring with one-sided entries; all orders of the hashes, and colliding ones; one and two rings; at most 0 or 1 rows left uncolored | rows near each other with different hashes have different colors, in every state; each kernel is one round and colors something |
| `host_levels`, `pmis_aggressive` | as above | the code does not do what a comment or document says; see below |

**Bounds.** Merging across a boundary needs two adjacent regions, merging the
wrong run a third region behind them in the list, page effects a region off the
page grid: the pool has them all and every order in which they may arrive. Two
threads suffice for each race, as it has two sides; a third thread would only
add to the sum in `OvershootBounded`, which is stated for any number. Three levels
are the fewest with an inner one, two setups the fewest with reuse; with two,
each setup may throw, keep or rebuild. Four levels let the visits of W and F
cycles differ on two levels, and three outer iterations show data of an earlier
one and of an earlier solve. Three calls are a setup, another one that refuses,
throws or reuses, and a solve, or two solves after a setup; with four, the run
takes 7.3 million states and passes as well. Three ranks in a line are the fewest
of which two wait for each other only through a third. Two operations are one
that leaves something behind and one that meets it; with one big rank, small and
big ranks exchange in different ways. A path of five points is the shortest on
which a decision takes several rounds to travel over two boundaries between
ranks, and over a rank in the middle of another's points. Six rows on the slope
make the rounds of the pairwise selector outlast its delayed count; the ring has
odd cycles. `MaxSetups`, `MaxRounds`, `MaxCalls` and `MaxOps` are the only bounds
that a guard tests. In `resources` the second `Resources` and object are the ones
that outlive the first, and three addresses let one come back while its old entry
is in the table and the two others are in use. `MCSolverLifecycle` is symmetric in
solvers and in matrices, `MCResources` in everything it has two or three of;
runs with liveness use no symmetry.

**Deadlock** is checked in `halo`, `pmis`, `size2` and `coloring`, whose programs end in a step of
their own (`AllFinished`, `Done`). It is not checked where the system stops: after
`allocate(0)`, after a solver was destroyed, after the use of a deleted matrix, when
a destructor has thrown, and at the bounds just named.

**Fairness.** A thread inside a call of the memory manager is scheduled again
(weak fairness of its next step): nothing in these calls waits but for the
mutexes, which are held for one action each. A setup is a single call on
one thread, so its steps are weakly fair together; so are the kernels and host
steps of one call of the pairwise selector, whose stream runs on. No thread has to
call anything. `HaloExchange`, `Pmis` and `MinMaxColoring` state no fairness: that no
rank waits forever is shown there as an invariant (`NobodyWaitsForever`: while ranks
wait, MPI or another rank can move), for `Pmis` with a bound on the rounds, and for
the coloring with the refinement, by which each round leaves fewer rows without a
color.

### What the violation runs show

* `host_levels`: host levels are deleted through `fine_d` and again through `fine_h`.
* `pmis_aggressive`: a rank that the first pass leaves without coarse points returns
  (`aggressive_pmis.cu:67`), while the others reduce over all ranks in the second
  pass and wait for it. `aggressive_hmis.cu` has the same lines.

Found while modelling, without a comment or test that says otherwise: an exception in the
loop that copies levels to the host (`amg.cu:1060`-`1098`) leaks the copies, as
`NothingLeaks` states with its exception for them (`lost`, in the run `hierarchy`).

Other places where the code does less than it says, which no run is spent on:
`add_memory` tests `m_max_size` before it locks, so `device_mem_pool_size_limit` may be
passed (`OvershootBounded` says by how much); `cudaFreeAsync` searches its table
without the mutex and may miss a block (`FindMisses`); `allocate(0)` throws with the
mutex locked (`EveryCallReturns` excepts it); `dense_lu_max_rows` is tested at the
first exit of the setup loop only; in hybrid mode the assertion in `amg.cu:1022`
fails at that exit, because the loop returns the coarsest level and not its parent.
The first `AMGX_resources_destroy` of `examples/amgx_capi_multi.c` (402-408) frees the
pool from which the next system has its vectors: releasing them hands addresses
that are no longer allocated to `::cudaFree`, and the exception leaves a destructor
(hence `~warned` in `MemoryKept`). Pools are "GPU specific resources" (`resources.cu:20`),
but the one on the device of the first `Resources` serves the objects of all. With
two handshaking phases the aggregates depend on what the threads of a kernel see of
each other, whatever `determinism_flag` is (hence one phase in `TimingIrrelevant`): it
"forces the various aggregators ... to be deterministic" (`core.cu:325`), but changes the
merging kernel only, not the one that looks for neighbors (`size2_selector.cu:257`). With
one phase it fails too where a weight is 0 (hence `ZerosHarmless`), in two ways that
TLC finds. Both ways: let rows 1-2 be coupled both ways by 0, 3-4 by 2 and 4-5 by 1, and
row 2 coupled to 5 one way; in the second round row 5 joins an aggregate. If the
thread of row 2 sees it without one, the hand goes to 5, which does not answer; if it sees
its aggregate, the hand goes to 1, and they are a pair. One way, with
`merge_singletons`: let 3-4 be coupled both ways by 1 and 4-5 by 2, row 2 to 3 and row 1 to
2 one way. When 3 joins the pair of 4 and 5, the thread of 2 may see it and join in the
same kernel, and that of 1 after it, or each a round later; if the limit of rounds is
reached in between, row 1 joins them or stays alone.
In `pmis.cu` a point with a weight of exactly 1.0 is neither made fine at the start
(237, weight < 1) nor coarse in a round (383, weight > 1); unless a neighbor becomes
coarse, the loop "until all points have been classified" (548) does not end. Such
weights exist: the hash of row 50703700 is 1.9e-8, which a single precision sum with
1.0 loses, and that of 63070946 is rounded up to a whole 1.0 (hence the hashes
of the instance, which are neither 0 nor `Unit`). A `max_uncolored_percentage` of 0
"leads to a perfect coloring" (`core.cu:524`) only among rows that see each other
and have different hashes.

## What is proved

`MemoryProofs`, about the pool, for every page size, limit, set of regions and set of
requests that satisfy the four assumptions of `MemoryPool` (the page size is
positive; the limit, regions and requests are natural numbers; a region has at
least one page, since an empty block could not be told from its neighbour):

* `PoolInvariant`: `PoolSpec => []PoolInv`. None of the properties is inductive alone.
  That `free()` does not merge across a boundary follows from `m_first` only if each
  block that begins at a region's start has it set; that merging loses nothing
  needs the blocks to tile the regions; that the block taken off a list is gone
  needs it to occur there once. `PoolInv` collects these: the owned regions are
  disjoint (`RegionsDisjoint`), the blocks of both lists tile them (`Tiles`), and no
  block is in both lists or twice in `free` (`Once`).
* The argument: each operation replaces a few blocks by others that cover the same
  bytes. Lemmas show that adding a whole region, splitting a block, moving a block
  between the lists and merging a run preserve tiling, and what each operation
  does to the blocks of the list; then there is one step per action.
* From it, `PoolTypeCorrect` and `BlocksAlwaysTile`: no two blocks overlap, no byte is
  lost, no block spans two regions (`NoOverlap`, `NoLeak`, `RegionsApart`).
* `AccountsAreExact`: `m_free_mem` and the used memory are the numbers of bytes in the
  lists. Only the used bytes and those of the owned regions are followed
  (`AccountInv`); by the tiling the free bytes are the rest (`AllBytes`), so the splits
  and merges of the free list need not be added up.
* `PoolImplementsAllocator`: with `memory` the aligned regions and `lent` the used
  blocks, `AddMemory` maps to `Grow`, `Allocate` to `Lend`, `Free` to `TakeBack` and
  the rest to stuttering.

`MemoryProofs`, about the manager, for any set of threads and any flags, requests, expansions
and answers of the driver, from the assumptions of `MemoryPool` and that the scaling
threshold and factor are natural numbers, that expansions ask for at least a byte and
that there are finitely many threads, at least one, and finitely many regions (only
`OvershootIsBounded` needs the last two):

* `ManagerInvariant`: `ManagerSpec => []ManagerInv`. That no two threads share memory is
  not inductive: it depends on what threads have in the middle of a call. The
  invariant therefore speaks of all that a thread has (`Has`: what it holds and what
  its call carries). It is a region of the driver that the pool does not own, or a
  block in use (`Known`, `InCall`), and nothing is in two hands (`OnePlace`). The table
  is right about every region that a thread may still free (`TableRight`), although
  entries of regions given back with `::cudaFree` stay: when an address comes back,
  the new entry overwrites the old one before the region can be freed.
* The argument: `OtherThreads` says what a step must respect of the threads that stand
  still. `QuietStep` covers the steps that move a call on, `HandingOver` those that
  end one with its memory gone elsewhere. In `PoolFreeInv` and `AddToPoolInv` the
  invariant gives what `MemoryPool` demands of its user.
* From it, `ManagerImplementsPool` and hence `ManagerImplementsAllocator`: every theorem
  about the pool holds under its threads. Also `AlwaysHeldApart` and `NeverForgets`.
* `OvershootIsBounded`: threads that passed the test of the limit and have not added
  their region yet each add one. The pool may be past the limit only by what the
  racing threads have added since, which is at most one region for each thread but the
  last to be tested. `RaceInv` bounds the pool's size by the number of threads that are
  between the test and the critical section.

`SolverLifecycleProofs`, for any numbers of solvers, matrices and calls and any
configurations (`max_iters` a natural number, `None` not a matrix):

* `LifecycleInvariant`: `Spec => []IInv`. The properties speak of single steps of a
  call, so the invariant says what each step has already done: whose matrix and
  whose factors the solver of the call has (`CallInv`), how often matrix, b and x
  are scaled at each step (`Balance`), which entries of the history are new
  (`Fresh`); and of the solvers that are not in a call, that they own their matrix
  or their last setup was refused or skipped (`OwnedBy`), and that they have one
  whole setup or their last one threw (`WholeBy`).
* The argument: a step concerns the solver of the call only (`AdvanceKeeps`,
  `ReturnKeeps`), and there is one lemma per action.
* From it, `LifecycleTypeCorrect`, `AlwaysSolvesItsSetup`, `AlwaysResultsOfOneSolve`,
  `AlwaysUsesLiveMatrix`, and the action property `AlwaysScalingUndone`.

`MemoryProofs`, about `Resources`, for any `Resources`, objects, buffers, devices and addresses, from
the assumption that `None` is none of them:

* `ResourcesInvariant`: `Spec => []IInv`. Two facts carry the properties. Whatever is
  allocated is known to the pool or the table and is the pool's or a buffer's
  (`FoundInv`), which holds always. And until a pool dies with blocks in use, the
  pool's regions are allocated, a buffer in one of them is in use there, and no two
  buffers have one address (`Kept`); so an address that is not in use in the pool
  is not of the pool at all, and freeing it through the driver takes nothing away.
* From it, `MemoryIsKept` and `NothingIsLost`.

`MinMaxColoringProofs`, for every finite set of rows, every matrix on them, all hashes
between `INT_MIN` and `INT_MAX`, one and two rings and any number of rows that may stay
uncolored:

* `ColoringInvariant`: `Spec => []IInv`. Perfection is not inductive in the middle of a
  kernel. The invariant says what threads may have read: those that have ended
  have the color of an `Allowed` choice on the colors at the beginning, the others
  none (`InKernel`); the arrays hold the extreme hashes of the uncolored rows around
  (`ArraysInv`); between kernels the colors are those of the last round (`Settled`),
  all below the next round's (`Below`), and rows near each other differ (`Apart`).
* The argument: whatever subset of the new colors a thread sees, the neighbors it
  overlooks are one-sided ones, so its color is an allowed choice of the round. Two
  rows of one round that are near each other and have one color would each have to
  be the greatest, or the least, of the two. Some row is colored, because among
  finitely many uncolored rows one has the greatest hash, which no row overlooks.
* From it, `ColoringTypeCorrect`, `AlwaysPerfect`, and `ColoringImplementsRounds`.

`AMGHierarchyProofs`, for any addresses, rows, `max_levels`, `coarsen_threshold`,
configurations, reuse and number of setups, from `HierarchyAssumption` and
`HostLevelsAssumption`:

* `HierarchyInvariant`: `Spec => []HierarchyInv`. What a destructor deletes is what its
  pointers lead to, and pointers into the other memory space survive the levels they
  led to, so that a new level may come to a place where an old pointer still
  leads. The invariant says nothing of those. The levels of each space, linked by
  the pointers of that space, are a chain (`IsChain`): a root that nothing leads to,
  no level with two predecessors, and nothing that does not come from the root.
  "Comes from the root" is said without induction: a set that has the root and is
  closed under the links has every level (`Rooted`).
* On top of it come what may be relied on whatever was thrown before (`LevelOK`: a level
  that another follows had too many rows to be the coarsest, was not the last that
  `max_levels` admits, and was coarsened for the one that follows), where the
  loop is (`Working`, `Behind`), and in what modes no pointer leads across (`InPlace`).
* The argument: a step cuts a chain, prolongs it, hangs a level to the end of it, or
  changes levels in place; a lemma for each (`CutUpper`, `GrowUpper`, `ReplaceNext`,
  `AddLower`, `RelabelKept` ...), and one for each action. A level is only deleted
  through a pointer, and what is `Deletable` is met once, hence never holds the
  level the pointer is in (`HolderStays`). In place, any level is deletable together
  with what follows it (`ChainDeletable`), which is why plain hierarchies never crash.
* While levels are copied, the chain of the other space hangs on `first` and not on its
  root (`Base`). All copies are reached from there and lead to nothing else
  (`ChainReach`), so an exception takes just them and leaves the rest as it was.
* From it, `LevelsAreLostByCopyingOnly`, `PlainNeverCrashesAlways`, and the action property
  `StructureIsKept`: the loop only replaces a level where `KeepNext` fails, and a level
  that is kept is coarse enough, because the one after it was made from it.
* `SetupInvariant` adds the layer `SetupInv`, which says what the setup has done: all
  levels above the one the loop works on are settled (`SettledAbove`), then the chain is
  `Complete`, host levels are `Copies` of the levels they will replace, and at the end
  the levels of *both* spaces, each followed by the one link it has (`Joined`), are a
  single chain in which every level has its solver (`Solid`).
* From it, `SolversAreCurrent` and `LevelsAlwaysFit`. That `num_levels` is the number of
  levels is a bijection between them and `0..num_levels - 1`: indices count along the
  chain, so no two levels have the same one (`CountsApart`) and none below the
  last is left out (`CountsToEnd`).

`CycleProofs`, for every depth, cycle type, number of sweeps and number of levels that
are skipped, from `CycleAssumption`:

* `CycleInvariant`: `Spec => []CycleInv`. Whether a visit finds what it needs depends on
  calls that are still waiting, any number of them. The invariant speaks of the
  whole stack: each call waits for the one above it and for what that one makes
  (`Returns`, `Chain`); calls further up work on pairs of vectors further down
  (`Above`, `Deep`); a call past its smoothing holds a usable x and has reset the flag
  of its level (`KeepsAll`); and what the call on top finds is right (`Finds`).
* The argument: by `Deep` a step overwrites vectors and flags of pairs that no waiting
  call has, so `KeepsAll` survives pushing and returning; there is one lemma per action.
* From it, `VisitsStartRight` and `VisitsPassOnUsable`.
* `VisitsAreCounted`: how often a level was visited is known only when the iteration is
  over, and is the power of a number that grows with the depth. In between, each call on the
  stack owes a number of visits, by its type, its level and the iterations it has left
  (`Pending`), the stack owes their sum (`Owes`), and for every level the visits made and
  those owed are those of the whole iteration (`Balance`). Every step keeps it, because
  a visit makes itself and what the cycles generated below it make (`Descent`), also
  where the level below is the coarsest. The sum is a sequence that each step makes
  longer or shorter at the top; powers are a recursive function (`Power`), whose
  existence and equations are proved by induction (`PowerFacts`).

`HaloExchangeProofs`, for any set of ranks, any symmetric neighborhoods, any tags (equal
ones too), any set of big ranks, any number of vectors and programs of any length,
from `HaloAssumption`:

* `HaloInvariant`: `Spec => []Inv`. Ranks are at different points of the program and
  MPI matches messages by tag alone, so no property is inductive, nor any formula on
  the present states of two ranks. What relates them is what the program determines.
  `Inv` says that there are a list `T` of all transfers (`Listed`), the dirty bits,
  versions and number of transfers `H` after each operation (`Program`), for each rank
  the number `N` of transfers it has begun, and for each message and each unmatched
  receive the transfer it belongs to, such that the network and every rank are
  where these say.
* The network (`Net`): the messages from one rank to another, and the receives that wait
  for them, are in the order of `T` (`Sends`, `Receives`), and a transfer is missing
  on one side if and only if it is on the other (`Agree`). From that follows that the
  first message and the first receive of a tag belong to the same transfer,
  although tags collide: by rank all messages of a pair have one tag, by vector
  those of one vector have, and a vector's tag may be a rank's (`QueueMatch`). A message still
  in its sender's buffer and an unmatched receive belong to a transfer that is open
  (`Buffered`, `Expected`), so `MPI_Waitall` protects both buffers.
* A rank (`RankOK`): the calls it has left, with the transfers it has open, lead from its
  dirty bits and versions to those in `H`, by way of the next transfers of `T`
  (`Rest`); `Stage` lists the situations within an operation. Big and small ranks go
  different ways to the same end. What is sent and what is read is right as long as
  clean halos are current (`DataOK`), except in the second half of a fold.
* The argument: one lemma for each situation of `Stage` (what a call makes of it), one for
  each change of the network, and one for each action that puts the two together. A
  rank that is first to reach the end of the program prolongs `T` and `H`
  (`ProgramGrows`); for the others nothing changes (`RankStays`).
* `HaloNobodyWaitsForever`: of the transfers for which some rank still has an unmatched
  receive, take the first in `T`. By `Agree` the sender has its message on the way, and
  then it is the first of its tag and MPI can deliver it (`FirstMatches`), or has not
  begun this transfer. In that case it has not finished the program (`Bounded`: programs
  have at most `MaxOps` operations, so all transfers of `T` are behind a finished rank),
  and if it waits it does so for a transfer before this one, which there is none of.
* From `Inv` also the other invariants TLC checks: `HaloReadsCurrent`, `HaloDirtyBitsTrue`,
  `HaloSendBufferKept`, `HaloNothingLeftBehind`; and the refinement `HaloSynchronizes`: a
  transfer begins only for a vector with none under way, and ends, by `Agree`, only
  when every neighbor has begun its own.

`Inv` claims that lists exist, which TLC cannot evaluate; the run checks what follows
from it.

`Size2SelectorProofs`, for any finite set of rows, any matrix, weights, limits and flags,
from `Size2Assumption` (weights are the same both ways, and 0 where an entry has no
counterpart), and for every timing of the threads:

* `SelectorInvariant`: `Spec => []IInv`. That aggregates are in one piece is not
  inductive. Hands of rows that got an aggregate stay as they were, and such a hand may
  meet that of a free row in a later round, in two phases: then the pair is named after
  a row of another aggregate. `Misnamed` says that the row which such a name stretched
  its hand to is in the aggregate, so that it happens once for a name, and `NamesTaken`
  that a free row may name one after itself. In one phase nobody has such a hand
  (`NobodyWaits`: a row takes an aggregate only when no neighbor with a weight of 0 or
  more is free), and every aggregate holds the row it is named after (`Named`).
* Two ways to get an aggregate cover all the steps: `Joining` (the one of a neighbor, or one's
  own) for the kernels that search and merge, and `Matched` for pairs. What a
  thread reads may be old, but a row gets an aggregate once, so what is read of a row
  that has one is right (`ViewFacts`).
* `Progress`, for one phase: if no row got an aggregate in a round, all hands are what
  rows choose with everything in view (`Choice`), and if there is a positive weight
  between free rows, two of them choose each other (`SomePair`): of the rows with an
  entry of the greatest weight take the last one, and the last of its neighbors with
  that weight. So two equal counts mean that there is nothing to pair, even
  though the host reads each of them a round late (`Counts`).
* From it, `NoAggregateInPieces` (`AggregatesConnected`) and `RoundsEndPaired`
  (`OnlyLimitsLeaveNeighbors`).
* `TimingDoesNotMatter` (`TimingIrrelevant`) compares with `InStep`, what the selector
  makes when all threads of a kernel read what was there before it. The two are not
  equal round by round: a row that no free row may still pair with can join an
  aggregate a round sooner or later. `TimingInv` says what is equal. There is a
  sequence of rounds in step (`Reached`) whose aggregates, at the start of each round,
  differ only in rows that are left alone: without an aggregate or named after themselves,
  with nobody free coupled to them (`Alike`). Each thread that has ended did what it would do
  in step or left its row alone (`Outcome`), which bounds what any round may make of the
  aggregates before it (`RoundOf`); and giving names to what is left makes the two
  equal (`Completed`). Where a weight is 0, or with two phases, rows that are
  left alone matter to others, and the theorem fails as described above.

`PmisProofs`, for every finite set of points and of ranks, any strong connections,
hashes and owners that `PmisAssumption` admits:

* `RanksMakeTheSameRounds`: `Spec => []IInv`. A rank sees its own points and a halo, it may
  be a round ahead of a neighbor, and one pass ahead of another rank, so that again no
  formula on present states is inductive. But all that ranks compute is determined by the
  matrix. `Before(P)` is the sequence of maps that one rank with the whole matrix goes
  through, round by round, for the problem `P` of a pass. `IInv` says that every map and
  mark of a rank is a part of it, cut to what the rank sees, at the round the rank is in;
  that every message in a mailbox is a cut too, of the round that its place in the mailbox
  says (`MessagesAre`), and every entry of a reduction the number of points its rank
  has left after that round (`ReductionsAre`); that the number of what a rank has sent and
  received fits where it is (`CountsAre`); and that ranks are as far apart as exchanges
  and reductions allow (`Skew`). The problem of the second pass is known when the first
  pass has ended somewhere, since then it has ended for all.
* The argument: a rank that does not see a heavier neighbor takes a point for coarse, one
  that does leaves it unassigned, and `min_from_halo` lets the latter win, so that the
  fold gives the mark of the sequence (`MarksAgree`, `FoldIs`); ranks that reduce the
  same numbers decide alike.
* From it, `RoundsStartFromOneMap` (`HalosAgree`), `CoarsePointsAreMaximal`
  (`CoarsePointsMaximal`: two neighbors are never both heaviest, and a fine point was
  made fine by a coarse one) and `SameCoarsePoints` (`SameOnAnyPartition`, for both passes).
* `RoundsAreBounded` assumes that no hash is 0 or a whole `Unit`: then the heaviest point
  that is left becomes coarse in every round. Without it the code does not end (see
  the weights of exactly 1.0 above).
* `RanksNeverWaitForever` (`NobodyWaitsForever`): of the ranks that have not returned, the
  one with the fewest exchanges and reductions behind it does not wait. A neighbor that
  is further behind would have returned, but a rank that has returned has sent all that
  its neighbors wait for (`ReturnedHasSent`; one that left after the first pass is nobody's
  neighbor in the second). In a reduction it might wait for a rank that has returned, which
  is what `CollectivesMatch` excludes; TLC finds the property true of all aggressive inputs as
  well, the ones that violate `CollectivesMatch` included.
* `OnePassMatches` (`CollectivesMatch`) is stated for inputs of which none is aggressive: the
  selector of one pass leaves no rank alone in a reduction. With two passes the run
  `pmis_aggressive` violates the same property.

Every invariant, refinement and action property that a passing run checks is now stated
by a theorem. Only model-checked is liveness (`EveryCallReturns`, `SetupEnds`,
`SelectorReturns`), and that each state has a successor: the prover does not handle
fairness and ENABLED, so the absence of deadlock among ranks is proved in the form of
`NobodyWaitsForever`, in which waiting is spelled out. Nor can it use theorems
about induction that take an operator as a parameter.
Where an argument is by induction (the rounds of `InStep`, the sequence `Before`,
powers), the proofs state it for a set of natural numbers (`SetInduction`, by the least
element that is not in it), and prove of each recursive function that it exists before
they use its equation.

## Plan

Done: the memory pool and its manager, the hierarchy, cycles, the solver lifecycle,
`Resources`, pairwise aggregation, PMIS, the exchange of halos, min-max coloring.
What is left, in this order:

1. **Handles**: the shared ownership of matrices and configurations by solver
   handles while `Resources` go; extends `SolverLifecycle`.
2. **More coarsening**: the MIS selector of aggregation and HMIS, against reference
   definitions; the other colorings.
3. **SpGEMM retry** of `csr_multiply.cu`: a table that overflows and is retried.
4. Consolidation (`setup_v2`) in `AMGHierarchy`.

## Not modelled, and why

Floating-point kernels (smoothers, interpolation, products, norms) compute on
data that TLC cannot enumerate. Parsers, readers and writers are text processing.
Vendored code (cusp, rapidjson, CUDA wrappers) is external. What the CUDA driver
does for the modelled parts is stated where it is used: `cudaMalloc` returns memory
that nobody has, or fails.
