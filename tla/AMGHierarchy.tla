---------------------------- MODULE AMGHierarchy ----------------------------
(***************************************************************************)
(* The grid hierarchy that AMG_Setup (src/amg.cu) builds: a chain of       *)
(* AMG_Level objects linked by next_h and next_d, rooted at fine_h and     *)
(* fine_d.  It is set up again and again, with or without its structure,   *)
(* may move to the other memory space part of the way, and is deleted with *)
(* the solver.  Coarsening may throw at any level, and so may the copying  *)
(* of levels to the other memory space, which loses the copies.            *)
(*                                                                         *)
(* A matrix is its number of rows and the setup its values come from; a    *)
(* smoother or coarse solver is what it was last set up on.                *)
(***************************************************************************)
EXTENDS Integers, FiniteSets

CONSTANTS
  Addresses,     \* where levels may be allocated
  Null,
  Primary,       \* the memory space of the solver's mode
  FineRows,      \* rows of the matrices to solve with
  MaxLevels,     \* max_levels
  Threshold,     \* coarsen_threshold, in percent
  ReuseChoices,  \* values structure_reuse_levels is given between setups
  Configs,       \* min_fine_rows, min_coarse_rows, ... of the solvers
  MaxSetups      \* bound on the setups of one solver

Spaces == {"host", "device"}

ConfigType ==
  [minFine : Nat, minCoarse : Nat, hostRows : Nat, luMax : Nat, coarse : BOOLEAN]

ASSUME HierarchyAssumption ==
  /\ Null \notin Addresses /\ Primary \in Spaces
  /\ FineRows \subseteq Nat \ {0} /\ ReuseChoices \subseteq Nat \union {-1}
  /\ MaxLevels \in Int /\ Threshold \in Int
  /\ Configs \subseteq ConfigType
  /\ \A c \in Configs : c.luMax # 0 => c.coarse

\* "Used only for device modes without hybrid mode": nothing enforces it, but
\* a solver of both kinds would lose the levels of its hybrid setup.
ASSUME HostLevelsAssumption ==
  \A c \in Configs : c.hostRows > 0 => c.minFine <= c.minCoarse

VARIABLES
  cfg,        \* the parameters of this solver
  heap,       \* the AMG_Level objects, but for those that are lost
  fine,       \* fine_h and fine_d
  coarse,     \* coarse_solver_h and coarse_solver_d
  reuse,      \* m_structure_reuse_levels
  numLevels,  \* num_levels
  setups,     \* ghost: setups begun
  damaged,    \* ghost: a setup has thrown since level 0 was last allocated
  pc, space,  \* where the setup is, and the memory space it works in
  cur, prev,  \* level and prev_level; d_cur_lvl and h_prev_lvl of the copy
  last,       \* last_dev_lvl
  first,      \* first_host_lvl
  lost        \* ghost: where levels lie that an exception dropped

local == <<pc, space, cur, prev, last>>
copyVars == <<first, lost>>
vars == <<cfg, heap, fine, coarse, reuse, numLevels, setups, damaged, local, copyVars>>

-----------------------------------------------------------------------------

Other(s) == IF s = "host" THEN "device" ELSE "host"
NoNext == [s \in Spaces |-> Null]
NextAcross(a) == [s \in Spaces |-> IF s = Primary THEN Null ELSE a]
NoMatrix == [rows |-> 0, version |-> 0]

\* AMG_Level::AMG_Level.
NewLevel(s) ==
  [space |-> s, index |-> 0, A |-> NoMatrix, isSetup |-> FALSE,
   smoother |-> NoMatrix, aggregates |-> 0, vectors |-> 0, next |-> NoNext]

Links(h, a, S) == IF a \in DOMAIN h THEN {h[a].next[s] : s \in S} \ {Null} ELSE {}

\* What the pointers into the memory spaces S lead to, from a on: what is in
\* every set that a is in and that no pointer leads out of.
Follows(h, S, R) == \A b \in R : Links(h, b, S) \subseteq R
Closure(h, a, S) ==
  LET Closed == {R \in SUBSET Addresses : {a} \ {Null} \subseteq R /\ Follows(h, S, R)}
  IN  {b \in Addresses : \A R \in Closed : b \in R}

\* What the destructor of the level at a deletes ...
Reach(h, a) == Closure(h, a, Spaces)

\* ... and may delete, when that is live and is met once each.
Deletable(h, a) ==
  LET R == Reach(h, a)
      L(b) == Links(h, b, Spaces)
  IN  /\ R \subseteq DOMAIN h
      /\ \A b \in R : a \notin L(b)
      /\ \A b, c \in R : b # c => L(b) \intersect L(c) = {}

Without(h, S) == [b \in DOMAIN h \ S |-> h[b]]

Deleted(h, a) == Without(h, Reach(h, a))

With(h, a, l) == [b \in DOMAIN h \union {a} |-> IF b = a THEN l ELSE h[b]]

\* operator new: any address that is not in use.  What is lost stays in use.
Unused(h) == Addresses \ (DOMAIN h \union lost)

-----------------------------------------------------------------------------

MinFine == IF cfg.minFine > cfg.minCoarse THEN cfg.minFine ELSE cfg.minCoarse
Hybrid == MinFine # cfg.minCoarse
MinRows == IF space = Primary THEN MinFine ELSE cfg.minCoarse

Goto(l) == pc' = l
Crash == Goto("crashed") /\ UNCHANGED <<heap, fine, coarse, space, cur, prev, last>>

\* isCoarsest().
IsCoarsest(h, a) == h[a].next = NoNext

\* setup_smoother(): on the level's own matrix.
SmootherSetUp(l) == [l EXCEPT !.smoother = l.A]

Init ==
  /\ cfg \in Configs
  /\ \E f \in [Spaces -> Addresses] :
       /\ f["host"] # f["device"]
       /\ heap = [a \in {f[s] : s \in Spaces} |-> NewLevel(CHOOSE s \in Spaces : f[s] = a)]
       /\ fine = f
  /\ coarse = [s \in Spaces |-> [exists |-> cfg.coarse, A |-> NoMatrix]]
  /\ reuse = 0 /\ numLevels = 0 /\ setups = 0 /\ damaged = FALSE
  /\ pc = "new" /\ space = Primary
  /\ cur = Null /\ prev = Null /\ last = Null
  /\ first = Null /\ lost = {}

Resting == pc \in {"new", "ready", "failed"}

\* Mutant: the root in the other memory space is not reset.
BeginSetupKeepsRoot(r) ==
  /\ Resting /\ setups < MaxSetups
  /\ reuse' = r /\ numLevels' = 1 /\ setups' = setups + 1
  /\ IF Deletable(heap, fine[Other(Primary)])
       THEN /\ heap' = Deleted(heap, fine[Other(Primary)])
            /\ Goto("fine") /\ space' = Primary
            /\ UNCHANGED <<fine, coarse, cur, prev, last>>
       ELSE Crash
  /\ UNCHANGED <<cfg, damaged, copyVars>>

\* setup() with structure_reuse_levels = r deletes the finest level of the
\* other memory space.
BeginSetup(r) ==
  /\ Resting /\ setups < MaxSetups
  /\ reuse' = r /\ numLevels' = 1 /\ setups' = setups + 1
  /\ IF Deletable(heap, fine[Other(Primary)])
       THEN /\ heap' = Deleted(heap, fine[Other(Primary)])
            /\ fine' = [fine EXCEPT ![Other(Primary)] = Null]
            /\ Goto("fine") /\ space' = Primary
            /\ UNCHANGED <<coarse, cur, prev, last>>
       ELSE Crash
  /\ UNCHANGED <<cfg, damaged, copyVars>>

\* Level 0 is kept, or allocated anew when nothing is to be reused; then it
\* gets the matrix.  Reuse is for matrices of the same structure.
SetFineMatrix(n) ==
  LET a == fine[Primary]
      rebuild == heap[a].isSetup /\ reuse = 0
      l(old) == [old EXCEPT !.A = [rows |-> n, version |-> setups],
                            !.index = 0, !.isSetup = TRUE]
  IN  /\ pc = "fine"
      /\ (heap[a].isSetup /\ ~rebuild) => n = heap[a].A.rows
      /\ IF rebuild /\ ~Deletable(heap, a) THEN Crash
         ELSE /\ IF rebuild
                   THEN LET h == Deleted(heap, a)
                        IN  \E b \in Unused(h) :
                              /\ heap' = With(h, b, l(NewLevel(Primary)))
                              /\ fine' = [fine EXCEPT ![Primary] = b]
                              /\ cur' = b
                   ELSE /\ heap' = [heap EXCEPT ![a] = l(@)]
                        /\ cur' = a
                        /\ UNCHANGED fine
              /\ prev' = Null /\ Goto("top")
              /\ UNCHANGED <<coarse, space, last>>
      /\ damaged' = (damaged /\ ~rebuild)
      /\ UNCHANGED <<cfg, reuse, numLevels, setups, copyVars>>

-----------------------------------------------------------------------------
(* The loop of AMG_Setup::setup. *)

\* The test at the head of the loop.
AtBottom == numLevels >= MaxLevels \/ heap[cur].A.rows <= MinRows

\* Leaving at the top, the loop returns the coarsest level itself.
ReachBottom ==
  LET tooLarge == cfg.luMax # 0 /\ heap[cur].A.rows > cfg.luMax
      exists   == coarse[space].exists /\ ~tooLarge
  IN  /\ pc = "top" /\ AtBottom
      /\ coarse' = [coarse EXCEPT ![space].exists = exists]
      /\ heap' = IF exists THEN heap ELSE [heap EXCEPT ![cur] = SmootherSetUp(@)]
      /\ prev' = cur
      /\ Goto("built")
      /\ UNCHANGED <<cfg, fine, reuse, numLevels, setups, damaged, space, cur, last, copyVars>>

\* Mutant: one level fewer is kept.
KeepNextTooShallow ==
  heap[cur].next[space] # Null /\ ~(reuse # -1 /\ reuse <= numLevels + 1)

\* The next level of an earlier setup is used again.
KeepNext == heap[cur].next[space] # Null /\ ~(reuse # -1 /\ reuse <= numLevels)

ReuseNext ==
  /\ pc = "top" /\ ~AtBottom /\ KeepNext
  /\ LET a == heap[cur].next[space]
     IN  heap' = [heap EXCEPT ![a].index = numLevels, ![a].A.version = 0]
  /\ Goto("matrices")
  /\ UNCHANGED <<cfg, fine, coarse, reuse, numLevels, setups, damaged, space, cur, prev, last, copyVars>>

\* Mutant: the old next level is overwritten and not deleted.
AllocateNextOver ==
  /\ pc = "top" /\ ~AtBottom /\ ~KeepNext
  /\ \E a \in Unused(heap) :
       heap' = With([heap EXCEPT ![cur].next[space] = a], a,
                    [NewLevel(space) EXCEPT !.index = numLevels])
  /\ Goto("vertices")
  /\ UNCHANGED <<cfg, fine, coarse, reuse, numLevels, setups, damaged, space, cur, prev, last, copyVars>>

AllocateNext ==
  /\ pc = "top" /\ ~AtBottom /\ ~KeepNext
  /\ LET old == heap[cur].next[space]
         h == Deleted(heap, old)
     IN  IF ~Deletable(heap, old) THEN Crash
         ELSE /\ \E a \in Unused(h) :
                   heap' = With([h EXCEPT ![cur].next[space] = a], a,
                                [NewLevel(space) EXCEPT !.index = numLevels])
              /\ Goto("vertices")
              /\ UNCHANGED <<fine, coarse, space, cur, prev, last>>
  /\ UNCHANGED <<cfg, reuse, numLevels, setups, damaged, copyVars>>

\* The coarsening algorithm finds some number of coarse vertices.
CreateCoarseVertices ==
  /\ pc = "vertices"
  /\ \E c \in 1..heap[cur].A.rows : heap' = [heap EXCEPT ![cur].aggregates = c]
  /\ Goto("matrices")
  /\ UNCHANGED <<cfg, fine, coarse, reuse, numLevels, setups, damaged, space, cur, prev, last, copyVars>>

\* Mutant: no progress is required.
CoarseEnoughOrEqual ==
  100 * heap[cur].aggregates <= Threshold * heap[cur].A.rows

CoarseEnough ==
  /\ 100 * heap[cur].aggregates <= Threshold * heap[cur].A.rows
  /\ heap[cur].aggregates # heap[cur].A.rows

\* Mutant: the loop forgets to move to the next level.
DescendInPlace ==
  LET a == heap[cur].next[space]
      c == heap[cur].aggregates
  IN  /\ pc = "matrices" /\ CoarseEnough
      /\ heap' = [heap EXCEPT ![a].A = [rows |-> c, version |-> heap[cur].A.version],
                              ![a].isSetup = TRUE,
                              ![cur] = [SmootherSetUp(@) EXCEPT !.vectors = c]]
      /\ Goto("top")
      /\ UNCHANGED <<cfg, fine, coarse, reuse, numLevels, setups, damaged, space, cur, prev, last, copyVars>>

\* The coarse matrix is made, vectors sized, the smoother set up; one down.
Descend ==
  LET a == heap[cur].next[space]
      c == heap[cur].aggregates
  IN  /\ pc = "matrices" /\ CoarseEnough
      /\ heap' = [heap EXCEPT ![a].A = [rows |-> c, version |-> heap[cur].A.version],
                              ![a].isSetup = TRUE,
                              ![cur] = [SmootherSetUp(@) EXCEPT !.vectors = c]]
      /\ prev' = cur /\ cur' = a /\ numLevels' = numLevels + 1
      /\ Goto("top")
      /\ UNCHANGED <<cfg, fine, coarse, reuse, setups, damaged, space, last, copyVars>>

\* Too many coarse vertices: this level is the coarsest.  A pointer left from
\* an earlier setup makes it pass for another, and the deleted level is used.
StopCoarsening ==
  LET next == heap[cur].next[space]
      h == [Deleted(heap, next) EXCEPT ![cur].next[space] = Null]
  IN  /\ pc = "matrices" /\ ~CoarseEnough
      /\ IF ~Deletable(heap, next) \/ ~IsCoarsest(h, cur) THEN Crash
         ELSE /\ heap' = IF coarse[space].exists THEN h
                         ELSE [h EXCEPT ![cur] = SmootherSetUp(@)]
              /\ Goto("built")
              /\ UNCHANGED <<fine, coarse, space, cur, prev, last>>
      /\ UNCHANGED <<cfg, reuse, numLevels, setups, damaged, copyVars>>

\* Coarsening or the product R*A*P throws; the exception leaves setup().
SetupThrows ==
  /\ pc \in {"vertices", "matrices"}
  /\ Goto("failed") /\ damaged' = TRUE
  /\ cur' = Null /\ prev' = Null
  /\ UNCHANGED <<cfg, heap, fine, coarse, reuse, numLevels, setups, space, last, copyVars>>

-----------------------------------------------------------------------------
(* After the loop. *)

\* The levels from a on, in memory space s, and the last of them.
Chain(a, s) == Closure(heap, a, {s})
Coarsest(a, s) == CHOOSE b \in Chain(a, s) : heap[b].next[s] = Null

Finish == IF cfg.hostRows > 0
            THEN Goto("split") /\ UNCHANGED <<cur, prev>>
            ELSE Goto("ready") /\ cur' = Null /\ prev' = Null

\* Mutant: the coarse solver gets the parent of the coarsest level.
SetupCoarseSolverOnParent ==
  /\ pc = "built" /\ (Hybrid => space # Primary)
  /\ coarse' = IF coarse[space].exists /\ prev # Null
                 THEN [coarse EXCEPT ![space].A = heap[prev].A] ELSE coarse
  /\ Finish
  /\ UNCHANGED <<cfg, heap, fine, reuse, numLevels, setups, damaged, space, last, copyVars>>

SetupCoarseSolver ==
  /\ pc = "built" /\ (Hybrid => space # Primary)
  /\ coarse' = IF coarse[space].exists
                 THEN [coarse EXCEPT ![space].A = heap[Coarsest(cur, space)].A]
                 ELSE coarse
  /\ Finish
  /\ UNCHANGED <<cfg, heap, fine, reuse, numLevels, setups, damaged, space, last, copyVars>>

\* Hybrid: a copy of the coarsest level in the other memory space is to take
\* its place under prev_level_0, and coarsening goes on from there.
SwitchSpace ==
  LET o == Other(Primary)
      copy == [NewLevel(o) EXCEPT !.A = heap[cur].A, !.index = heap[cur].index,
                                  !.isSetup = TRUE]
      dead == IF prev = Null THEN Null ELSE heap[prev].next[Primary]
  IN  /\ pc = "built" /\ Hybrid /\ space = Primary
      /\ IF ~Deletable(heap, dead) THEN Crash
         ELSE /\ \E a \in Unused(heap) :
                   LET h == With(Deleted(heap, dead), a, copy)
                   IN  /\ heap' = IF prev = Null THEN h
                                  ELSE [h EXCEPT ![prev].next = NextAcross(a)]
                       /\ fine' = [fine EXCEPT ![o] = a]
                       /\ cur' = a
              /\ prev' = Null /\ space' = o
              /\ Goto("top")
              /\ UNCHANGED <<coarse, last>>
      /\ UNCHANGED <<cfg, reuse, numLevels, setups, damaged, copyVars>>

\* amg_host_levels_rows: levels from the first that is small enough on are
\* copied to the other memory space.
Split ==
  LET R == Chain(fine[Primary], Primary)
      Small == {a \in R : heap[a].A.rows <= cfg.hostRows}
      Splits(a) == \A b \in Small : heap[a].index <= heap[b].index
  IN  /\ pc = "split"
      /\ IF Small # {}
           THEN LET a == CHOOSE b \in Small : Splits(b)
                IN  /\ cur' = a
                    /\ last' = IF a = fine[Primary] THEN Null
                               ELSE CHOOSE b \in R : heap[b].next[Primary] = a
                    /\ Goto("copy")
           ELSE cur' = Null /\ Goto("ready") /\ UNCHANGED last
      /\ prev' = Null /\ first' = Null
      /\ UNCHANGED <<cfg, heap, fine, coarse, reuse, numLevels, setups, damaged, space, lost>>

\* transfer_from() copies all but links and smoother.  The first copy deletes
\* the coarse solver of the mode's space instead of setting its smoother up;
\* that of the other space still exists, since no loop ran there.  The copies
\* are known to the locals of setup() alone.
CopyLevel ==
  LET o == Other(Primary)
      copy == [heap[cur] EXCEPT !.space = o, !.next = NoNext, !.smoother = NoMatrix]
      drop == coarse[Primary].exists
  IN  /\ pc = "copy" /\ cur # Null
      /\ \E a \in Unused(heap) :
           LET h == With(heap, a, IF drop THEN copy ELSE SmootherSetUp(copy))
           IN  /\ heap' = IF prev = Null THEN h ELSE [h EXCEPT ![prev].next[o] = a]
               /\ first' = IF first = Null THEN a ELSE first
               /\ prev' = a
      /\ coarse' = [coarse EXCEPT ![Primary].exists = FALSE]
      /\ cur' = heap[cur].next[Primary]
      /\ UNCHANGED <<cfg, fine, reuse, numLevels, setups, damaged, pc, space, last, lost>>

\* allocate(), transfer_from(), setup() or setup_smoother() of a copy throws.
\* No destructor runs: the copies made so far are lost, and this one, if it
\* was allocated.
CopyThrows ==
  /\ pc = "copy" /\ cur # Null
  /\ \E new \in {{}} \union {{a} : a \in Unused(heap)} :
       lost' = lost \union Reach(heap, first) \union new
  /\ heap' = Without(heap, Reach(heap, first))
  /\ Goto("failed") /\ damaged' = TRUE
  /\ cur' = Null /\ prev' = Null /\ last' = Null /\ first' = Null
  /\ UNCHANGED <<cfg, fine, coarse, reuse, numLevels, setups, space>>

\* The copies replace what they were copied from, and only now become known to
\* the solver.  There is no last_dev_lvl when the finest level was small enough
\* already.
LinkCopies ==
  /\ pc = "copy" /\ cur = Null
  /\ IF last = Null \/ ~Deletable(heap, heap[last].next[Primary])
       THEN Crash /\ UNCHANGED first
       ELSE /\ heap' = [Deleted(heap, heap[last].next[Primary]) EXCEPT
                          ![last].next = NextAcross(first)]
            /\ fine' = [fine EXCEPT ![Other(Primary)] = first]
            /\ Goto("ready") /\ prev' = Null /\ last' = Null /\ first' = Null
            /\ UNCHANGED <<coarse, space, cur>>
  /\ UNCHANGED <<cfg, reuse, numLevels, setups, damaged, lost>>

\* ~AMG deletes fine_d and then fine_h.
Destroy ==
  LET h == Deleted(heap, fine["device"])
  IN  /\ Resting
      /\ IF Deletable(heap, fine["device"]) /\ Deletable(h, fine["host"])
           THEN /\ heap' = Deleted(h, fine["host"])
                /\ fine' = NoNext /\ Goto("destroyed")
                /\ UNCHANGED <<coarse, space, cur, prev, last>>
           ELSE Crash
      /\ UNCHANGED <<cfg, reuse, numLevels, setups, damaged, copyVars>>

-----------------------------------------------------------------------------

SetupStep ==
  \/ \E n \in FineRows : SetFineMatrix(n)
  \/ ReachBottom
  \/ ReuseNext
  \/ AllocateNext
  \/ CreateCoarseVertices
  \/ Descend
  \/ StopCoarsening
  \/ SetupThrows
  \/ SetupCoarseSolver
  \/ SwitchSpace
  \/ Split
  \/ CopyLevel
  \/ CopyThrows
  \/ LinkCopies

Next ==
  \/ \E r \in ReuseChoices : BeginSetup(r)
  \/ SetupStep
  \/ Destroy

\* setup() is one call: once begun it runs on.
Spec == Init /\ [][Next]_vars /\ WF_vars(SetupStep)

-----------------------------------------------------------------------------

\* The whole hierarchy stays in the memory space of the mode.
Plain == ~Hybrid /\ cfg.hostRows = 0

\* The levels of a solve, once a setup has returned.
Path == Reach(heap, fine[Primary])

\* Modes in which a finished setup leaves a hierarchy that a cycle can go
\* through: not hybrid, no coarse solver if levels move to the host, and no
\* second setup after they have.
Solvable ==
  /\ pc = "ready" /\ ~damaged /\ ~Hybrid
  /\ cfg.hostRows > 0 => ~cfg.coarse /\ setups = 1

\* However setups, rebuilds and exceptions of the coarsening follow each other,
\* every level that was allocated and not deleted can still be reached, from
\* the solver or from the setup that is running.  Lost are only the copies that
\* an exception drops while levels are copied to the host: no other mode loses
\* a level.
NothingLeaks ==
  pc # "crashed" =>
    /\ DOMAIN heap \subseteq
         UNION {Reach(heap, a) : a \in {fine["host"], fine["device"], cur, prev, last, first}}
    /\ lost # {} => cfg.hostRows > 0

\* A setup that returns has set up, on the values of this setup's matrix and
\* of the right level, each solver that a cycle will run: the smoother of
\* every level but the coarsest, and there the coarse solver if it exists.
SolversCurrent ==
  Solvable => \A a \in Path :
    LET l == heap[a]
    IN  /\ l.A.version = setups
        /\ IF IsCoarsest(heap, a) /\ coarse[l.space].exists
             THEN coarse[l.space].A = l.A ELSE l.smoother = l.A

\* ... and consecutive levels fit: as many coarse rows as aggregates, coarse
\* vectors of that size, fewer rows at each level.  num_levels counts them, also
\* after a part of an earlier hierarchy was used again, and max_levels bounds it.
LevelsFit ==
  Solvable =>
    /\ \A a \in Path : \A b \in Links(heap, a, Spaces) :
         /\ heap[b].A.rows = heap[a].aggregates /\ heap[a].vectors = heap[b].A.rows
         /\ heap[b].A.rows < heap[a].A.rows
         /\ heap[b].index = heap[a].index + 1
    /\ Cardinality(Path) = numLevels
    /\ numLevels = 1 \/ numLevels <= MaxLevels

\* In the memory space of its mode a hierarchy is never deleted twice or used
\* after deletion, whatever setups threw on the way.
PlainNeverCrashes == Plain => pc # "crashed"

\* With structure_reuse_levels = k, the first k levels of a hierarchy that was
\* set up are there through later setups, with -1 all of them, and each level
\* keeps the coarsening that led to the next.
StructureKept ==
  [][\A a \in DOMAIN heap :
       (/\ Plain /\ ~damaged /\ heap[a].isSetup /\ ~Resting
        /\ \/ a \notin DOMAIN heap' \/ ~heap'[a].isSetup
           \/ /\ \E b \in Links(heap, a, Spaces) : heap[b].isSetup
              /\ heap'[a].aggregates # heap[a].aggregates)
       => reuse # -1 /\ heap[a].index >= reuse]_vars

\* Coarsening ends, at the latest after max_levels levels.
SetupEnds == ~Resting ~> (Resting \/ pc \in {"crashed", "destroyed"})

\* "Don't delete both since the hierarchies meet at some point !!!"
NeverDeletedTwice == pc # "crashed"
=============================================================================
