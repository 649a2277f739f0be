-------------------------------- MODULE Cycle --------------------------------
(***************************************************************************)
(* One solve of the AMG solver: FixedCycle::cycle (src/cycles/) going down *)
(* and up the levels as V, W or F cycle, or with CG or flexible CG between *)
(* the levels.  The recursion of the code is a stack of frames here.       *)
(*                                                                         *)
(* What can go wrong is which data a visit starts from: every level has    *)
(* one flag init that says "x holds nothing yet", set by the parent and    *)
(* read by whoever comes first, and one pair bc, xc that all visits share. *)
(* Of a vector x only this is kept: is it an approximation for the right   *)
(* hand side next to it, or what an earlier one left behind?               *)
(***************************************************************************)
EXTENDS Integers, Sequences

CONSTANTS
  Modes,      \* the parameters: cycle, levels, sweeps, cycle_iters, ...
  MaxRounds   \* bound on the iterations of the outer solver

CycleTypes == {"V", "W", "F", "CG", "CGF"}

ModeType ==
  [cycle : CycleTypes, depth : Nat \ {0}, coarseSolver : BOOLEAN,
   presweeps : Nat, finestSweeps : Nat \union {-1}, coarsestSweeps : Nat,
   intensive : BOOLEAN, cycleIters : Nat \ {0}]

ASSUME CycleAssumption == Modes \subseteq ModeType /\ MaxRounds \in Nat

VARIABLES
  mode,    \* the parameters of this solver
  init,    \* init of each level
  valid,   \* ghost: whether the x of a pair approximates the b of the pair
  stack,   \* the calls in progress, innermost first
  visits,  \* ghost: visits of each level in this iteration
  rounds   \* iterations begun

vars == <<mode, init, valid, stack, visits, rounds>>

-----------------------------------------------------------------------------

Levels == 0..mode.depth - 1
IsCoarsest(l) == l = mode.depth - 1

\* The vectors a call works on: b, x of the level, given by its parent, or
\* r, z of the CG iteration around the level.
Given(l) == <<"given", l>>
Krylov(l) == <<"cg", l>>
Pairs == {"given", "cg"} \X Levels

Frame(op, l, type, pair) ==
  [op |-> op, level |-> l, type |-> type, pair |-> pair, iters |-> 0]

Top == stack[1]
Below == Tail(stack)
In(op) == stack # <<>> /\ Top.op = op
Become(op) == [Top EXCEPT !.op = op]

Larger(m, n) == IF m > n THEN m ELSE n

\* n_presweeps of the visit of a level.
Presweeps(l) ==
  IF IsCoarsest(l) THEN IF mode.coarseSolver THEN 0 ELSE mode.coarsestSweeps
  ELSE IF mode.presweeps = 0 THEN 0
  ELSE IF l = 0 /\ mode.finestSweeps # -1 THEN mode.finestSweeps
  ELSE IF mode.intensive THEN Larger(mode.presweeps + (l + 1) - 2, 0)
  ELSE mode.presweeps

\* Mutant: the second W cycle of the W dispatcher is missing.
DispatchedOnce(l, type) ==
  IF IsCoarsest(l) /\ mode.coarseSolver THEN <<Frame("coarse", l, type, Given(l))>>
  ELSE IF IsCoarsest(l) \/ type = "V" THEN <<Frame("pre", l, "V", Given(l))>>
  ELSE IF type = "W" THEN <<Frame("pre", l, "W", Given(l))>>
  ELSE IF type = "F" THEN <<Frame("pre", l, "W", Given(l)), Frame("pre", l, "V", Given(l))>>
  ELSE <<Frame("cg", l, type, Given(l))>>

\* generateNextCycles: the coarse solver at the end of the chain, one V cycle
\* there without it, or what the dispatcher of the cycle type does.
Dispatched(l, type) ==
  IF IsCoarsest(l) /\ mode.coarseSolver THEN <<Frame("coarse", l, type, Given(l))>>
  ELSE IF IsCoarsest(l) \/ type = "V" THEN <<Frame("pre", l, "V", Given(l))>>
  ELSE IF type = "W" THEN <<Frame("pre", l, "W", Given(l)), Frame("pre", l, "W", Given(l))>>
  ELSE IF type = "F" THEN <<Frame("pre", l, "W", Given(l)), Frame("pre", l, "V", Given(l))>>
  ELSE <<Frame("cg", l, type, Given(l))>>

-----------------------------------------------------------------------------

Init ==
  /\ mode \in Modes
  /\ init = [l \in Levels |-> FALSE]
  /\ valid = [p \in Pairs |-> FALSE]
  /\ stack = <<>>
  /\ visits = [l \in Levels |-> 0]
  /\ rounds = 0

\* solve_init and the first solve_iteration of a solve; x may be given as zero.
StartSolve(xIsZero) ==
  /\ stack = <<>> /\ rounds < MaxRounds
  /\ init' = [init EXCEPT ![0] = @ \/ xIsZero]
  /\ valid' = [valid EXCEPT ![Given(0)] = ~xIsZero]
  /\ stack' = <<Frame("pre", 0, mode.cycle, Given(0)), Frame("iteration", 0, mode.cycle, Given(0))>>
  /\ visits' = [l \in Levels |-> 0]
  /\ rounds' = rounds + 1
  /\ UNCHANGED mode

\* A further iteration of the same solve.
Iterate ==
  /\ stack = <<>> /\ rounds \in 1..MaxRounds - 1
  /\ stack' = <<Frame("pre", 0, mode.cycle, Given(0)), Frame("iteration", 0, mode.cycle, Given(0))>>
  /\ visits' = [l \in Levels |-> 0]
  /\ rounds' = rounds + 1
  /\ UNCHANGED <<mode, init, valid>>

EndIteration ==
  /\ In("iteration")
  /\ init' = [init EXCEPT ![0] = FALSE]
  /\ stack' = Below
  /\ UNCHANGED <<mode, valid, visits, rounds>>

\* What runs next in the visit: the coarse solver, the return from the
\* coarsest level, or the way down.
AfterSmoothing(l) ==
  IF ~IsCoarsest(l) THEN <<Become("restrict")>> \o Below
  ELSE IF mode.coarseSolver THEN <<Become("launch")>> \o Below
  ELSE Below

\* Mutant: the flag is not reset by the visit it was set for.
PreSmoothKeepsFlag ==
  LET l == Top.level
  IN  /\ In("pre")
      /\ valid' = [valid EXCEPT ![Top.pair] = @ \/ init[l]]
      /\ visits' = [visits EXCEPT ![l] = @ + 1]
      /\ stack' = AfterSmoothing(l)
      /\ UNCHANGED <<mode, init, rounds>>

\* Mutant: without presmoothing x is not filled with zeros.
PreSmoothNoFill ==
  LET l == Top.level
  IN  /\ In("pre")
      /\ valid' = [valid EXCEPT ![Top.pair] = @ \/ (init[l] /\ Presweeps(l) > 0)]
      /\ init' = [init EXCEPT ![l] = FALSE]
      /\ visits' = [visits EXCEPT ![l] = @ + 1]
      /\ stack' = AfterSmoothing(l)
      /\ UNCHANGED <<mode, rounds>>

\* With the flag set, x starts from zero: in the smoother or, when there are
\* no sweeps, filled.
PreSmooth ==
  LET l == Top.level
      smoothed == init[l] /\ Presweeps(l) > 0
      filled   == init[l] /\ Presweeps(l) = 0
  IN  /\ In("pre")
      /\ valid' = [valid EXCEPT ![Top.pair] = @ \/ smoothed \/ filled]
      /\ init' = [init EXCEPT ![l] = FALSE]
      /\ visits' = [visits EXCEPT ![l] = @ + 1]
      /\ stack' = AfterSmoothing(l)
      /\ UNCHANGED <<mode, rounds>>

\* launchCoarseSolver reads the flag and leaves it.
LaunchInVisit ==
  /\ In("launch")
  /\ valid' = [valid EXCEPT ![Top.pair] = @ \/ init[Top.level]]
  /\ stack' = Below
  /\ UNCHANGED <<mode, init, visits, rounds>>

LaunchCoarseSolver ==
  /\ In("coarse")
  /\ valid' = [valid EXCEPT ![Top.pair] = @ \/ init[Top.level]]
  /\ visits' = [visits EXCEPT ![Top.level] = @ + 1]
  /\ stack' = Below
  /\ UNCHANGED <<mode, init, rounds>>

\* The residual becomes bc, for which xc holds nothing; the next level is
\* marked and its cycles are generated.
Restrict ==
  LET l == Top.level + 1
  IN  /\ In("restrict")
      /\ valid' = [valid EXCEPT ![Given(l)] = FALSE]
      /\ init' = [init EXCEPT ![l] = TRUE]
      /\ stack' = Dispatched(l, Top.type) \o <<Become("prolong")>> \o Below
      /\ UNCHANGED <<mode, visits, rounds>>

\* The correction xc is added to x, x is smoothed, the visit returns.
Prolongate ==
  /\ In("prolong")
  /\ valid' = [valid EXCEPT ![Top.pair] = @ /\ valid[Given(Top.level + 1)]]
  /\ stack' = Below
  /\ UNCHANGED <<mode, init, visits, rounds>>

-----------------------------------------------------------------------------
(* dispatch_aux of the CG and CGF cycles. *)

\* z = M*r: a cycle at the level itself, for the CG's own vectors.
Precondition(l) ==
  /\ init' = [init EXCEPT ![l] = TRUE]
  /\ stack' = <<Frame("pre", l, Top.type, Krylov(l)),
                [Become("update") EXCEPT !.iters = IF Top.op = "cg" THEN 0 ELSE @ + 1]>>
              \o Below

CGBegin ==
  LET l == Top.level
  IN  /\ In("cg")
      /\ valid' = [valid EXCEPT ![Top.pair] = @ \/ init[l], ![Krylov(l)] = FALSE]
      /\ Precondition(l)
      /\ UNCHANGED <<mode, visits, rounds>>

\* x moves along p, which holds z; then a new residual ...
CGContinue ==
  LET l == Top.level
  IN  /\ In("update") /\ Top.iters + 1 < mode.cycleIters
      /\ valid' = [valid EXCEPT ![Top.pair] = @ /\ valid[Krylov(l)], ![Krylov(l)] = FALSE]
      /\ Precondition(l)
      /\ UNCHANGED <<mode, visits, rounds>>

\* ... or, after cycle_iters of them, the way back.
CGEnd ==
  /\ In("update") /\ Top.iters + 1 = mode.cycleIters
  /\ valid' = [valid EXCEPT ![Top.pair] = @ /\ valid[Krylov(Top.level)]]
  /\ stack' = Below
  /\ UNCHANGED <<mode, init, visits, rounds>>

-----------------------------------------------------------------------------

Next ==
  \/ \E xIsZero \in BOOLEAN : StartSolve(xIsZero)
  \/ Iterate
  \/ EndIteration
  \/ PreSmooth
  \/ LaunchInVisit
  \/ LaunchCoarseSolver
  \/ Restrict
  \/ Prolongate
  \/ CGBegin
  \/ CGContinue
  \/ CGEnd

Spec == Init /\ [][Next]_vars

-----------------------------------------------------------------------------

\* A visit starts from zero exactly when x holds nothing for its right hand
\* side: it never smooths what an earlier right hand side left in xc or z, and
\* the second half of a W or F cycle never throws the first half away.
StartsRight ==
  stack # <<>> /\ Top.op \in {"pre", "coarse", "cg"} => init[Top.level] = ~valid[Top.pair]

\* What a visit passes on is made for the right hand side at hand: x when the
\* residual is computed and when the visit returns, the correction that is
\* prolonged, the preconditioned residual that CG moves along.
ResultsUsable ==
  stack # <<>> =>
    /\ Top.op \in {"restrict", "prolong", "update", "iteration"} => valid[Top.pair]
    /\ Top.op = "prolong" => valid[Given(Top.level + 1)]
    /\ Top.op = "update" => valid[Krylov(Top.level)]

Power(b, n) ==
  LET p[k \in 0..n] == IF k = 0 THEN 1 ELSE b * p[k - 1]
  IN  p[n]

\* How often an iteration visits a level above the coarsest, d levels down: the
\* F cycle of this code is a W cycle followed by a V cycle.
Times(type, iters, d) ==
  IF type = "V" \/ d = 0 THEN 1
  ELSE CASE type = "W" -> Power(2, d)
         [] type = "F" -> Power(2, d - 1) + 1
         [] OTHER -> Power(iters, d)

\* After an iteration each level was visited as often as the cycle type says,
\* the coarsest once for each visit of its parent.
VisitsCounted ==
  In("iteration") /\ Len(stack) = 1 =>
    \A l \in Levels :
      visits[l] = Times(mode.cycle, mode.cycleIters,
                        IF l > 0 /\ IsCoarsest(l) THEN l - 1 ELSE l)
=============================================================================
