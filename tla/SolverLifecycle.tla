--------------------------- MODULE SolverLifecycle ---------------------------
(***************************************************************************)
(* The calls a user of the C API makes on solvers and matrices: upload,    *)
(* destroy, setup, resetup and solve, each of which may throw half way.    *)
(* Covered are AMG_Solver (src/amg_solver.cu), the base class Solver       *)
(* (src/solvers/solver.cu) and the ownership of matrices by the handles of *)
(* the API (include/amgx_c_wrappers.inl).                                  *)
(*                                                                         *)
(* With a scaler the solver works on the user's own matrix and vectors,    *)
(* scaled in place and unscaled at the end; `scaled` counts how often the  *)
(* values of a matrix are scaled, vec does so for b and x (x is unscaled   *)
(* first, hence negative).  What the concrete solver makes of the matrix   *)
(* is one value: the setup call that made it.                              *)
(***************************************************************************)
EXTENDS Integers

CONSTANTS
  Solvers,   \* solver handles
  Matrices,  \* matrix handles
  Configs,   \* the configurations of the solvers
  MaxCalls   \* bound on the calls of setup, resetup and solve

None == "none"
Broken == "broken"

ConfigType == [scaling : BOOLEAN, reuseLevels : -1..1, maxIters : Nat]

ASSUME LifecycleAssumption ==
  /\ Configs \subseteq ConfigType
  /\ MaxCalls \in Nat
  /\ None \notin Matrices

VARIABLES
  cfg,    \* the configuration, the same for all solvers
  mat,    \* of each matrix: handle, initialized, setup, scaled
  slv,    \* of each solver: A, ptrA, isSetup, built, scaler, results; and
          \* two ghosts, torn and kept
  vec,    \* how often b and x are scaled
  call,   \* the call in progress, or what the last one returned
  calls   \* calls made

vars == <<cfg, mat, slv, vec, call, calls>>

-----------------------------------------------------------------------------

\* A matrix handle owns its matrix, and so does m_ptrA of a solver.
Alive(m) == mat[m].handle \/ \E s \in Solvers : slv[s].ptrA = m
Dangling(s) == slv[s].A # None /\ ~Alive(slv[s].A)

Scales(m) == <<mat[m].scaled, vec.b, vec.x>>

Me == slv[call.s]
Idle == call.at = "idle"
At(step) == call.at = step

\* The call returns, with no exception (ok) or with one that the _no_throw
\* wrapper has turned into an error code.
Return(rc) == call' = [call EXCEPT !.at = "idle", !.rc = rc, !.done = FALSE,
                                   !.reuse = FALSE, !.iters = 0]

NewCall(op, s, m, at, reuse) ==
  [at |-> at, op |-> op, s |-> s, m |-> m, reuse |-> reuse, iters |-> 0,
   done |-> FALSE, entry |-> Scales(m), rc |-> "none"]

Init ==
  /\ cfg \in Configs
  /\ mat = [m \in Matrices |->
              [handle |-> TRUE, initialized |-> TRUE, setup |-> FALSE, scaled |-> 0]]
  /\ slv = [s \in Solvers |->
              [A |-> None, ptrA |-> None, isSetup |-> FALSE,
               built |-> <<None, 0>>, scaler |-> <<None, 0>>,
               numIters |-> 0, history |-> [i \in 0..cfg.maxIters |-> 0],
               status |-> 0, torn |-> FALSE, kept |-> FALSE]]
  /\ vec = [b |-> 0, x |-> 0]
  /\ call = [at |-> "idle", op |-> "none", s |-> None, m |-> None,
             reuse |-> FALSE, iters |-> 0, done |-> FALSE,
             entry |-> <<0, 0, 0>>, rc |-> "none"]
  /\ calls = 0

-----------------------------------------------------------------------------
\* Calls on matrices and vectors.

\* AMGX_matrix_upload_all: initialized is off until all has been copied.
\* That the matrix was set up for a solver is not forgotten.
Upload(m) ==
  /\ Idle /\ mat[m].handle
  /\ \E complete \in BOOLEAN :
       mat' = [mat EXCEPT ![m].initialized = complete, ![m].scaled = 0]
  /\ UNCHANGED <<cfg, slv, vec, call, calls>>

\* AMGX_matrix_replace_coefficients overwrites the values.
ReplaceCoefficients(m) ==
  /\ Idle /\ mat[m].handle
  /\ mat' = [mat EXCEPT ![m].scaled = 0]
  /\ UNCHANGED <<cfg, slv, vec, call, calls>>

\* AMGX_matrix_destroy gives up the ownership of the handle.
DestroyMatrix(m) ==
  /\ Idle /\ mat[m].handle
  /\ mat' = [mat EXCEPT ![m].handle = FALSE]
  /\ UNCHANGED <<cfg, slv, vec, call, calls>>

\* AMGX_vector_upload of b and x.
UploadVectors ==
  /\ Idle
  /\ vec' = [b |-> 0, x |-> 0]
  /\ UNCHANGED <<cfg, mat, slv, call, calls>>

-----------------------------------------------------------------------------
\* setup and resetup.

\* Mutant: the solver forgets to share the ownership of the matrix.
BeginSetupUnowned(s, m, reuse) ==
  /\ mat' = [mat EXCEPT ![m].setup = FALSE]
  /\ UNCHANGED slv
  /\ call' = NewCall("setup", s, m, "check", reuse)

\* setup_capi and setup_no_throw: the solver becomes an owner of the matrix,
\* whose values count as changed.
BeginSetup(s, m, reuse) ==
  /\ mat' = [mat EXCEPT ![m].setup = FALSE]
  /\ slv' = [slv EXCEPT ![s].ptrA = m]
  /\ call' = NewCall("setup", s, m, "check", reuse)

Called(m) == Idle /\ calls < MaxCalls /\ mat[m].handle

ReusesAll(m) == cfg.reuseLevels = -1 /\ mat[m].setup

\* AMG_Solver::setup.  Whether the structure is reused depends on the matrix,
\* not on the solver that set it up.
Setup(s, m) ==
  /\ Called(m)
  /\ ~ReusesAll(m)
  /\ BeginSetup(s, m, cfg.reuseLevels > 0 /\ mat[m].setup)
  /\ calls' = calls + 1
  /\ UNCHANGED <<cfg, vec>>

\* AMG_Solver::setup with reuse_all: nothing is done, successfully.
SkipSetup(s, m) ==
  /\ Called(m)
  /\ ReusesAll(m)
  /\ slv' = [slv EXCEPT ![s].ptrA = m, ![s].kept = TRUE]
  /\ call' = [NewCall("setup", s, m, "idle", FALSE) EXCEPT !.rc = "ok"]
  /\ calls' = calls + 1
  /\ UNCHANGED <<cfg, mat, vec>>

\* AMG_Solver::resetup.
Resetup(s, m) ==
  /\ Called(m)
  /\ BeginSetup(s, m, TRUE)
  /\ calls' = calls + 1
  /\ UNCHANGED <<cfg, vec>>

Refused == ~mat[call.m].initialized \/ (call.reuse /\ Me.A # call.m)

\* Mutant: the solver is attached to the matrix before it refuses it.
RefuseSetupAttached ==
  /\ At("check") /\ Refused
  /\ slv' = [slv EXCEPT ![call.s].kept = TRUE, ![call.s].A = call.m]
  /\ Return("error")
  /\ UNCHANGED <<cfg, mat, vec, calls>>

\* Solver::setup throws for a matrix without values, and for the reuse of the
\* structure of another matrix than the one the solver has.
RefuseSetup ==
  /\ At("check") /\ Refused
  /\ slv' = [slv EXCEPT ![call.s].kept = TRUE]
  /\ Return("error")
  /\ UNCHANGED <<cfg, mat, vec, calls>>

\* Matrix::setupMatrix colors and permutes; an exception leaves the matrix
\* without values, for every solver.
SetupMatrix ==
  /\ At("check") /\ ~Refused
  /\ \/ /\ mat' = [mat EXCEPT ![call.m].setup = TRUE]
        /\ call' = [call EXCEPT !.at = "scale"]
        /\ UNCHANGED slv
     \/ /\ mat' = [mat EXCEPT ![call.m].initialized = FALSE]
        /\ slv' = [slv EXCEPT ![call.s].kept = TRUE]
        /\ Return("error")
  /\ UNCHANGED <<cfg, vec, calls>>

\* set_A, then the factors of the scaler and the first scaling.
ScaleForSetup ==
  /\ At("scale")
  /\ \/ /\ slv' = [slv EXCEPT ![call.s].A = call.m,
                     ![call.s].scaler = IF cfg.scaling THEN <<call.m, calls>> ELSE @]
        /\ mat' = IF cfg.scaling THEN [mat EXCEPT ![call.m].scaled = @ + 1] ELSE mat
        /\ call' = [call EXCEPT !.at = "build"]
     \/ /\ cfg.scaling
        /\ slv' = [slv EXCEPT ![call.s].A = call.m, ![call.s].scaler = <<Broken, 0>>,
                              ![call.s].torn = TRUE, ![call.s].kept = FALSE]
        /\ Return("error")
        /\ UNCHANGED mat
  /\ UNCHANGED <<cfg, vec, calls>>

\* solver_setup on the scaled matrix, which is unscaled unless this throws.
SolverSetup ==
  /\ At("build")
  /\ \/ /\ slv' = [slv EXCEPT ![call.s].built = <<call.m, calls>>]
        /\ mat' = IF cfg.scaling THEN [mat EXCEPT ![call.m].scaled = @ - 1] ELSE mat
        /\ call' = [call EXCEPT !.at = "residual"]
     \/ /\ slv' = [slv EXCEPT ![call.s].built = <<Broken, 0>>,
                              ![call.s].torn = TRUE, ![call.s].kept = FALSE]
        /\ Return("error")
        /\ UNCHANGED mat
  /\ UNCHANGED <<cfg, vec, calls>>

\* The residual vector is allocated and the solver is set up; isSetup is
\* never reset, whatever a later setup does.
EndSetup ==
  /\ At("residual")
  /\ \/ /\ slv' = [slv EXCEPT ![call.s].isSetup = TRUE,
                              ![call.s].torn = FALSE, ![call.s].kept = FALSE]
        /\ Return("ok")
     \/ /\ slv' = [slv EXCEPT ![call.s].torn = TRUE, ![call.s].kept = FALSE]
        /\ Return("error")
  /\ UNCHANGED <<cfg, mat, vec, calls>>

-----------------------------------------------------------------------------
\* solve.

\* Solver::solve up to the scaling.  Solver::solve_no_throw looks into the
\* matrix first, which is undefined when it is gone: the process may die.
Solve(s) ==
  /\ Idle /\ calls < MaxCalls
  /\ calls' = calls + 1
  /\ \/ /\ Dangling(s)
        /\ call' = [NewCall("solve", s, slv[s].A, "crashed", FALSE) EXCEPT !.rc = "none"]
        /\ UNCHANGED <<mat, vec>>
     \/ /\ slv[s].A = None
        /\ call' = [call EXCEPT !.op = "solve", !.s = s, !.m = None, !.rc = "error"]
        /\ UNCHANGED <<mat, vec>>
     \/ /\ slv[s].A # None /\ ~Dangling(s) \* not set up, or b of another block size
        /\ call' = [NewCall("solve", s, slv[s].A, "idle", FALSE) EXCEPT !.rc = "error"]
        /\ UNCHANGED <<mat, vec>>
     \/ /\ slv[s].A # None /\ ~Dangling(s) /\ slv[s].isSetup
        /\ call' = NewCall("solve", s, slv[s].A, "start", FALSE)
        /\ IF cfg.scaling
           THEN /\ mat' = [mat EXCEPT ![slv[s].A].scaled = @ + 1]
                /\ vec' = [b |-> vec.b + 1, x |-> vec.x - 1]
           ELSE UNCHANGED <<mat, vec>>
  /\ UNCHANGED <<cfg, slv>>

\* The initial residual, entry 0 of the history.  Without iterations the call
\* returns here.
StartSolve ==
  /\ At("start")
  /\ slv' = [slv EXCEPT ![call.s].history[0] = calls,
                        ![call.s].status = IF cfg.maxIters = 0 THEN calls ELSE @]
  /\ IF cfg.maxIters = 0 THEN Return("ok")
     ELSE \E converged \in BOOLEAN :
            call' = [call EXCEPT !.at = "iterate", !.done = converged]
  /\ UNCHANGED <<cfg, mat, vec, calls>>

Iterating == At("iterate") /\ ~call.done /\ call.iters < cfg.maxIters

\* Mutant: the residual overwrites that of the iteration before.
IterateMisplaced ==
  /\ Iterating
  /\ \E done \in BOOLEAN :
       call' = [call EXCEPT !.iters = @ + 1, !.done = done]
  /\ slv' = [slv EXCEPT ![call.s].history[call.iters] = calls]
  /\ UNCHANGED <<cfg, mat, vec, calls>>

\* One iteration of the loop; converged and diverged both end it.
Iterate ==
  /\ Iterating
  /\ \E done \in BOOLEAN :
       call' = [call EXCEPT !.iters = @ + 1, !.done = done]
  /\ slv' = [slv EXCEPT ![call.s].history[call.iters + 1] = calls]
  /\ UNCHANGED <<cfg, mat, vec, calls>>

\* Anything from the initial residual to solve_finalize throws: nothing is
\* unscaled.  numIters is already set when it is solve_finalize that throws.
SolveThrows ==
  /\ At("start") \/ At("iterate")
  /\ \/ UNCHANGED slv
     \/ /\ At("iterate") /\ ~Iterating /\ call.iters > 0
        /\ slv' = [slv EXCEPT ![call.s].numIters = call.iters]
  /\ Return("error")
  /\ UNCHANGED <<cfg, mat, vec, calls>>

\* Mutant: a solve that had nothing to do skips the end.
EndSolveEarly ==
  /\ At("iterate") /\ ~Iterating
  /\ slv' = [slv EXCEPT ![call.s].numIters = call.iters, ![call.s].status = calls]
  /\ IF cfg.scaling /\ call.iters > 0
     THEN /\ mat' = [mat EXCEPT ![Me.A].scaled = @ - 1]
          /\ vec' = [b |-> vec.b - 1, x |-> vec.x + 1]
     ELSE UNCHANGED <<mat, vec>>
  /\ Return("ok")
  /\ UNCHANGED <<cfg, calls>>

\* The end of Solver::solve: b and A are unscaled and x is scaled back.
EndSolve ==
  /\ At("iterate") /\ ~Iterating
  /\ slv' = [slv EXCEPT ![call.s].numIters = call.iters, ![call.s].status = calls]
  /\ IF cfg.scaling
     THEN /\ mat' = [mat EXCEPT ![Me.A].scaled = @ - 1]
          /\ vec' = [b |-> vec.b - 1, x |-> vec.x + 1]
     ELSE UNCHANGED <<mat, vec>>
  /\ Return("ok")
  /\ UNCHANGED <<cfg, calls>>

-----------------------------------------------------------------------------

UserCalls ==
  \/ \E m \in Matrices : Upload(m) \/ ReplaceCoefficients(m) \/ DestroyMatrix(m)
  \/ UploadVectors
  \/ \E s \in Solvers, m \in Matrices : Setup(s, m) \/ SkipSetup(s, m) \/ Resetup(s, m)
  \/ \E s \in Solvers : Solve(s)

Next ==
  \/ UserCalls
  \/ RefuseSetup \/ SetupMatrix \/ ScaleForSetup \/ SolverSetup \/ EndSetup
  \/ StartSolve \/ Iterate \/ SolveThrows \/ EndSolve

Spec == Init /\ [][Next]_vars

-----------------------------------------------------------------------------

Steps == {"idle", "check", "scale", "build", "residual", "start", "iterate", "crashed"}
Origins == (Matrices \union {None, Broken}) \X (0..MaxCalls)

MatrixState == [handle : BOOLEAN, initialized : BOOLEAN, setup : BOOLEAN, scaled : Int]
SolverState ==
  [A : Matrices \union {None}, ptrA : Matrices \union {None}, isSetup : BOOLEAN,
   built : Origins, scaler : Origins, numIters : 0..cfg.maxIters,
   history : [0..cfg.maxIters -> 0..MaxCalls], status : 0..MaxCalls,
   torn : BOOLEAN, kept : BOOLEAN]
CallState ==
  [at : Steps, op : {"none", "setup", "solve"}, s : Solvers \union {None},
   m : Matrices \union {None}, reuse : BOOLEAN, iters : 0..cfg.maxIters,
   done : BOOLEAN, entry : Int \X Int \X Int, rc : {"none", "ok", "error"}]

\* The type of the state, with the iteration counter within max_iters.
LifecycleTypeOK ==
  /\ cfg \in Configs
  /\ mat \in [Matrices -> MatrixState]
  /\ slv \in [Solvers -> SolverState]
  /\ vec \in [b : Int, x : Int]
  /\ call \in CallState
  /\ calls \in 0..MaxCalls

\* A call that succeeds leaves matrix, b and x as often scaled as it found
\* them, the comment in Solver::setup "Scale initial solution, unscale matrix
\* and rhs".  The exception is a solve with max_iters 0, which returns first.
ScalingUndone ==
  [][ /\ ~Idle
      /\ call'.at = "idle" /\ call'.rc = "ok"
      /\ ~(call.op = "solve" /\ cfg.maxIters = 0)
      => <<mat'[call.m].scaled, vec'.b, vec'.x>> = call.entry ]_vars

\* Solver::solve iterates on a matrix scaled once more than the user left it,
\* with the factors and the hierarchy that one setup made for this matrix.
\* The exception is a solver whose last setup threw after set_A: isSetup
\* stays on and solve runs on what was left.
SolvesItsSetup ==
  At("iterate") /\ ~Me.torn =>
    /\ call.m = Me.A /\ Me.built[1] = Me.A
    /\ cfg.scaling => /\ Me.scaler = Me.built
                      /\ mat[Me.A].scaled = call.entry[1] + 1

\* What the API reports after a solve that succeeded (number of iterations,
\* the residual of each, status) is of that solve and of no earlier one.
ResultsOfOneSolve ==
  Idle /\ call.op = "solve" /\ call.rc = "ok" /\ cfg.maxIters > 0 =>
    /\ Me.status = calls
    /\ \A i \in 0..Me.numIters : Me.history[i] = calls

\* m_ptrA keeps the matrix alive that the solver has a plain pointer to: the
\* user may destroy the handle and solve.  The exception is a solver whose
\* last setup was refused or skipped: m_ptrA has changed then, m_A has not.
UsesLiveMatrix == At("crashed") => Me.kept
=============================================================================
