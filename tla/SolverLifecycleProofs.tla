------------------------ MODULE SolverLifecycleProofs ------------------------
(***************************************************************************)
(* The properties of SolverLifecycle for any number of solvers, matrices   *)
(* and calls.  They all follow from one inductive invariant, which says    *)
(* what each step of a call has already done to solver, matrix and         *)
(* vectors, and which solvers have what they need between the calls.       *)
(***************************************************************************)
EXTENDS SolverLifecycle, TLAPS

SettingUp == {"check", "scale", "build", "residual"}
Attached == {"build", "residual", "start", "iterate"}
Solving == {"start", "iterate"}

\* What holds of the solver and the matrix of the call in progress.
CallInv ==
  /\ call.at # "idle" => call.s \in Solvers /\ call.m \in Matrices
  /\ call.at \in SettingUp => call.op = "setup" /\ Me.ptrA = call.m
  /\ call.at \in Attached => Me.A = call.m
  /\ call.at \in Solving => call.op = "solve" /\ Me.isSetup
  /\ call.at \in {"build", "residual"} /\ cfg.scaling => Me.scaler = <<call.m, calls>>
  /\ call.at = "residual" => Me.built = <<call.m, calls>>
  /\ call.at = "start" => call.iters = 0
  /\ call.at = "crashed" => Me.kept

\* A solver is an owner of its matrix unless its last setup was refused or
\* skipped, or has not reached set_A yet.
OwnedBy(s) ==
  \/ slv[s].kept
  \/ slv[s].A \in {None, slv[s].ptrA}
  \/ call.at \in {"check", "scale"} /\ call.s = s

\* A solver has the hierarchy and the factors of one setup of its matrix,
\* unless a setup of it threw or is at work.
WholeBy(s) ==
  \/ slv[s].torn \/ ~slv[s].isSetup
  \/ call.at \in {"build", "residual"} /\ call.s = s
  \/ slv[s].built[1] = slv[s].A /\ (cfg.scaling => slv[s].scaler = slv[s].built)

\* How often matrix, b and x are scaled at each step of a call.
Balance ==
  call.at \in SettingUp \union Solving =>
    LET once(steps) == IF cfg.scaling /\ call.at \in steps THEN 1 ELSE 0
    IN  /\ mat[call.m].scaled = call.entry[1] + once({"build"} \union Solving)
        /\ vec.b = call.entry[2] + once(Solving)
        /\ vec.x = call.entry[3] - once(Solving)

\* The entries of the history written so far are of this call.
Fresh == At("iterate") => \A i \in 0..call.iters : Me.history[i] = calls

IInv ==
  /\ LifecycleTypeOK
  /\ CallInv
  /\ \A s \in Solvers : OwnedBy(s) /\ WholeBy(s)
  /\ Balance
  /\ Fresh
  /\ ResultsOfOneSolve

-----------------------------------------------------------------------------
\* Types of records, one field at a time.

LEMMA ConfigTyped ==
  ASSUME cfg \in Configs
  PROVE  cfg.scaling \in BOOLEAN /\ cfg.maxIters \in Nat /\ MaxCalls \in Nat
  BY LifecycleAssumption DEF ConfigType

LEMMA SameTypes ==
  ASSUME cfg' = cfg
  PROVE  SolverState' = SolverState /\ CallState' = CallState
  BY DEF SolverState, CallState

LEMMA SolverFields ==
  ASSUME NEW r \in SolverState
  PROVE  /\ r.A \in Matrices \union {None}
         /\ r.ptrA \in Matrices \union {None}
         /\ r.isSetup \in BOOLEAN /\ r.torn \in BOOLEAN /\ r.kept \in BOOLEAN
         /\ r.numIters \in 0..cfg.maxIters
         /\ r.history \in [0..cfg.maxIters -> 0..MaxCalls]
         /\ r.status \in 0..MaxCalls
         /\ r.built \in Origins /\ r.scaler \in Origins
  BY DEF SolverState

LEMMA SolverUpdates ==
  ASSUME NEW r \in SolverState
  PROVE  /\ \A v \in Matrices \union {None} : [r EXCEPT !.A = v] \in SolverState
         /\ \A v \in Matrices \union {None} : [r EXCEPT !.ptrA = v] \in SolverState
         /\ \A v \in BOOLEAN : [r EXCEPT !.isSetup = v] \in SolverState
         /\ \A v \in BOOLEAN : [r EXCEPT !.torn = v] \in SolverState
         /\ \A v \in BOOLEAN : [r EXCEPT !.kept = v] \in SolverState
         /\ \A v \in Origins : [r EXCEPT !.built = v] \in SolverState
         /\ \A v \in Origins : [r EXCEPT !.scaler = v] \in SolverState
         /\ \A v \in 0..cfg.maxIters : [r EXCEPT !.numIters = v] \in SolverState
         /\ \A v \in 0..MaxCalls : [r EXCEPT !.status = v] \in SolverState
         /\ \A i \in 0..cfg.maxIters, v \in 0..MaxCalls :
              [r EXCEPT !.history[i] = v] \in SolverState
<1>1. \A v \in Matrices \union {None} : [r EXCEPT !.A = v] \in SolverState
  BY DEF SolverState
<1>2. \A v \in Matrices \union {None} : [r EXCEPT !.ptrA = v] \in SolverState
  BY DEF SolverState
<1>3. \A v \in BOOLEAN : [r EXCEPT !.isSetup = v] \in SolverState
  BY DEF SolverState
<1>4. \A v \in BOOLEAN : [r EXCEPT !.torn = v] \in SolverState
  BY DEF SolverState
<1>5. \A v \in BOOLEAN : [r EXCEPT !.kept = v] \in SolverState
  BY DEF SolverState
<1>6. \A v \in Origins : [r EXCEPT !.built = v] \in SolverState
  BY DEF SolverState
<1>7. \A v \in Origins : [r EXCEPT !.scaler = v] \in SolverState
  BY DEF SolverState
<1>8. \A v \in 0..cfg.maxIters : [r EXCEPT !.numIters = v] \in SolverState
  BY DEF SolverState
<1>9. \A v \in 0..MaxCalls : [r EXCEPT !.status = v] \in SolverState
  BY DEF SolverState
<1>10. \A i \in 0..cfg.maxIters, v \in 0..MaxCalls :
         [r EXCEPT !.history[i] = v] \in SolverState
  BY DEF SolverState
<1> QED
  BY <1>1, <1>2, <1>3, <1>4, <1>5, <1>6, <1>7, <1>8, <1>9, <1>10

LEMMA MatrixUpdates ==
  ASSUME NEW r \in MatrixState
  PROVE  /\ \A v \in BOOLEAN : [r EXCEPT !.handle = v] \in MatrixState
         /\ \A v \in BOOLEAN : [r EXCEPT !.initialized = v] \in MatrixState
         /\ \A v \in BOOLEAN : [r EXCEPT !.setup = v] \in MatrixState
         /\ \A v \in Int : [r EXCEPT !.scaled = v] \in MatrixState
  BY DEF MatrixState

LEMMA CallFields ==
  ASSUME NEW c \in CallState
  PROVE  /\ c.at \in Steps
         /\ c.s \in Solvers \union {None} /\ c.m \in Matrices \union {None}
         /\ c.reuse \in BOOLEAN /\ c.done \in BOOLEAN
         /\ c.iters \in 0..cfg.maxIters
         /\ c.entry \in Int \X Int \X Int
  BY DEF CallState

\* Of a call, what Return and NewCall make.
LEMMA ReturnTyped ==
  ASSUME cfg \in Configs, call \in CallState, NEW rc \in {"ok", "error"}, Return(rc)
  PROVE  /\ call' \in CallState
         /\ call'.at = "idle" /\ call'.rc = rc
         /\ call'.op = call.op /\ call'.s = call.s /\ call'.m = call.m
<1>1. \A c \in CallState :
        /\ [c EXCEPT !.at = "idle"] \in CallState
        /\ [c EXCEPT !.rc = rc] \in CallState
        /\ [c EXCEPT !.done = FALSE] \in CallState
        /\ [c EXCEPT !.reuse = FALSE] \in CallState
  BY DEF CallState, Steps
<1>2. \A c \in CallState : [c EXCEPT !.iters = 0] \in CallState
  BY ConfigTyped DEF CallState
<1>3. call' \in CallState
  BY <1>1, <1>2 DEF Return
<1> QED
  BY <1>3 DEF Return, CallState

LEMMA NewCallTyped ==
  ASSUME LifecycleTypeOK, NEW op \in {"setup", "solve"}, NEW s \in Solvers,
         NEW m \in Matrices, NEW at \in Steps, NEW reuse \in BOOLEAN
  PROVE  NewCall(op, s, m, at, reuse) \in CallState
<1>1. Scales(m) \in Int \X Int \X Int
  BY DEF Scales, LifecycleTypeOK, MatrixState
<1> QED
  BY <1>1, ConfigTyped DEF NewCall, CallState, LifecycleTypeOK

-----------------------------------------------------------------------------
\* The user's calls.

LEMMA BetweenCallsKeeps ==
  ASSUME IInv, Idle, LifecycleTypeOK', UNCHANGED <<cfg, slv, call, calls>>
  PROVE  IInv'
<1>1. CallInv'
  BY DEF IInv, CallInv, Me
<1>2. \A s \in Solvers : OwnedBy(s)' /\ WholeBy(s)'
  BY DEF IInv, OwnedBy, WholeBy
<1>3. Balance' /\ Fresh'
  BY DEF Idle, Balance, Fresh, At, SettingUp, Solving
<1>4. ResultsOfOneSolve'
  BY DEF IInv, ResultsOfOneSolve, Idle, Me
<1> QED
  BY <1>1, <1>2, <1>3, <1>4 DEF IInv

LEMMA UploadKeeps ==
  ASSUME IInv, NEW m \in Matrices, Upload(m) \/ ReplaceCoefficients(m) \/ DestroyMatrix(m)
  PROVE  IInv'
<1>1. mat' \in [Matrices -> MatrixState]
  <2>1. mat \in [Matrices -> MatrixState]
    BY DEF IInv, LifecycleTypeOK
  <2>2. CASE Upload(m)
    <3>1. PICK v \in BOOLEAN : mat' = [mat EXCEPT ![m] = [@ EXCEPT !.initialized = v, !.scaled = 0]]
      BY <2>2 DEF Upload
    <3> DEFINE r == [mat[m] EXCEPT !.initialized = v]
    <3>2. r \in MatrixState
      BY <2>1, MatrixUpdates
    <3>3. mat' = [mat EXCEPT ![m] = [r EXCEPT !.scaled = 0]]
      BY <3>1
    <3> HIDE DEF r
    <3>4. [r EXCEPT !.scaled = 0] \in MatrixState
      BY <3>2, MatrixUpdates
    <3> QED
      BY <2>1, <3>3, <3>4
  <2>3. CASE ReplaceCoefficients(m)
    <3>1. [mat[m] EXCEPT !.scaled = 0] \in MatrixState
      BY <2>1, MatrixUpdates
    <3> QED
      BY <2>1, <2>3, <3>1 DEF ReplaceCoefficients
  <2>4. CASE DestroyMatrix(m)
    <3>1. [mat[m] EXCEPT !.handle = FALSE] \in MatrixState
      BY <2>1, MatrixUpdates
    <3> QED
      BY <2>1, <2>4, <3>1 DEF DestroyMatrix
  <2> QED
    BY <2>2, <2>3, <2>4
<1>2. Idle /\ UNCHANGED <<cfg, slv, vec, call, calls>>
  BY DEF Upload, ReplaceCoefficients, DestroyMatrix
<1>3. LifecycleTypeOK'
  BY <1>1, <1>2, SameTypes DEF IInv, LifecycleTypeOK
<1> QED
  BY <1>2, <1>3, BetweenCallsKeeps

LEMMA UploadVectorsKeeps ==
  ASSUME IInv, UploadVectors
  PROVE  IInv'
<1>1. LifecycleTypeOK'
  BY SameTypes DEF IInv, LifecycleTypeOK, UploadVectors
<1> QED
  BY <1>1, BetweenCallsKeeps DEF UploadVectors

LEMMA BeginSetupKeeps ==
  ASSUME IInv, Idle, calls < MaxCalls, calls' = calls + 1, UNCHANGED <<cfg, vec>>,
         NEW s \in Solvers, NEW m \in Matrices, NEW reuse \in BOOLEAN,
         BeginSetup(s, m, reuse)
  PROVE  IInv'
<1>1. LifecycleTypeOK
  BY DEF IInv
<1>2. slv' = [slv EXCEPT ![s] = [@ EXCEPT !.ptrA = m]]
  BY DEF BeginSetup
<1>3. LifecycleTypeOK'
  <2>1. slv' \in [Solvers -> SolverState]
    BY <1>1, <1>2, SolverUpdates DEF LifecycleTypeOK
  <2>2. call' \in CallState
    BY <1>1, NewCallTyped DEF BeginSetup, Steps
  <2>3. mat' \in [Matrices -> MatrixState]
    BY <1>1 DEF LifecycleTypeOK, MatrixState, BeginSetup
  <2>4. calls' \in 0..MaxCalls
    BY <1>1, LifecycleAssumption DEF LifecycleTypeOK
  <2> QED
    BY <1>1, <2>1, <2>2, <2>3, <2>4, SameTypes DEF LifecycleTypeOK
<1>4. /\ call'.at = "check" /\ call'.op = "setup" /\ call'.s = s /\ call'.m = m
      /\ call'.entry = Scales(m)
  BY DEF BeginSetup, NewCall
<1>5. /\ slv'[s].ptrA = m
      /\ \A t \in Solvers :
           /\ t # s => slv'[t] = slv[t]
           /\ slv'[t].A = slv[t].A /\ slv'[t].built = slv[t].built
           /\ slv'[t].scaler = slv[t].scaler /\ slv'[t].isSetup = slv[t].isSetup
           /\ slv'[t].torn = slv[t].torn
  BY <1>1, <1>2 DEF LifecycleTypeOK, SolverState
<1>6. CallInv'
  BY <1>4, <1>5 DEF CallInv, SettingUp, Attached, Solving, Me
<1>7. \A t \in Solvers : OwnedBy(t)' /\ WholeBy(t)'
  BY <1>4, <1>5 DEF IInv, Idle, OwnedBy, WholeBy
<1>8. Balance'
  <2>1. mat'[m].scaled = mat[m].scaled
    BY <1>1 DEF BeginSetup, LifecycleTypeOK, MatrixState
  <2> QED
    BY <1>1, <1>4, <2>1 DEF Balance, SettingUp, Solving, Scales, LifecycleTypeOK, MatrixState
<1>9. Fresh' /\ ResultsOfOneSolve'
  BY <1>4 DEF Fresh, ResultsOfOneSolve, Idle, At
<1> QED
  BY <1>3, <1>6, <1>7, <1>8, <1>9 DEF IInv

LEMMA SetupKeeps ==
  ASSUME IInv, NEW s \in Solvers, NEW m \in Matrices, Setup(s, m) \/ Resetup(s, m)
  PROVE  IInv'
<1>1. mat[m].setup \in BOOLEAN
  BY DEF IInv, LifecycleTypeOK, MatrixState
<1> QED
  BY <1>1, BeginSetupKeeps DEF Setup, Resetup, Called

LEMMA SkipSetupKeeps ==
  ASSUME IInv, NEW s \in Solvers, NEW m \in Matrices, SkipSetup(s, m)
  PROVE  IInv'
<1>1. LifecycleTypeOK /\ calls < MaxCalls /\ Idle
  BY DEF IInv, SkipSetup, Called
<1>2. slv' = [slv EXCEPT ![s] = [@ EXCEPT !.ptrA = m, !.kept = TRUE]]
  BY DEF SkipSetup
<1>3. LifecycleTypeOK'
  <2>1. slv' \in [Solvers -> SolverState]
    BY <1>1, <1>2, SolverUpdates DEF LifecycleTypeOK
  <2>2. call' \in CallState
    <3>1. NewCall("setup", s, m, "idle", FALSE) \in CallState
      BY <1>1, NewCallTyped DEF Steps
    <3> QED
      BY <3>1 DEF SkipSetup, CallState
  <2>3. calls' \in 0..MaxCalls
    BY <1>1, LifecycleAssumption DEF LifecycleTypeOK, SkipSetup
  <2> QED
    BY <1>1, <2>1, <2>2, <2>3, SameTypes DEF LifecycleTypeOK, SkipSetup
<1>4. call'.at = "idle" /\ call'.op = "setup" /\ call'.s = s /\ call'.m = m
  BY DEF SkipSetup, NewCall
<1>5. /\ slv'[s].kept
      /\ \A t \in Solvers :
           /\ t # s => slv'[t] = slv[t]
           /\ slv'[t].A = slv[t].A /\ slv'[t].built = slv[t].built
           /\ slv'[t].scaler = slv[t].scaler /\ slv'[t].isSetup = slv[t].isSetup
           /\ slv'[t].torn = slv[t].torn
  BY <1>1, <1>2 DEF LifecycleTypeOK, SolverState
<1>6. CallInv' /\ Balance'
  BY <1>4 DEF CallInv, Balance, SettingUp, Attached, Solving
<1>7. Fresh' /\ ResultsOfOneSolve'
  BY <1>4 DEF Fresh, ResultsOfOneSolve, Idle, At
<1>8. \A t \in Solvers : OwnedBy(t)' /\ WholeBy(t)'
  <2>1. call.at = "idle" /\ cfg' = cfg /\ \A t \in Solvers : OwnedBy(t) /\ WholeBy(t)
    BY <1>1 DEF SkipSetup, Idle, IInv
  <2> QED
    BY <1>5, <2>1 DEF OwnedBy, WholeBy
<1> QED
  BY <1>3, <1>6, <1>7, <1>8 DEF IInv

-----------------------------------------------------------------------------
\* The steps of a call.

LEMMA Working ==
  ASSUME IInv, ~Idle
  PROVE  /\ LifecycleTypeOK /\ cfg \in Configs /\ call \in CallState
         /\ call.s \in Solvers /\ call.m \in Matrices
         /\ Me \in SolverState /\ mat[call.m] \in MatrixState
         /\ \A t \in Solvers : OwnedBy(t) /\ WholeBy(t)
         /\ call.entry[1] \in Int /\ call.entry[2] \in Int /\ call.entry[3] \in Int
<1>1. LifecycleTypeOK /\ call.s \in Solvers /\ call.m \in Matrices
  BY DEF IInv, CallInv, Idle
<1>2. call.entry \in Int \X Int \X Int
  BY <1>1, CallFields DEF LifecycleTypeOK
<1> QED
  BY <1>1, <1>2 DEF IInv, LifecycleTypeOK, Me

\* A step that ends the call preserves the invariant if it leaves its solver
\* owned and whole, with the results of the call.
LEMMA ReturnKeeps ==
  ASSUME IInv, ~Idle, NEW rc \in {"ok", "error"}, Return(rc),
         LifecycleTypeOK', cfg' = cfg, calls' = calls,
         \A t \in Solvers : t # call.s => slv'[t] = slv[t],
         NEW r, r = slv'[call.s],
         r.kept \/ r.A \in {None, r.ptrA},
         r.torn \/ ~r.isSetup \/ (r.built[1] = r.A /\ (cfg.scaling => r.scaler = r.built)),
         rc = "ok" /\ call.op = "solve" /\ cfg.maxIters > 0 =>
           r.status = calls /\ \A i \in 0..r.numIters : r.history[i] = calls
  PROVE  IInv'
<1>1. /\ call'.at = "idle" /\ call'.rc = rc
      /\ call'.op = call.op /\ call'.s = call.s
  BY Working, ReturnTyped
<1>2. CallInv' /\ Balance'
  BY <1>1 DEF CallInv, Balance, SettingUp, Attached, Solving
<1>3. Fresh'
  BY <1>1 DEF Fresh, At
<1>4. ResultsOfOneSolve'
  BY <1>1 DEF ResultsOfOneSolve, Idle, Me
<1>5. \A t \in Solvers : OwnedBy(t)' /\ WholeBy(t)'
  <2> SUFFICES ASSUME NEW t \in Solvers PROVE OwnedBy(t)' /\ WholeBy(t)'
    OBVIOUS
  <2>1. CASE t = call.s
    BY <2>1 DEF OwnedBy, WholeBy
  <2>2. CASE t # call.s
    <3>1. OwnedBy(t) /\ WholeBy(t) /\ slv'[t] = slv[t]
      BY <2>2, Working
    <3> QED
      BY <2>2, <3>1 DEF OwnedBy, WholeBy
  <2> QED
    BY <2>1, <2>2
<1> QED
  BY <1>2, <1>3, <1>4, <1>5 DEF IInv

LEMMA RefuseSetupKeeps ==
  ASSUME IInv, RefuseSetup
  PROVE  IInv'
<1>1. ~Idle /\ Return("error") /\ UNCHANGED <<cfg, mat, vec, calls>> /\ call.at = "check"
  BY DEF RefuseSetup, At, Idle
<1>2. slv' = [slv EXCEPT ![call.s] = [@ EXCEPT !.kept = TRUE]]
  BY DEF RefuseSetup
<1>3. LifecycleTypeOK'
  BY <1>1, <1>2, Working, SolverUpdates, ReturnTyped, SameTypes DEF LifecycleTypeOK, Me
<1>4. /\ slv'[call.s] = [Me EXCEPT !.kept = TRUE]
      /\ \A t \in Solvers : t # call.s => slv'[t] = slv[t]
  BY <1>1, <1>2, Working DEF LifecycleTypeOK, Me
<1>5. /\ slv'[call.s].kept /\ slv'[call.s].torn = Me.torn /\ slv'[call.s].isSetup = Me.isSetup
      /\ slv'[call.s].A = Me.A /\ slv'[call.s].built = Me.built /\ slv'[call.s].scaler = Me.scaler
  BY <1>1, <1>4, Working DEF SolverState
<1>6. Me.torn \/ ~Me.isSetup \/ (Me.built[1] = Me.A /\ (cfg.scaling => Me.scaler = Me.built))
  BY <1>1, Working DEF WholeBy, Me
<1> QED
  BY <1>1, <1>3, <1>4, <1>5, <1>6, ReturnKeeps

\* A step that does not end the call concerns its own solver only.
LEMMA AdvanceKeeps ==
  ASSUME IInv, ~Idle, LifecycleTypeOK', cfg' = cfg, call'.s = call.s, call'.at # "idle",
         \A t \in Solvers : t # call.s => slv'[t] = slv[t],
         CallInv', Balance', Fresh', OwnedBy(call.s)', WholeBy(call.s)'
  PROVE  IInv'
<1>1. ResultsOfOneSolve'
  BY DEF ResultsOfOneSolve, Idle
<1>2. \A t \in Solvers : OwnedBy(t)' /\ WholeBy(t)'
  <2> SUFFICES ASSUME NEW t \in Solvers, t # call.s PROVE OwnedBy(t)' /\ WholeBy(t)'
    OBVIOUS
  <2>1. OwnedBy(t) /\ WholeBy(t) /\ slv'[t] = slv[t]
    BY Working
  <2> QED
    BY <2>1 DEF OwnedBy, WholeBy
<1> QED
  BY <1>1, <1>2 DEF IInv

LEMMA SetupMatrixKeeps ==
  ASSUME IInv, SetupMatrix
  PROVE  IInv'
<1>1. ~Idle /\ call.at = "check" /\ UNCHANGED <<cfg, vec, calls>>
  BY DEF SetupMatrix, At, Idle
<1>2. CASE /\ mat' = [mat EXCEPT ![call.m].setup = TRUE]
           /\ call' = [call EXCEPT !.at = "scale"]
           /\ UNCHANGED slv
  <2>1. LifecycleTypeOK'
    <3>1. [mat[call.m] EXCEPT !.setup = TRUE] \in MatrixState
      BY <1>1, Working, MatrixUpdates
    <3>2. mat' \in [Matrices -> MatrixState]
      BY <1>1, <1>2, <3>1, Working DEF LifecycleTypeOK
    <3>3. call' \in CallState
      BY <1>1, <1>2, Working DEF CallState, Steps
    <3> QED
      BY <1>1, <1>2, <3>2, <3>3, Working, SameTypes DEF LifecycleTypeOK
  <2>2. /\ call'.at = "scale" /\ call'.op = call.op /\ call'.s = call.s /\ call'.m = call.m
        /\ call'.entry = call.entry
    BY <1>1, <1>2, Working DEF CallState
  <2>3. mat'[call.m].scaled = mat[call.m].scaled
    BY <1>1, <1>2, Working DEF LifecycleTypeOK, MatrixState
  <2>4. CallInv'
    BY <1>1, <1>2, <2>2 DEF IInv, CallInv, SettingUp, Attached, Solving, Me
  <2>5. Balance'
    BY <1>1, <2>2, <2>3 DEF IInv, Balance, SettingUp, Solving
  <2>6. Fresh' /\ OwnedBy(call.s)' /\ WholeBy(call.s)'
    <3>1. OwnedBy(call.s) /\ WholeBy(call.s)
      BY <1>1, Working
    <3> QED
      BY <1>1, <1>2, <2>2, <3>1 DEF Fresh, At, OwnedBy, WholeBy
  <2> QED
    BY <1>1, <1>2, <2>1, <2>2, <2>4, <2>5, <2>6, AdvanceKeeps
<1>3. CASE /\ mat' = [mat EXCEPT ![call.m].initialized = FALSE]
           /\ slv' = [slv EXCEPT ![call.s].kept = TRUE]
           /\ Return("error")
  <2>1. LifecycleTypeOK'
    <3>1. mat' \in [Matrices -> MatrixState]
      <4>1. [mat[call.m] EXCEPT !.initialized = FALSE] \in MatrixState
        BY <1>1, Working, MatrixUpdates
      <4> QED
        BY <1>1, <1>3, <4>1, Working DEF LifecycleTypeOK
    <3> QED
      BY <1>1, <1>3, <3>1, Working, SolverUpdates, ReturnTyped, SameTypes DEF LifecycleTypeOK, Me
  <2>2. /\ slv'[call.s] = [Me EXCEPT !.kept = TRUE]
        /\ \A t \in Solvers : t # call.s => slv'[t] = slv[t]
    BY <1>1, <1>3, Working DEF LifecycleTypeOK, Me
  <2>3. /\ slv'[call.s].kept /\ slv'[call.s].torn = Me.torn /\ slv'[call.s].isSetup = Me.isSetup
        /\ slv'[call.s].A = Me.A /\ slv'[call.s].built = Me.built /\ slv'[call.s].scaler = Me.scaler
    BY <1>1, <2>2, Working DEF SolverState
  <2>4. Me.torn \/ ~Me.isSetup \/ (Me.built[1] = Me.A /\ (cfg.scaling => Me.scaler = Me.built))
    BY <1>1, Working DEF WholeBy, Me
  <2> QED
    BY <1>1, <1>3, <2>1, <2>2, <2>3, <2>4, ReturnKeeps
<1> QED
  BY <1>2, <1>3 DEF SetupMatrix

LEMMA Rescaled ==
  ASSUME LifecycleTypeOK, NEW m \in Matrices, NEW n \in Int,
         mat' = [mat EXCEPT ![m].scaled = n]
  PROVE  mat' \in [Matrices -> MatrixState] /\ mat'[m].scaled = n
<1>1. mat[m] \in MatrixState /\ mat \in [Matrices -> MatrixState]
  BY DEF LifecycleTypeOK
<1>2. [mat[m] EXCEPT !.scaled = n] \in MatrixState
  BY <1>1, MatrixUpdates
<1> QED
  BY <1>1, <1>2 DEF MatrixState

LEMMA ScaleForSetupKeeps ==
  ASSUME IInv, ScaleForSetup
  PROVE  IInv'
<1>1. ~Idle /\ call.at = "scale" /\ UNCHANGED <<cfg, vec, calls>>
  BY DEF ScaleForSetup, At, Idle
<1>0. /\ <<call.m, calls>> \in Origins /\ <<Broken, 0>> \in Origins
      /\ call.op = "setup" /\ Me.ptrA = call.m /\ Me \in SolverState
  BY <1>1, Working, LifecycleAssumption
     DEF LifecycleTypeOK, Origins, IInv, CallInv, SettingUp
<1>2. CASE /\ slv' = [slv EXCEPT ![call.s].A = call.m,
                   ![call.s].scaler = IF cfg.scaling THEN <<call.m, calls>> ELSE @]
           /\ mat' = IF cfg.scaling THEN [mat EXCEPT ![call.m].scaled = @ + 1] ELSE mat
           /\ call' = [call EXCEPT !.at = "build"]
  <2> DEFINE f == IF cfg.scaling THEN <<call.m, calls>> ELSE Me.scaler
             n == IF cfg.scaling THEN mat[call.m].scaled + 1 ELSE mat[call.m].scaled
  <2>1. /\ slv' = [slv EXCEPT ![call.s] = [@ EXCEPT !.A = call.m, !.scaler = f]]
        /\ f \in Origins
    BY <1>0, <1>1, <1>2, Working, SolverFields DEF LifecycleTypeOK, Me
  <2>2. mat' \in [Matrices -> MatrixState] /\ mat'[call.m].scaled = n
    <3>1. mat[call.m].scaled + 1 \in Int
      BY <1>1, Working DEF MatrixState
    <3>2. CASE cfg.scaling
      BY <1>1, <1>2, <3>1, <3>2, Working, Rescaled
    <3>3. CASE ~cfg.scaling
      BY <1>1, <1>2, <3>3, Working DEF LifecycleTypeOK
    <3> QED
      BY <3>2, <3>3
  <2>3. cfg.scaling => f = <<call.m, calls>> /\ n = mat[call.m].scaled + 1
    OBVIOUS
  <2>4. ~cfg.scaling => n = mat[call.m].scaled
    OBVIOUS
  <2> HIDE DEF f, n
  <2>5. /\ slv'[call.s] = [Me EXCEPT !.A = call.m, !.scaler = f]
        /\ \A t \in Solvers : t # call.s => slv'[t] = slv[t]
    BY <1>1, <2>1, Working DEF LifecycleTypeOK, Me
  <2>6. /\ slv'[call.s].A = call.m /\ slv'[call.s].scaler = f /\ slv'[call.s].ptrA = call.m
    BY <1>0, <2>5 DEF SolverState
  <2>7. LifecycleTypeOK'
    <3>1. [Me EXCEPT !.A = call.m, !.scaler = f] \in SolverState
      BY <1>0, <1>1, <2>1, Working, SolverUpdates
    <3>2. slv' \in [Solvers -> SolverState]
      BY <1>1, <2>1, <3>1, Working DEF LifecycleTypeOK, Me
    <3>3. call' \in CallState
      BY <1>1, <1>2, Working DEF CallState, Steps
    <3> QED
      BY <1>1, <2>2, <3>2, <3>3, Working, SameTypes DEF LifecycleTypeOK
  <2>8. /\ call'.at = "build" /\ call'.op = call.op /\ call'.s = call.s /\ call'.m = call.m
        /\ call'.entry = call.entry
    BY <1>1, <1>2, Working DEF CallState
  <2>9. CallInv'
    <3>1. call'.s \in Solvers /\ call'.m \in Matrices /\ calls' = calls /\ cfg' = cfg
      BY <1>1, <2>8, Working
    <3> QED
      BY <1>0, <2>3, <2>6, <2>8, <3>1 DEF CallInv, SettingUp, Attached, Solving, Me
  <2>10. Balance'
    <3>1. mat[call.m].scaled = call.entry[1] /\ vec.b = call.entry[2] /\ vec.x = call.entry[3]
      BY <1>1, Working DEF IInv, Balance, SettingUp, Solving, LifecycleTypeOK
    <3>2. call.entry[1] \in Int /\ call.entry[2] \in Int /\ call.entry[3] \in Int
      BY <1>1, Working
    <3> QED
      BY <1>1, <2>2, <2>3, <2>4, <2>8, <3>1, <3>2 DEF Balance, SettingUp, Solving
  <2>11. Fresh' /\ OwnedBy(call.s)' /\ WholeBy(call.s)'
    BY <2>6, <2>8 DEF Fresh, At, OwnedBy, WholeBy
  <2> QED
    BY <1>1, <2>5, <2>7, <2>8, <2>9, <2>10, <2>11, AdvanceKeeps
<1>3. CASE /\ slv' = [slv EXCEPT ![call.s].A = call.m, ![call.s].scaler = <<Broken, 0>>,
                            ![call.s].torn = TRUE, ![call.s].kept = FALSE]
           /\ Return("error")
           /\ UNCHANGED mat
  <2>1. slv' = [slv EXCEPT ![call.s] = [@ EXCEPT !.A = call.m, !.scaler = <<Broken, 0>>,
                                                 !.torn = TRUE, !.kept = FALSE]]
    BY <1>3
  <2>2. /\ slv'[call.s] = [Me EXCEPT !.A = call.m, !.scaler = <<Broken, 0>>, !.torn = TRUE, !.kept = FALSE]
        /\ \A t \in Solvers : t # call.s => slv'[t] = slv[t]
    BY <1>1, <2>1, Working DEF LifecycleTypeOK, Me
  <2>3. slv'[call.s].A = call.m /\ slv'[call.s].ptrA = call.m /\ slv'[call.s].torn
    BY <1>0, <2>2 DEF SolverState
  <2>4. LifecycleTypeOK'
    <3>1. [Me EXCEPT !.A = call.m, !.scaler = <<Broken, 0>>, !.torn = TRUE, !.kept = FALSE] \in SolverState
      BY <1>0, <1>1, Working, SolverUpdates
    <3>2. slv' \in [Solvers -> SolverState]
      BY <1>1, <2>1, <3>1, Working DEF LifecycleTypeOK, Me
    <3> QED
      BY <1>1, <1>3, <3>2, Working, ReturnTyped, SameTypes DEF LifecycleTypeOK
  <2>5. slv'[call.s].A \in {None, slv'[call.s].ptrA}
    BY <2>3
  <2> QED
    BY <1>1, <1>3, <2>2, <2>3, <2>4, <2>5, ReturnKeeps
<1> QED
  BY <1>2, <1>3 DEF ScaleForSetup

LEMMA SolverSetupKeeps ==
  ASSUME IInv, SolverSetup
  PROVE  IInv'
<1>1. ~Idle /\ call.at = "build" /\ UNCHANGED <<cfg, vec, calls>>
  BY DEF SolverSetup, At, Idle
<1>2. /\ <<call.m, calls>> \in Origins /\ <<Broken, 0>> \in Origins
      /\ call.op = "setup" /\ Me.ptrA = call.m /\ Me.A = call.m /\ Me \in SolverState
      /\ cfg.scaling => Me.scaler = <<call.m, calls>>
  BY <1>1, Working, LifecycleAssumption
     DEF LifecycleTypeOK, Origins, IInv, CallInv, SettingUp, Attached
<1>3. CASE /\ slv' = [slv EXCEPT ![call.s].built = <<call.m, calls>>]
           /\ mat' = IF cfg.scaling THEN [mat EXCEPT ![call.m].scaled = @ - 1] ELSE mat
           /\ call' = [call EXCEPT !.at = "residual"]
  <2>1. /\ slv'[call.s] = [Me EXCEPT !.built = <<call.m, calls>>]
        /\ \A t \in Solvers : t # call.s => slv'[t] = slv[t]
    BY <1>1, <1>3, Working DEF LifecycleTypeOK, Me
  <2>2. /\ slv'[call.s].built = <<call.m, calls>> /\ slv'[call.s].scaler = Me.scaler
        /\ slv'[call.s].A = call.m /\ slv'[call.s].ptrA = call.m
    BY <1>2, <2>1 DEF SolverState
  <2>3. /\ mat' \in [Matrices -> MatrixState]
        /\ mat'[call.m].scaled = mat[call.m].scaled - (IF cfg.scaling THEN 1 ELSE 0)
    <3>1. mat[call.m].scaled \in Int /\ mat[call.m].scaled - 1 \in Int
      BY <1>1, Working DEF MatrixState
    <3>2. CASE cfg.scaling
      BY <1>1, <1>3, <3>1, <3>2, Working, Rescaled
    <3>3. CASE ~cfg.scaling
      BY <1>1, <1>3, <3>1, <3>3, Working DEF LifecycleTypeOK
    <3> QED
      BY <3>2, <3>3
  <2>4. LifecycleTypeOK'
    <3>1. slv' \in [Solvers -> SolverState]
      BY <1>1, <1>2, <1>3, Working, SolverUpdates DEF LifecycleTypeOK, Me
    <3>2. call' \in CallState
      BY <1>1, <1>3, Working DEF CallState, Steps
    <3> QED
      BY <1>1, <2>3, <3>1, <3>2, Working, SameTypes DEF LifecycleTypeOK
  <2>5. /\ call'.at = "residual" /\ call'.op = call.op /\ call'.s = call.s /\ call'.m = call.m
        /\ call'.entry = call.entry
    BY <1>1, <1>3, Working DEF CallState
  <2>6. CallInv'
    <3>1. call'.s \in Solvers /\ call'.m \in Matrices /\ calls' = calls /\ cfg' = cfg
      BY <1>1, <2>5, Working
    <3> QED
      BY <1>2, <2>2, <2>5, <3>1 DEF CallInv, SettingUp, Attached, Solving, Me
  <2>7. Balance'
    <3>1. /\ mat[call.m].scaled = call.entry[1] + (IF cfg.scaling THEN 1 ELSE 0)
          /\ vec.b = call.entry[2] /\ vec.x = call.entry[3]
      BY <1>1, Working DEF IInv, Balance, SettingUp, Solving
    <3>2. call.entry[1] \in Int /\ call.entry[2] \in Int /\ call.entry[3] \in Int
      BY <1>1, Working
    <3> QED
      BY <1>1, <2>3, <2>5, <3>1, <3>2 DEF Balance, SettingUp, Solving
  <2>8. Fresh' /\ OwnedBy(call.s)' /\ WholeBy(call.s)'
    BY <2>2, <2>5 DEF Fresh, At, OwnedBy, WholeBy
  <2> QED
    BY <1>1, <2>1, <2>4, <2>5, <2>6, <2>7, <2>8, AdvanceKeeps
<1>4. CASE /\ slv' = [slv EXCEPT ![call.s].built = <<Broken, 0>>,
                            ![call.s].torn = TRUE, ![call.s].kept = FALSE]
           /\ Return("error")
           /\ UNCHANGED mat
  <2>1. slv' = [slv EXCEPT ![call.s] =
                  [@ EXCEPT !.built = <<Broken, 0>>, !.torn = TRUE, !.kept = FALSE]]
    BY <1>4
  <2>2. /\ slv'[call.s] = [Me EXCEPT !.built = <<Broken, 0>>, !.torn = TRUE, !.kept = FALSE]
        /\ \A t \in Solvers : t # call.s => slv'[t] = slv[t]
    BY <1>1, <2>1, Working DEF LifecycleTypeOK, Me
  <2>3. slv'[call.s].A \in {None, slv'[call.s].ptrA} /\ slv'[call.s].torn
    BY <1>2, <2>2 DEF SolverState
  <2>4. LifecycleTypeOK'
    <3>1. [Me EXCEPT !.built = <<Broken, 0>>, !.torn = TRUE, !.kept = FALSE] \in SolverState
      BY <1>2, SolverUpdates
    <3>2. slv' \in [Solvers -> SolverState]
      BY <1>1, <2>1, <3>1, Working DEF LifecycleTypeOK, Me
    <3> QED
      BY <1>1, <1>4, <3>2, Working, ReturnTyped, SameTypes DEF LifecycleTypeOK
  <2> QED
    BY <1>1, <1>4, <2>2, <2>3, <2>4, ReturnKeeps
<1> QED
  BY <1>3, <1>4 DEF SolverSetup

LEMMA EndSetupKeeps ==
  ASSUME IInv, EndSetup
  PROVE  IInv'
<1>1. ~Idle /\ call.at = "residual" /\ UNCHANGED <<cfg, mat, vec, calls>>
  BY DEF EndSetup, At, Idle
<1>2. /\ call.op = "setup" /\ Me.ptrA = call.m /\ Me.A = call.m /\ Me \in SolverState
      /\ Me.built = <<call.m, calls>> /\ (cfg.scaling => Me.scaler = <<call.m, calls>>)
  BY <1>1, Working DEF IInv, CallInv, SettingUp, Attached
<1>3. CASE /\ slv' = [slv EXCEPT ![call.s].isSetup = TRUE,
                            ![call.s].torn = FALSE, ![call.s].kept = FALSE]
           /\ Return("ok")
  <2>1. slv' = [slv EXCEPT ![call.s] =
                  [@ EXCEPT !.isSetup = TRUE, !.torn = FALSE, !.kept = FALSE]]
    BY <1>3
  <2>2. /\ slv'[call.s] = [Me EXCEPT !.isSetup = TRUE, !.torn = FALSE, !.kept = FALSE]
        /\ \A t \in Solvers : t # call.s => slv'[t] = slv[t]
    BY <1>1, <2>1, Working DEF LifecycleTypeOK, Me
  <2>3. /\ slv'[call.s].A \in {None, slv'[call.s].ptrA}
        /\ slv'[call.s].built[1] = slv'[call.s].A
        /\ cfg.scaling => slv'[call.s].scaler = slv'[call.s].built
    BY <1>2, <2>2 DEF SolverState
  <2>4. LifecycleTypeOK'
    <3>1. [Me EXCEPT !.isSetup = TRUE, !.torn = FALSE, !.kept = FALSE] \in SolverState
      BY <1>2, SolverUpdates
    <3>2. slv' \in [Solvers -> SolverState]
      BY <1>1, <2>1, <3>1, Working DEF LifecycleTypeOK, Me
    <3> QED
      BY <1>1, <1>3, <3>2, Working, ReturnTyped, SameTypes DEF LifecycleTypeOK
  <2> QED
    BY <1>1, <1>2, <1>3, <2>2, <2>3, <2>4, ReturnKeeps
<1>4. CASE /\ slv' = [slv EXCEPT ![call.s].torn = TRUE, ![call.s].kept = FALSE]
           /\ Return("error")
  <2>1. slv' = [slv EXCEPT ![call.s] = [@ EXCEPT !.torn = TRUE, !.kept = FALSE]]
    BY <1>4
  <2>2. /\ slv'[call.s] = [Me EXCEPT !.torn = TRUE, !.kept = FALSE]
        /\ \A t \in Solvers : t # call.s => slv'[t] = slv[t]
    BY <1>1, <2>1, Working DEF LifecycleTypeOK, Me
  <2>3. slv'[call.s].A \in {None, slv'[call.s].ptrA} /\ slv'[call.s].torn
    BY <1>2, <2>2 DEF SolverState
  <2>4. LifecycleTypeOK'
    <3>1. [Me EXCEPT !.torn = TRUE, !.kept = FALSE] \in SolverState
      BY <1>2, SolverUpdates
    <3>2. slv' \in [Solvers -> SolverState]
      BY <1>1, <2>1, <3>1, Working DEF LifecycleTypeOK, Me
    <3> QED
      BY <1>1, <1>4, <3>2, Working, ReturnTyped, SameTypes DEF LifecycleTypeOK
  <2> QED
    BY <1>1, <1>4, <2>2, <2>3, <2>4, ReturnKeeps
<1> QED
  BY <1>1, <1>3, <1>4 DEF EndSetup

LEMMA SolveKeeps ==
  ASSUME IInv, NEW s \in Solvers, Solve(s)
  PROVE  IInv'
<1>1. /\ LifecycleTypeOK /\ call.at = "idle" /\ calls < MaxCalls /\ calls' = calls + 1
      /\ cfg' = cfg /\ slv' = slv
      /\ \A t \in Solvers : OwnedBy(t) /\ WholeBy(t)
  BY DEF IInv, Solve, Idle
<1>2. calls' \in 0..MaxCalls /\ slv' \in [Solvers -> SolverState']
  BY <1>1, LifecycleAssumption, SameTypes DEF LifecycleTypeOK
<1>3. slv[s].A \in Matrices \union {None} /\ slv[s].kept \in BOOLEAN
  BY <1>1, SolverFields DEF LifecycleTypeOK
<1>4. \A t \in Solvers : OwnedBy(t)' /\ WholeBy(t)'
  BY <1>1 DEF OwnedBy, WholeBy
<1>5. CASE /\ Dangling(s)
           /\ call' = [NewCall("solve", s, slv[s].A, "crashed", FALSE) EXCEPT !.rc = "none"]
           /\ UNCHANGED <<mat, vec>>
  <2>1. slv[s].A \in Matrices /\ NewCall("solve", s, slv[s].A, "crashed", FALSE) \in CallState
    BY <1>1, <1>3, <1>5, NewCallTyped DEF Dangling, Steps
  <2>2. /\ call' \in CallState /\ call'.at = "crashed" /\ call'.s = s /\ call'.m = slv[s].A
    BY <1>5, <2>1 DEF CallState, NewCall
  <2>3. slv[s].kept
    BY <1>1, <1>5 DEF OwnedBy, Dangling, Alive
  <2>4. LifecycleTypeOK'
    BY <1>1, <1>2, <1>5, <2>2, SameTypes DEF LifecycleTypeOK
  <2>5. CallInv'
    BY <1>1, <2>1, <2>2, <2>3 DEF CallInv, SettingUp, Attached, Solving, Me
  <2>6. Balance' /\ Fresh' /\ ResultsOfOneSolve'
    BY <2>2 DEF Balance, Fresh, ResultsOfOneSolve, SettingUp, Solving, At, Idle
  <2> QED
    BY <1>4, <2>4, <2>5, <2>6 DEF IInv
<1>6. CASE /\ call'.at = "idle" /\ call'.rc = "error" /\ call' \in CallState
           /\ UNCHANGED <<mat, vec>>
  <2>1. LifecycleTypeOK'
    BY <1>1, <1>2, <1>6, SameTypes DEF LifecycleTypeOK
  <2>2. CallInv' /\ Balance'
    BY <1>6 DEF CallInv, Balance, SettingUp, Attached, Solving
  <2>3. Fresh' /\ ResultsOfOneSolve'
    BY <1>6 DEF Fresh, ResultsOfOneSolve, At, Idle
  <2> QED
    BY <1>4, <2>1, <2>2, <2>3 DEF IInv
<1>7. CASE /\ slv[s].A # None /\ slv[s].isSetup
           /\ call' = NewCall("solve", s, slv[s].A, "start", FALSE)
           /\ IF cfg.scaling
              THEN /\ mat' = [mat EXCEPT ![slv[s].A].scaled = @ + 1]
                   /\ vec' = [b |-> vec.b + 1, x |-> vec.x - 1]
              ELSE UNCHANGED <<mat, vec>>
  <2> DEFINE m == slv[s].A
             one == IF cfg.scaling THEN 1 ELSE 0
  <2>1. m \in Matrices
    BY <1>3, <1>7
  <2> HIDE DEF m
  <2>2. /\ call' \in CallState /\ call'.at = "start" /\ call'.s = s /\ call'.m = m
        /\ call'.op = "solve" /\ call'.iters = 0 /\ call'.entry = Scales(m)
    <3>1. NewCall("solve", s, m, "start", FALSE) \in CallState
      BY <1>1, <2>1, NewCallTyped DEF Steps
    <3> QED
      BY <1>7, <3>1 DEF NewCall, m
  <2>3. /\ mat' \in [Matrices -> MatrixState] /\ vec' \in [b : Int, x : Int]
        /\ mat'[m].scaled = mat[m].scaled + one
        /\ vec'.b = vec.b + one /\ vec'.x = vec.x - one
    <3>1. /\ mat[m].scaled \in Int /\ mat[m].scaled + 1 \in Int
          /\ vec \in [b : Int, x : Int] /\ mat \in [Matrices -> MatrixState]
      BY <1>1, <2>1 DEF LifecycleTypeOK, MatrixState
    <3>2. CASE cfg.scaling
      <4>1. mat' = [mat EXCEPT ![m].scaled = mat[m].scaled + 1]
        BY <1>7, <3>2 DEF m
      <4>2. mat' \in [Matrices -> MatrixState] /\ mat'[m].scaled = mat[m].scaled + 1
        BY <1>1, <2>1, <3>1, <4>1, Rescaled
      <4>3. vec' = [b |-> vec.b + 1, x |-> vec.x - 1]
        BY <1>7, <3>2
      <4> QED
        BY <3>1, <3>2, <4>2, <4>3
    <3>3. CASE ~cfg.scaling
      BY <1>7, <3>1, <3>3
    <3> QED
      BY <3>2, <3>3
  <2>4. LifecycleTypeOK'
    BY <1>1, <1>2, <2>2, <2>3, SameTypes DEF LifecycleTypeOK
  <2>5. CallInv'
    BY <1>1, <1>7, <2>1, <2>2 DEF CallInv, SettingUp, Attached, Solving, Me, m
  <2>6. Balance'
    <3>1. /\ call'.entry[1] = mat[m].scaled /\ call'.entry[2] = vec.b /\ call'.entry[3] = vec.x
      BY <2>2 DEF Scales
    <3> QED
      BY <1>1, <2>2, <2>3, <3>1 DEF Balance, SettingUp, Solving
  <2>7. Fresh' /\ ResultsOfOneSolve'
    BY <2>2 DEF Fresh, ResultsOfOneSolve, At, Idle
  <2> QED
    BY <1>4, <2>4, <2>5, <2>6, <2>7 DEF IInv
<1>8. CASE /\ slv[s].A = None
           /\ call' = [call EXCEPT !.op = "solve", !.s = s, !.m = None, !.rc = "error"]
           /\ UNCHANGED <<mat, vec>>
  <2>1. call \in CallState
    BY <1>1 DEF LifecycleTypeOK
  <2>2. call' \in CallState /\ call'.at = "idle" /\ call'.rc = "error"
    BY <1>1, <1>8, <2>1 DEF CallState
  <2> QED
    BY <1>6, <1>8, <2>2
<1>9. CASE /\ slv[s].A # None
           /\ call' = [NewCall("solve", s, slv[s].A, "idle", FALSE) EXCEPT !.rc = "error"]
           /\ UNCHANGED <<mat, vec>>
  <2>1. NewCall("solve", s, slv[s].A, "idle", FALSE) \in CallState
    BY <1>1, <1>3, <1>9, NewCallTyped DEF Steps
  <2>2. call' \in CallState /\ call'.at = "idle" /\ call'.rc = "error"
    BY <1>9, <2>1 DEF CallState, NewCall
  <2> QED
    BY <1>6, <1>9, <2>2
<1> QED
  BY <1>5, <1>7, <1>8, <1>9 DEF Solve

LEMMA StartSolveKeeps ==
  ASSUME IInv, StartSolve
  PROVE  IInv'
<1>1. ~Idle /\ call.at = "start" /\ UNCHANGED <<cfg, mat, vec, calls>>
  BY DEF StartSolve, At, Idle
<1>2. /\ call.op = "solve" /\ Me.A = call.m /\ Me.isSetup /\ call.iters = 0
      /\ Me \in SolverState /\ OwnedBy(call.s) /\ WholeBy(call.s)
  BY <1>1, Working DEF IInv, CallInv, Solving, Attached
<1> DEFINE st == IF cfg.maxIters = 0 THEN calls ELSE Me.status
<1>3. slv' = [slv EXCEPT ![call.s] = [@ EXCEPT !.history[0] = calls, !.status = st]]
  BY DEF StartSolve, Me
<1>4. st \in 0..MaxCalls /\ calls \in 0..MaxCalls /\ 0 \in 0..cfg.maxIters
  BY <1>1, <1>2, Working, ConfigTyped, SolverFields DEF LifecycleTypeOK
<1> HIDE DEF st
<1>5. /\ slv'[call.s] = [Me EXCEPT !.history[0] = calls, !.status = st]
      /\ \A t \in Solvers : t # call.s => slv'[t] = slv[t]
  BY <1>1, <1>3, Working DEF LifecycleTypeOK, Me
<1>6. /\ slv'[call.s].A = Me.A /\ slv'[call.s].ptrA = Me.ptrA /\ slv'[call.s].kept = Me.kept
      /\ slv'[call.s].torn = Me.torn /\ slv'[call.s].isSetup = Me.isSetup
      /\ slv'[call.s].built = Me.built /\ slv'[call.s].scaler = Me.scaler
      /\ slv'[call.s].history[0] = calls
  <2> DEFINE r == [Me EXCEPT !.history[0] = calls]
  <2>1. r \in SolverState
    BY <1>2, <1>4, SolverUpdates
  <2>2. /\ r.A = Me.A /\ r.ptrA = Me.ptrA /\ r.kept = Me.kept /\ r.torn = Me.torn
        /\ r.isSetup = Me.isSetup /\ r.built = Me.built /\ r.scaler = Me.scaler
    BY <1>2 DEF SolverState
  <2>3. r.history[0] = calls
    <3>1. Me.history \in [0..cfg.maxIters -> 0..MaxCalls]
      BY <1>2, SolverFields
    <3>2. r.history = [Me.history EXCEPT ![0] = calls]
      BY <1>2 DEF SolverState
    <3> QED
      BY <1>4, <3>1, <3>2
  <2>4. slv'[call.s] = [r EXCEPT !.status = st]
    BY <1>5
  <2> HIDE DEF r
  <2> QED
    BY <2>1, <2>2, <2>3, <2>4 DEF SolverState
<1>7. slv' \in [Solvers -> SolverState]
  <2>1. [Me EXCEPT !.history[0] = calls, !.status = st] \in SolverState
    BY <1>2, <1>4, SolverUpdates
  <2> QED
    BY <1>1, <1>3, <2>1, Working DEF LifecycleTypeOK, Me
<1>8. CASE cfg.maxIters = 0 /\ Return("ok")
  <2>1. LifecycleTypeOK'
    BY <1>1, <1>7, <1>8, Working, ReturnTyped, SameTypes DEF LifecycleTypeOK
  <2>2. /\ slv'[call.s].kept \/ slv'[call.s].A \in {None, slv'[call.s].ptrA}
        /\ \/ slv'[call.s].torn \/ ~slv'[call.s].isSetup
           \/ /\ slv'[call.s].built[1] = slv'[call.s].A
              /\ cfg.scaling => slv'[call.s].scaler = slv'[call.s].built
    BY <1>1, <1>2, <1>6 DEF OwnedBy, WholeBy, Me
  <2>3. ~(cfg.maxIters > 0)
    BY <1>8
  <2> QED
    BY <1>1, <1>5, <1>8, <2>1, <2>2, <2>3, ReturnKeeps
<1>9. CASE \E converged \in BOOLEAN : call' = [call EXCEPT !.at = "iterate", !.done = converged]
  <2>1. PICK c \in BOOLEAN : call' = [call EXCEPT !.at = "iterate", !.done = c]
    BY <1>9
  <2>2. /\ call'.at = "iterate" /\ call'.op = call.op /\ call'.s = call.s /\ call'.m = call.m
        /\ call'.entry = call.entry /\ call'.iters = call.iters
    BY <1>1, <2>1, Working DEF CallState
  <2>3. call' \in CallState
    BY <1>1, <2>1, Working DEF CallState, Steps
  <2>4. LifecycleTypeOK'
    BY <1>1, <1>7, <2>3, Working, SameTypes DEF LifecycleTypeOK
  <2>5. CallInv'
    <3>1. call'.s \in Solvers /\ call'.m \in Matrices
      BY <1>1, <2>2, Working
    <3> QED
      BY <1>2, <1>6, <2>2, <3>1 DEF CallInv, SettingUp, Attached, Solving, Me
  <2>6. Balance'
    BY <1>1, <2>2 DEF IInv, Balance, SettingUp, Solving
  <2>7. Fresh'
    BY <1>1, <1>2, <1>6, <2>2 DEF Fresh, Me
  <2>8. OwnedBy(call.s)' /\ WholeBy(call.s)'
    BY <1>1, <1>2, <1>6, <2>2 DEF OwnedBy, WholeBy, Me
  <2> QED
    BY <1>1, <1>5, <2>2, <2>4, <2>5, <2>6, <2>7, <2>8, AdvanceKeeps
<1> QED
  BY <1>8, <1>9 DEF StartSolve

LEMMA IterateKeeps ==
  ASSUME IInv, Iterate
  PROVE  IInv'
<1>1. /\ ~Idle /\ call.at = "iterate" /\ UNCHANGED <<cfg, mat, vec, calls>>
      /\ call.iters < cfg.maxIters
  BY DEF Iterate, Iterating, At, Idle
<1>2. /\ call.op = "solve" /\ Me.A = call.m /\ Me.isSetup
      /\ Me \in SolverState /\ OwnedBy(call.s) /\ WholeBy(call.s)
      /\ \A i \in 0..call.iters : Me.history[i] = calls
  BY <1>1, Working DEF IInv, CallInv, Solving, Attached, Fresh, At
<1> DEFINE n == call.iters + 1
<1>3. n \in 0..cfg.maxIters /\ calls \in 0..MaxCalls /\ call.iters \in Nat
  BY <1>1, Working, ConfigTyped, CallFields DEF LifecycleTypeOK
<1>4. slv' = [slv EXCEPT ![call.s] = [@ EXCEPT !.history[n] = calls]]
  BY DEF Iterate
<1>5. \A i \in 0..n : i # n => i \in 0..call.iters
  BY <1>3
<1>6. PICK d \in BOOLEAN : call' = [call EXCEPT !.iters = n, !.done = d]
  BY DEF Iterate
<1>7. /\ call'.at = "iterate" /\ call'.op = call.op /\ call'.s = call.s /\ call'.m = call.m
      /\ call'.entry = call.entry /\ call'.iters = n
  BY <1>1, <1>6, Working DEF CallState
<1>8. call' \in CallState
  BY <1>1, <1>3, <1>6, Working DEF CallState
<1> HIDE DEF n
<1>9. /\ slv'[call.s] = [Me EXCEPT !.history[n] = calls]
      /\ \A t \in Solvers : t # call.s => slv'[t] = slv[t]
  BY <1>1, <1>4, Working DEF LifecycleTypeOK, Me
<1>10. /\ slv'[call.s].A = Me.A /\ slv'[call.s].ptrA = Me.ptrA /\ slv'[call.s].kept = Me.kept
       /\ slv'[call.s].torn = Me.torn /\ slv'[call.s].isSetup = Me.isSetup
       /\ slv'[call.s].built = Me.built /\ slv'[call.s].scaler = Me.scaler
       /\ slv'[call.s].history = [Me.history EXCEPT ![n] = calls]
  BY <1>2, <1>9 DEF SolverState
<1>11. \A i \in 0..n : slv'[call.s].history[i] = calls
  <2>1. Me.history \in [0..cfg.maxIters -> 0..MaxCalls]
    BY <1>2, SolverFields
  <2> SUFFICES ASSUME NEW i \in 0..n PROVE slv'[call.s].history[i] = calls
    OBVIOUS
  <2>2. i \in 0..cfg.maxIters
    BY <1>1, <1>3, Working, ConfigTyped
  <2>3. CASE i = n
    BY <1>10, <2>1, <2>2, <2>3
  <2>4. CASE i # n
    <3>1. Me.history[i] = calls
      BY <1>2, <1>5, <2>4
    <3> QED
      BY <1>10, <2>1, <2>2, <2>4, <3>1
  <2> QED
    BY <2>3, <2>4
<1>12. LifecycleTypeOK'
  <2>1. [Me EXCEPT !.history[n] = calls] \in SolverState
    BY <1>2, <1>3, SolverUpdates
  <2>2. slv' \in [Solvers -> SolverState]
    BY <1>1, <1>4, <2>1, Working DEF LifecycleTypeOK, Me
  <2> QED
    BY <1>1, <1>8, <2>2, Working, SameTypes DEF LifecycleTypeOK
<1>13. CallInv'
  <2>1. call'.s \in Solvers /\ call'.m \in Matrices
    BY <1>1, <1>7, Working
  <2> QED
    BY <1>2, <1>7, <1>10, <2>1 DEF CallInv, SettingUp, Attached, Solving, Me
<1>14. Balance'
  BY <1>1, <1>7 DEF IInv, Balance, SettingUp, Solving
<1>15. Fresh'
  BY <1>1, <1>7, <1>11 DEF Fresh, Me
<1>16. OwnedBy(call.s)' /\ WholeBy(call.s)'
  BY <1>1, <1>2, <1>7, <1>10 DEF OwnedBy, WholeBy, Me
<1> QED
  BY <1>1, <1>7, <1>9, <1>12, <1>13, <1>14, <1>15, <1>16, AdvanceKeeps

\* The end of a solve changes the results of its solver only.
LEMMA ResultsKeep ==
  ASSUME IInv, ~Idle, call.at \in Solving, cfg' = cfg, calls' = calls,
         mat' \in [Matrices -> MatrixState], vec' \in [b : Int, x : Int],
         NEW rc \in {"ok", "error"}, Return(rc),
         NEW n \in 0..cfg.maxIters, NEW st \in 0..MaxCalls,
         slv' = [slv EXCEPT ![call.s] = [@ EXCEPT !.numIters = n, !.status = st]],
         rc = "ok" => st = calls /\ \A i \in 0..n : Me.history[i] = calls
  PROVE  IInv'
<1>1. Me \in SolverState /\ OwnedBy(call.s) /\ WholeBy(call.s)
  BY Working
<1>2. /\ slv'[call.s] = [Me EXCEPT !.numIters = n, !.status = st]
      /\ \A t \in Solvers : t # call.s => slv'[t] = slv[t]
  BY Working DEF LifecycleTypeOK, Me
<1>3. /\ slv'[call.s].A = Me.A /\ slv'[call.s].ptrA = Me.ptrA /\ slv'[call.s].kept = Me.kept
      /\ slv'[call.s].torn = Me.torn /\ slv'[call.s].isSetup = Me.isSetup
      /\ slv'[call.s].built = Me.built /\ slv'[call.s].scaler = Me.scaler
      /\ slv'[call.s].history = Me.history
      /\ slv'[call.s].numIters = n /\ slv'[call.s].status = st
  <2> DEFINE q == slv'[call.s]
             r == Me
  <2>1. r \in SolverState /\ q = [r EXCEPT !.numIters = n, !.status = st]
    BY <1>1, <1>2
  <2> HIDE DEF q, r
  <2>2. /\ q.A = r.A /\ q.ptrA = r.ptrA /\ q.kept = r.kept /\ q.torn = r.torn
        /\ q.isSetup = r.isSetup /\ q.built = r.built /\ q.scaler = r.scaler
        /\ q.history = r.history /\ q.numIters = n /\ q.status = st
    BY <2>1 DEF SolverState
  <2> QED
    BY <2>2 DEF q, r
<1>4. LifecycleTypeOK'
  <2>1. [Me EXCEPT !.numIters = n, !.status = st] \in SolverState
    BY <1>1, SolverUpdates
  <2>2. slv' \in [Solvers -> SolverState]
    BY <2>1, Working DEF LifecycleTypeOK, Me
  <2> QED
    BY <2>2, Working, ReturnTyped, SameTypes DEF LifecycleTypeOK
<1>5. /\ slv'[call.s].kept \/ slv'[call.s].A \in {None, slv'[call.s].ptrA}
      /\ \/ slv'[call.s].torn \/ ~slv'[call.s].isSetup
         \/ /\ slv'[call.s].built[1] = slv'[call.s].A
            /\ cfg.scaling => slv'[call.s].scaler = slv'[call.s].built
  BY <1>1, <1>3 DEF OwnedBy, WholeBy, Me, Solving
<1>6. rc = "ok" => /\ slv'[call.s].status = calls
                  /\ \A i \in 0..slv'[call.s].numIters : slv'[call.s].history[i] = calls
  BY <1>3
<1> QED
  BY <1>2, <1>4, <1>5, <1>6, ReturnKeeps

LEMMA SolveThrowsKeeps ==
  ASSUME IInv, SolveThrows
  PROVE  IInv'
<1>1. /\ ~Idle /\ call.at \in Solving /\ UNCHANGED <<cfg, mat, vec, calls>> /\ Return("error")
  BY DEF SolveThrows, At, Idle, Solving
<1>2. /\ LifecycleTypeOK /\ mat \in [Matrices -> MatrixState] /\ vec \in [b : Int, x : Int]
      /\ Me \in SolverState /\ slv \in [Solvers -> SolverState]
      /\ call.iters \in 0..cfg.maxIters
      /\ Me.numIters \in 0..cfg.maxIters /\ Me.status \in 0..MaxCalls
  BY <1>1, Working, CallFields, SolverFields DEF LifecycleTypeOK
<1>3. PICK n \in 0..cfg.maxIters :
        slv' = [slv EXCEPT ![call.s] = [@ EXCEPT !.numIters = n, !.status = Me.status]]
  <2>1. /\ [Me EXCEPT !.numIters = Me.numIters, !.status = Me.status] = Me
        /\ [Me EXCEPT !.numIters = call.iters, !.status = Me.status]
             = [Me EXCEPT !.numIters = call.iters]
    BY <1>2 DEF SolverState
  <2>2. CASE UNCHANGED slv
    <3>1. slv' = [slv EXCEPT ![call.s] = Me]
      BY <1>2, <2>2 DEF Me
    <3>2. slv' = [slv EXCEPT ![call.s] = [@ EXCEPT !.numIters = Me.numIters, !.status = Me.status]]
      BY <2>1, <3>1 DEF Me
    <3> QED
      BY <1>2, <3>2
  <2>3. CASE slv' = [slv EXCEPT ![call.s].numIters = call.iters]
    BY <1>2, <2>1, <2>3 DEF Me
  <2> QED
    BY <2>2, <2>3 DEF SolveThrows
<1> QED
  BY <1>1, <1>2, <1>3, ResultsKeep

LEMMA EndSolveKeeps ==
  ASSUME IInv, EndSolve
  PROVE  IInv'
<1>1. /\ ~Idle /\ call.at = "iterate" /\ UNCHANGED <<cfg, calls>> /\ Return("ok")
  BY DEF EndSolve, At, Idle
<1>2. /\ LifecycleTypeOK /\ mat \in [Matrices -> MatrixState] /\ vec \in [b : Int, x : Int]
      /\ Me.A = call.m /\ call.m \in Matrices /\ mat[call.m].scaled \in Int
      /\ call.iters \in 0..cfg.maxIters /\ calls \in 0..MaxCalls
      /\ \A i \in 0..call.iters : Me.history[i] = calls
  BY <1>1, Working, CallFields
     DEF LifecycleTypeOK, IInv, CallInv, Attached, Fresh, At, MatrixState
<1>3. mat' \in [Matrices -> MatrixState] /\ vec' \in [b : Int, x : Int]
  <2>1. CASE cfg.scaling
    <3>1. /\ mat' = [mat EXCEPT ![call.m].scaled = mat[call.m].scaled - 1]
          /\ vec' = [b |-> vec.b - 1, x |-> vec.x + 1]
      BY <1>2, <2>1 DEF EndSolve
    <3>2. mat' \in [Matrices -> MatrixState]
      <4>1. mat[call.m].scaled - 1 \in Int
        BY <1>2
      <4> QED
        BY <1>2, <3>1, <4>1, Rescaled
    <3> QED
      BY <1>2, <3>1, <3>2
  <2>2. CASE ~cfg.scaling
    BY <1>2, <2>2 DEF EndSolve
  <2> QED
    BY <2>1, <2>2
<1>4. slv' = [slv EXCEPT ![call.s] = [@ EXCEPT !.numIters = call.iters, !.status = calls]]
  BY DEF EndSolve
<1> QED
  BY <1>1, <1>2, <1>3, <1>4, ResultsKeep DEF Solving

-----------------------------------------------------------------------------
\* The theorems.

LEMMA InitHolds ==
  ASSUME Init
  PROVE  IInv
<1>1. /\ cfg \in Configs /\ call.at = "idle" /\ call.op = "none"
      /\ \A s \in Solvers : slv[s].A = None /\ ~slv[s].isSetup
  BY DEF Init
<1>2. LifecycleTypeOK
  <2>1. /\ cfg.maxIters \in Nat /\ MaxCalls \in Nat
    BY <1>1, ConfigTyped
  <2>2. <<None, 0>> \in Origins
    BY <2>1 DEF Origins
  <2>3. slv \in [Solvers -> SolverState]
    BY <2>1, <2>2 DEF Init, SolverState
  <2>4. call \in CallState
    BY <2>1 DEF Init, CallState, Steps
  <2>5. mat \in [Matrices -> MatrixState] /\ vec \in [b : Int, x : Int] /\ calls \in 0..MaxCalls
    BY <2>1 DEF Init, MatrixState
  <2> QED
    BY <1>1, <2>3, <2>4, <2>5 DEF LifecycleTypeOK
<1>3. CallInv /\ Balance
  BY <1>1 DEF CallInv, Balance, SettingUp, Attached, Solving
<1>4. Fresh /\ ResultsOfOneSolve
  BY <1>1 DEF Fresh, ResultsOfOneSolve, At
<1>5. \A s \in Solvers : OwnedBy(s) /\ WholeBy(s)
  BY <1>1 DEF OwnedBy, WholeBy
<1> QED
  BY <1>2, <1>3, <1>4, <1>5 DEF IInv

LEMMA StutterKeeps ==
  ASSUME IInv, UNCHANGED vars
  PROVE  IInv'
<1>1. UNCHANGED <<cfg, mat, slv, vec, call, calls>>
  BY DEF vars
<1>2. LifecycleTypeOK'
  BY <1>1, SameTypes DEF IInv, LifecycleTypeOK
<1>3. CallInv' /\ Balance' /\ Fresh' /\ ResultsOfOneSolve'
  BY <1>1 DEF IInv, CallInv, Balance, Fresh, ResultsOfOneSolve, At, Idle, Me
<1>4. \A s \in Solvers : OwnedBy(s)' /\ WholeBy(s)'
  BY <1>1 DEF IInv, OwnedBy, WholeBy
<1> QED
  BY <1>2, <1>3, <1>4 DEF IInv

\* Every reachable state satisfies the invariant: what each step of setup and
\* solve has done to solver, matrix and vectors, whatever the user calls.
THEOREM LifecycleInvariant == Spec => []IInv
<1>1. Init => IInv
  BY InitHolds
<1>2. IInv /\ [Next]_vars => IInv'
  <2> SUFFICES ASSUME IInv, [Next]_vars PROVE IInv'
    OBVIOUS
  <2>1. ASSUME NEW m \in Matrices, Upload(m) \/ ReplaceCoefficients(m) \/ DestroyMatrix(m)
        PROVE  IInv'
    BY <2>1, UploadKeeps
  <2>2. CASE UploadVectors
    BY <2>2, UploadVectorsKeeps
  <2>3. ASSUME NEW s \in Solvers, NEW m \in Matrices,
               Setup(s, m) \/ SkipSetup(s, m) \/ Resetup(s, m)
        PROVE  IInv'
    BY <2>3, SetupKeeps, SkipSetupKeeps
  <2>4. ASSUME NEW s \in Solvers, Solve(s)
        PROVE  IInv'
    BY <2>4, SolveKeeps
  <2>5. CASE RefuseSetup
    BY <2>5, RefuseSetupKeeps
  <2>6. CASE SetupMatrix
    BY <2>6, SetupMatrixKeeps
  <2>7. CASE ScaleForSetup
    BY <2>7, ScaleForSetupKeeps
  <2>8. CASE SolverSetup
    BY <2>8, SolverSetupKeeps
  <2>9. CASE EndSetup
    BY <2>9, EndSetupKeeps
  <2>10. CASE StartSolve
    BY <2>10, StartSolveKeeps
  <2>11. CASE Iterate
    BY <2>11, IterateKeeps
  <2>12. CASE SolveThrows
    BY <2>12, SolveThrowsKeeps
  <2>13. CASE EndSolve
    BY <2>13, EndSolveKeeps
  <2>14. CASE UNCHANGED vars
    BY <2>14, StutterKeeps
  <2> QED
    BY <2>1, <2>2, <2>3, <2>4, <2>5, <2>6, <2>7, <2>8, <2>9, <2>10, <2>11, <2>12, <2>13, <2>14
       DEF Next, UserCalls
<1> QED
  BY <1>1, <1>2, PTL DEF Spec

\* The state keeps its type: no iteration beyond max_iters, no entry beyond
\* the history.
THEOREM LifecycleTypeCorrect == Spec => []LifecycleTypeOK
<1>1. IInv => LifecycleTypeOK
  BY DEF IInv
<1> QED
  BY <1>1, LifecycleInvariant, PTL

\* Solver::solve iterates with the scaler and the hierarchy of one setup, on
\* the matrix of that setup, unless the last setup threw after set_A.
THEOREM AlwaysSolvesItsSetup == Spec => []SolvesItsSetup
<1>1. IInv => SolvesItsSetup
  <2> SUFFICES ASSUME IInv, At("iterate"), ~Me.torn
               PROVE  /\ call.m = Me.A /\ Me.built[1] = Me.A
                      /\ cfg.scaling => /\ Me.scaler = Me.built
                                        /\ mat[Me.A].scaled = call.entry[1] + 1
    BY DEF SolvesItsSetup
  <2>1. call.at = "iterate" /\ ~Idle
    BY DEF At, Idle
  <2>2. call.m = Me.A /\ Me.isSetup
    BY <2>1 DEF IInv, CallInv, Attached, Solving
  <2>3. Me.built[1] = Me.A /\ (cfg.scaling => Me.scaler = Me.built)
    BY <2>1, <2>2, Working DEF WholeBy, Me
  <2>4. cfg.scaling => mat[call.m].scaled = call.entry[1] + 1
    BY <2>1 DEF IInv, Balance, SettingUp, Solving
  <2> QED
    BY <2>2, <2>3, <2>4
<1> QED
  BY <1>1, LifecycleInvariant, PTL

\* Number of iterations, residuals and status after a successful solve are
\* those of that solve.
THEOREM AlwaysResultsOfOneSolve == Spec => []ResultsOfOneSolve
<1>1. IInv => ResultsOfOneSolve
  BY DEF IInv
<1> QED
  BY <1>1, LifecycleInvariant, PTL

\* A solver looks into a deleted matrix only if its last setup was refused or
\* skipped.
THEOREM AlwaysUsesLiveMatrix == Spec => []UsesLiveMatrix
<1>1. IInv => UsesLiveMatrix
  BY DEF IInv, CallInv, UsesLiveMatrix, At
<1> QED
  BY <1>1, LifecycleInvariant, PTL

\* A call that succeeds leaves matrix, b and x as often scaled as it found
\* them, except a solve with max_iters 0.
THEOREM AlwaysScalingUndone == Spec => ScalingUndone
<1> DEFINE Undone == <<mat'[call.m].scaled, vec'.b, vec'.x>> = call.entry
<1>1. ASSUME IInv, Next, ~Idle, call'.at = "idle", call'.rc = "ok",
             ~(call.op = "solve" /\ cfg.maxIters = 0)
      PROVE  Undone
  <2>1. /\ LifecycleTypeOK /\ call.m \in Matrices /\ mat[call.m] \in MatrixState
        /\ call \in CallState /\ call.entry \in Int \X Int \X Int
    BY <1>1, Working, CallFields
  <2>2. call.entry = <<call.entry[1], call.entry[2], call.entry[3]>>
    BY <2>1
  <2>3. /\ call.at # "idle" /\ Return("error") => FALSE
    BY <1>1, Working, ReturnTyped DEF Idle
  <2>4. CASE EndSetup
    <3>1. /\ call.at = "residual" /\ UNCHANGED <<mat, vec>>
      BY <2>4 DEF EndSetup, At
    <3>2. /\ mat[call.m].scaled = call.entry[1] /\ vec.b = call.entry[2] /\ vec.x = call.entry[3]
      BY <1>1, <2>1, <3>1, Working DEF IInv, Balance, SettingUp, Solving
    <3> QED
      BY <2>2, <3>1, <3>2
  <2>5. CASE EndSolve
    <3>1. call.at = "iterate" /\ Me.A = call.m
      BY <1>1, <2>5 DEF EndSolve, At, IInv, CallInv, Attached
    <3> DEFINE one == IF cfg.scaling THEN 1 ELSE 0
    <3>2. /\ mat[call.m].scaled = call.entry[1] + one
          /\ vec.b = call.entry[2] + one /\ vec.x = call.entry[3] - one
      BY <1>1, <3>1 DEF IInv, Balance, SettingUp, Solving
    <3>3. /\ mat'[call.m].scaled = mat[call.m].scaled - one
          /\ vec'.b = vec.b - one /\ vec'.x = vec.x + one
      <4>1. mat[call.m].scaled \in Int /\ vec.b \in Int /\ vec.x \in Int
        BY <2>1 DEF LifecycleTypeOK, MatrixState
      <4>2. CASE cfg.scaling
        <5>1. /\ mat' = [mat EXCEPT ![call.m].scaled = mat[call.m].scaled - 1]
              /\ vec' = [b |-> vec.b - 1, x |-> vec.x + 1]
          BY <2>5, <3>1, <4>2 DEF EndSolve
        <5>2. mat[call.m].scaled - 1 \in Int
          BY <4>1
        <5>3. mat'[call.m].scaled = mat[call.m].scaled - 1
          BY <2>1, <5>1, <5>2, Rescaled
        <5> QED
          BY <4>2, <5>1, <5>3
      <4>3. CASE ~cfg.scaling
        BY <2>5, <4>1, <4>3 DEF EndSolve
      <4> QED
        BY <4>2, <4>3
    <3>4. one \in Int
      OBVIOUS
    <3> HIDE DEF one
    <3>5. call.entry[1] \in Int /\ call.entry[2] \in Int /\ call.entry[3] \in Int
      BY <2>1
    <3> QED
      BY <2>2, <3>2, <3>3, <3>4, <3>5
  <2>6. ~UserCalls
    BY <1>1 DEF UserCalls, Upload, ReplaceCoefficients, DestroyMatrix, UploadVectors,
                Setup, SkipSetup, Resetup, Called, Solve
  <2>7. ~RefuseSetup /\ ~SolveThrows
    BY <2>3, <1>1 DEF RefuseSetup, SolveThrows, Idle
  <2>8. ~SetupMatrix /\ ~ScaleForSetup /\ ~SolverSetup
    <3>1. \A step \in {"scale", "build", "residual"} : call' # [call EXCEPT !.at = step]
      BY <1>1, <2>1 DEF CallState
    <3> QED
      BY <1>1, <2>3, <3>1 DEF SetupMatrix, ScaleForSetup, SolverSetup, Idle
  <2>9. ~StartSolve
    <3>1. ASSUME StartSolve PROVE call.op = "solve" /\ cfg.maxIters # 0
      BY <1>1, <3>1 DEF StartSolve, At, IInv, CallInv, Solving
    <3>2. \A c \in BOOLEAN : call' # [call EXCEPT !.at = "iterate", !.done = c]
      BY <1>1, <2>1 DEF CallState
    <3> QED
      BY <3>1, <3>2 DEF StartSolve
  <2>10. ~Iterate
    <3>1. \A d \in BOOLEAN : call.at = "iterate" => call' # [call EXCEPT !.iters = @ + 1, !.done = d]
      BY <1>1, <2>1 DEF CallState
    <3> QED
      BY <3>1 DEF Iterate, Iterating, At
  <2> QED
    BY <1>1, <2>4, <2>5, <2>6, <2>7, <2>8, <2>9, <2>10 DEF Next
<1>2. IInv /\ [Next]_vars =>
        [ /\ ~Idle
          /\ call'.at = "idle" /\ call'.rc = "ok"
          /\ ~(call.op = "solve" /\ cfg.maxIters = 0)
          => Undone ]_vars
  BY <1>1
<1> QED
  BY <1>2, LifecycleInvariant, PTL DEF Spec, ScalingUndone
=============================================================================
