------------------------------- MODULE MCCycle -------------------------------
(***************************************************************************)
(* All cycle types on one to four levels, with and without coarse solver,  *)
(* smoothing and intensive smoothing, one or two CG iterations.            *)
(***************************************************************************)
EXTENDS Cycle

MCModes ==
  [cycle : CycleTypes, depth : 1..4, coarseSolver : BOOLEAN, presweeps : 0..1,
   finestSweeps : {-1}, coarsestSweeps : {0, 2}, intensive : BOOLEAN,
   cycleIters : 1..2]
=============================================================================
