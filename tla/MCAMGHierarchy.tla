--------------------------- MODULE MCAMGHierarchy ---------------------------
(***************************************************************************)
(* Matrices of 4 and 3 rows, coarsened to between one and all of their     *)
(* rows, at most three levels; addresses for two chains.                   *)
(***************************************************************************)
EXTENDS AMGHierarchy

Parameters(fineRows, coarseRows, host, lu, solver) ==
  [minFine |-> fineRows, minCoarse |-> coarseRows, hostRows |-> host,
   luMax |-> lu, coarse |-> solver]

MCFineRows == {4, 3}
MCReuse == {-1, 0, 2}

\* Without and with a coarse solver, capped, hybrid, and with host levels.
MCConfigs == {Parameters(1, 1, 0, 0, FALSE), Parameters(1, 1, 0, 2, TRUE),
              Parameters(3, 1, 0, 0, TRUE), Parameters(1, 1, 2, 0, FALSE)}

MCHostLevels == {Parameters(1, 1, 2, 0, FALSE)}
=============================================================================
