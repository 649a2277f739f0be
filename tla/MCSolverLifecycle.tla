-------------------------- MODULE MCSolverLifecycle --------------------------
(***************************************************************************)
(* Two solvers that share two matrices, with and without scaling, in all   *)
(* modes of reuse, with no iterations or up to two.                        *)
(***************************************************************************)
EXTENDS SolverLifecycle, TLC

CONSTANTS s1, s2, m1, m2

MCConfigs == [scaling : BOOLEAN, reuseLevels : {-1, 0, 1}, maxIters : {0, 2}]
Symmetry == Permutations({s1, s2}) \union Permutations({m1, m2})
=============================================================================
