---------------------------- MODULE MCResources ----------------------------
(***************************************************************************)
(* Two Resources on two devices, two objects, and three addresses: one for *)
(* a pool, one for a buffer, and one more to come back elsewhere.          *)
(***************************************************************************)
EXTENDS Resources, TLC

Symmetry == Permutations(Handles) \union Permutations(Objects)
              \union Permutations(Places) \union Permutations(Devices)
=============================================================================
