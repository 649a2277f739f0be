--------------------------- MODULE MCHaloExchange ---------------------------
(* Instances of HaloExchange for TLC. *)
EXTENDS HaloExchange, TLC

CONSTANTS x, y

\* Three ranks in a line: 0 and 2 are not neighbors.
MCNeighbors == 0 :> {1} @@ 1 :> {0, 2} @@ 2 :> {1}

\* The tag of x is also the number of a rank, as tags of real vectors are.
MCTag == x :> 1 @@ y :> 700
=============================================================================
