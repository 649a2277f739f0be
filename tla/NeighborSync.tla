---------------------------- MODULE NeighborSync ----------------------------
(***************************************************************************)
(* What a halo exchange promises to the program that calls it, with no     *)
(* message, buffer or request in sight: the exchanges of one vector are a  *)
(* barrier among neighbors.  A rank enters the k-th exchange of a vector,  *)
(* and leaves it only once every neighbor has entered its own k-th.  Ranks *)
(* that are not neighbors do not wait for each other.                      *)
(*                                                                         *)
(* HaloExchange implements this module; Pmis relies on it, moving the      *)
(* ranks through their rounds together.                                    *)
(***************************************************************************)
EXTENDS Naturals

CONSTANTS
    Ranks,        \* the processes
    Vectors,      \* the vectors they exchange
    Neighbors     \* the neighbors of each rank

VARIABLES
    entered,      \* exchanges of a vector a rank has entered
    left          \* ... and left

vars == <<entered, left>>

Init ==
    /\ entered = [r \in Ranks |-> [v \in Vectors |-> 0]]
    /\ left = [r \in Ranks |-> [v \in Vectors |-> 0]]

Enter(r, v) ==
    /\ entered[r][v] = left[r][v]
    /\ entered' = [entered EXCEPT ![r][v] = @ + 1]
    /\ UNCHANGED left

Leave(r, v) ==
    /\ left[r][v] < entered[r][v]
    /\ \A n \in Neighbors[r] : entered[n][v] >= entered[r][v]
    /\ left' = [left EXCEPT ![r][v] = @ + 1]
    /\ UNCHANGED entered

Next == \E r \in Ranks, v \in Vectors : Enter(r, v) \/ Leave(r, v)

Spec == Init /\ [][Next]_vars
=============================================================================
