---------------------------- MODULE ColoringRounds ----------------------------
(***************************************************************************)
(* What min-max coloring promises, without kernels and threads: the rows   *)
(* are colored in rounds.  Each round gives a color to the uncolored rows  *)
(* with the greatest hash among those near them, and another one to those  *)
(* with the least; some row gets one.  Only where the matrix has an entry  *)
(* in one direction, a row may overlook the one that does not see it.      *)
(*                                                                         *)
(* MinMaxColoring implements this module.                                  *)
(***************************************************************************)
EXTENDS Integers, FiniteSets, FiniteSetsExt

CONSTANTS
    Rows,         \* the rows of the view
    Inputs        \* what to color, see MinMaxColoring

VARIABLES
    input,        \* the matrix and the parameters; they do not change
    colors,       \* the color of each row, 0 if it has none
    num_colors,   \* the first color of the next round; in the end, how many
    finished

vars == <<input, colors, num_colors, finished>>

Uncolored == {i \in Rows : colors[i] = 0}

\* The columns of a row, and the other rows it must differ from: with coloring
\* level 2 these include the neighbors of its neighbors.
Columns(i) == {j \in Rows : <<i, j>> \in input.edges}
Near(i) ==
    {j \in Rows \ {i} :
       \/ j \in Columns(i)
       \/ input.level = 2 /\ \E k \in Columns(i) : j \in Columns(k)}

OneSided(i) ==
    IF input.level = 1 THEN {j \in Near(i) : i \notin Near(j)} ELSE {}

Greatest(i, rows) == \A j \in Near(i) \cap rows : input.hash[j] <= input.hash[i]
Least(i, rows) == \A j \in Near(i) \cap rows : input.hash[j] >= input.hash[i]

\* The color of a row that sees these uncolored rows.  With level 2 a row that
\* is greatest and least takes either color.
Choice(i, rows) ==
    IF Greatest(i, rows)
    THEN IF input.level = 2 /\ Least(i, rows) /\ i % 2 = 0
         THEN num_colors + 1 ELSE num_colors
    ELSE IF Least(i, rows) THEN num_colors + 1 ELSE 0

Allowed(i) == {Choice(i, Uncolored \ over) : over \in SUBSET OneSided(i)}

Init ==
    /\ input \in Inputs
    /\ colors = [i \in Rows |-> 0]
    /\ num_colors = 1
    /\ finished = FALSE

Round ==
    /\ ~finished
    /\ Cardinality(Uncolored) > input.max_uncolored
    /\ colors' \in [Rows -> Nat]
    /\ \A i \in Rows \ Uncolored : colors'[i] = colors[i]
    /\ \A i \in Uncolored : colors'[i] \in Allowed(i)
    /\ \E i \in Uncolored : colors'[i] # 0
    /\ num_colors' = num_colors + 2
    /\ UNCHANGED <<input, finished>>

Finish ==
    /\ ~finished
    /\ Cardinality(Uncolored) <= input.max_uncolored
    /\ num_colors' = Max({colors[i] : i \in Rows} \cup {0}) + 1
    /\ finished' = TRUE
    /\ UNCHANGED <<input, colors>>

Next == Round \/ Finish

Spec == Init /\ [][Next]_vars
=============================================================================
