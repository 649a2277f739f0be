---------------------------- MODULE MinMaxColoring ----------------------------
(***************************************************************************)
(* The matrix coloring MIN_MAX, which multicolor smoothers use by default  *)
(* (matrix_coloring/min_max.cu): in each round a kernel colors rows whose  *)
(* hash is greater, or less, than that of all uncolored rows near them.    *)
(*                                                                         *)
(* With coloring level 1 a thread reads the colors of other rows while     *)
(* their threads write them: of a row that was colored since the kernel    *)
(* began it sees the color or none.  With level 2 one kernel reads colors, *)
(* and another writes them; each is one step.  Levels other than these are *)
(* an error, and columns beyond the rows of the view are skipped.          *)
(***************************************************************************)
EXTENDS Integers, FiniteSets, FiniteSetsExt

CONSTANTS
    Rows,         \* the rows of the view
    Inputs,       \* what to color
    INT_MIN,      \* the least and the greatest hash there may be
    INT_MAX

\* edges: the entries of the matrix among Rows, with or without diagonal.
\* hash: hash_function of a row, whose values may collide.  max_uncolored: how
\* many rows may stay uncolored.
ColoringAssumption ==
    /\ Rows \subseteq Nat
    /\ IsFiniteSet(Rows)
    /\ INT_MIN \in Int /\ INT_MAX \in Int
    /\ \A in \in Inputs :
         /\ in.edges \subseteq Rows \X Rows
         /\ in.level \in {1, 2}
         /\ in.max_uncolored \in Nat
         /\ in.hash \in [Rows -> Int]
         /\ \A i \in Rows : INT_MIN <= in.hash[i] /\ in.hash[i] <= INT_MAX
ASSUME ColoringAssumption

VARIABLES
    input,        \* the input of this behavior; it does not change
    kernel,       \* the kernel that runs, "host" between two
    threads,      \* the rows whose thread has not ended
    began,        \* the colors when this kernel began
    row_colors,   \* m_row_colors, 0 if uncolored
    max_hash,     \* max_hash_array and min_hash_array
    min_hash,
    num_colors    \* m_num_colors

arrays == <<max_hash, min_hash>>
vars == <<input, kernel, threads, began, row_colors, arrays, num_colors>>

Uncolored == {i \in Rows : row_colors[i] = 0}
Columns(i) == {j \in Rows : <<i, j>> \in input.edges}

-----------------------------------------------------------------------------
(* Coloring level 1. *)

\* What thread i may read: for rows colored in this kernel, either value.
Views(i) ==
    {[j \in Rows |-> IF j \in new THEN row_colors[j] ELSE began[j]] :
       new \in SUBSET {j \in Columns(i) : row_colors[j] # began[j]}}

\* Mutant: a row that has just taken the same color does not count.
ColorOfForgets(i, view) ==
    IF \A j \in Columns(i) : input.hash[j] > input.hash[i] => view[j] # 0
    THEN num_colors
    ELSE IF \A j \in Columns(i) :
              input.hash[j] < input.hash[i] => view[j] \notin {0, num_colors + 1}
         THEN num_colors + 1 ELSE 0

ColorOf(i, view) ==
    IF \A j \in Columns(i) :
         input.hash[j] > input.hash[i] => view[j] \notin {0, num_colors}
    THEN num_colors
    ELSE IF \A j \in Columns(i) :
              input.hash[j] < input.hash[i] => view[j] \notin {0, num_colors + 1}
         THEN num_colors + 1 ELSE 0

LaunchColorRows ==
    /\ kernel = "host"
    /\ Cardinality(Uncolored) > input.max_uncolored
    /\ input.level = 1
    /\ kernel' = "color"
    /\ threads' = Uncolored
    /\ UNCHANGED <<input, began, row_colors, arrays, num_colors>>

\* colorRowsKernel, the thread of an uncolored row.
ColorRow(i) ==
    /\ kernel = "color"
    /\ i \in threads
    /\ \E view \in Views(i) :
         row_colors' = [row_colors EXCEPT ![i] = ColorOf(i, view)]
    /\ threads' = threads \ {i}
    /\ UNCHANGED <<input, kernel, began, arrays, num_colors>>

EndColorRows ==
    /\ kernel = "color"
    /\ threads = {}
    /\ kernel' = "host"
    /\ began' = row_colors
    /\ num_colors' = num_colors + 2
    /\ UNCHANGED <<input, threads, row_colors, arrays>>

-----------------------------------------------------------------------------
(* Coloring level 2. *)

Highest(rows) ==
    IF rows = {} THEN INT_MIN
    ELSE LET i == CHOOSE i \in rows : \A j \in rows : input.hash[j] <= input.hash[i]
         IN input.hash[i]
Lowest(rows) ==
    IF rows = {} THEN INT_MAX
    ELSE LET i == CHOOSE i \in rows : \A j \in rows : input.hash[j] >= input.hash[i]
         IN input.hash[i]

\* find_min_max_neighbors_kernel: an uncolored row counts among its neighbors.
Around(i) == (Columns(i) \cup {i}) \cap Uncolored

FindMinMaxNeighbors ==
    /\ kernel = "host"
    /\ Cardinality(Uncolored) > input.max_uncolored
    /\ input.level = 2
    /\ max_hash' = [i \in Rows |-> Highest(Around(i))]
    /\ min_hash' = [i \in Rows |-> Lowest(Around(i))]
    /\ kernel' = "ring2"
    /\ UNCHANGED <<input, threads, began, row_colors, num_colors>>

\* Mutant: the row is not compared with its own neighbors.
RingTwoColorWithoutOwn(i) ==
    LET max_i == \A j \in Columns(i) : max_hash[j] <= max_hash[i]
        min_i == \A j \in Columns(i) : min_hash[j] >= min_hash[i]
    IN IF max_i /\ min_i
       THEN IF i % 2 = 1 THEN num_colors ELSE num_colors + 1
       ELSE IF max_i THEN num_colors
       ELSE IF min_i THEN num_colors + 1 ELSE 0

RingTwoColor(i) ==
    LET max_i == /\ input.hash[i] = max_hash[i]
                 /\ \A j \in Columns(i) : max_hash[j] <= max_hash[i]
        min_i == /\ input.hash[i] = min_hash[i]
                 /\ \A j \in Columns(i) : min_hash[j] >= min_hash[i]
    IN IF max_i /\ min_i
       THEN IF i % 2 = 1 THEN num_colors ELSE num_colors + 1
       ELSE IF max_i THEN num_colors
       ELSE IF min_i THEN num_colors + 1 ELSE 0

\* colorRowsRingTwoKernel: of other rows it reads the arrays only.
ColorRowsRingTwo ==
    /\ kernel = "ring2"
    /\ row_colors' = [i \in Rows |-> IF row_colors[i] # 0 THEN row_colors[i]
                                     ELSE RingTwoColor(i)]
    /\ began' = row_colors'
    /\ num_colors' = num_colors + 2
    /\ kernel' = "host"
    /\ UNCHANGED <<input, threads, arrays>>

-----------------------------------------------------------------------------

\* As many colors as the greatest one requires, and one for uncolored rows.
Finish ==
    /\ kernel = "host"
    /\ Cardinality(Uncolored) <= input.max_uncolored
    /\ num_colors' = Max({row_colors[i] : i \in Rows} \cup {0}) + 1
    /\ kernel' = "done"
    /\ UNCHANGED <<input, threads, began, row_colors, arrays>>

Done == kernel = "done" /\ UNCHANGED vars

Init ==
    /\ input \in Inputs
    /\ kernel = "host"
    /\ threads = {}
    /\ began = [i \in Rows |-> 0]
    /\ row_colors = [i \in Rows |-> 0]
    /\ max_hash = [i \in Rows |-> 0] /\ min_hash = [i \in Rows |-> 0]
    /\ num_colors = 1

Next ==
    \/ LaunchColorRows
    \/ \E i \in Rows : ColorRow(i)
    \/ EndColorRows
    \/ FindMinMaxNeighbors
    \/ ColorRowsRingTwo
    \/ Finish
    \/ Done

Spec == Init /\ [][Next]_vars

-----------------------------------------------------------------------------

\* Each variable holds what the declarations in the code allow.
TypeOK ==
    /\ input \in Inputs
    /\ kernel \in {"host", "color", "ring2", "done"}
    /\ threads \subseteq Rows
    /\ began \in [Rows -> Nat] /\ row_colors \in [Rows -> Nat]
    /\ max_hash \in [Rows -> Int] /\ min_hash \in [Rows -> Int]
    /\ num_colors \in Nat

\* Whatever the threads of a kernel see of each other, it does what one round
\* does, and each round colors a row, so that the loop ends; where entries have
\* their counterpart, the colors are a function of the matrix.
Rounds == INSTANCE ColoringRounds
            WITH colors <- began, finished <- kernel = "done"
ImplementsRounds == Rounds!Spec

\* Two rows that have each other near, at a distance of up to the coloring
\* level, and different hashes never have the same color ("0. leads to a
\* perfect coloring", core.cu).
Perfect ==
    \A i, j \in Rows :
      (/\ j \in Rounds!Near(i) /\ i \in Rounds!Near(j)
       /\ input.hash[i] # input.hash[j]
       /\ row_colors[i] # 0) => row_colors[i] # row_colors[j]
=============================================================================
