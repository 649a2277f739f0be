------------------------- MODULE MinMaxColoringProofs -------------------------
(***************************************************************************)
(* Min-max coloring is independent of the timing of threads, colors a row  *)
(* in every round, and gives rows that see each other different colors,    *)
(* for every matrix, hash and number of rows.                              *)
(*                                                                         *)
(* The argument: a thread can mistake an uncolored neighbor for one that   *)
(* does not count only if that neighbor has taken the color that its own   *)
(* hash being less, or greater, than the thread's excludes, if it sees the *)
(* thread's row.                                                           *)
(***************************************************************************)
EXTENDS MinMaxColoring, FiniteSetTheorems, WellFoundedInduction, TLAPS

\* What the threads of the kernel have done so far.
InKernel ==
  kernel = "color" =>
    /\ input.level = 1
    /\ Cardinality(Rounds!Uncolored) > input.max_uncolored
    /\ threads \subseteq Rounds!Uncolored
    /\ \A i \in Rows \ Rounds!Uncolored : row_colors[i] = began[i]
    /\ \A i \in threads : row_colors[i] = 0
    /\ \A i \in Rounds!Uncolored \ threads : row_colors[i] \in Rounds!Allowed(i)

\* What the first kernel of level 2 leaves for the second.
ArraysInv ==
  kernel = "ring2" =>
    /\ input.level = 2
    /\ Cardinality(Uncolored) > input.max_uncolored
    /\ max_hash = [i \in Rows |-> Highest(Around(i))]
    /\ min_hash = [i \in Rows |-> Lowest(Around(i))]

Settled == kernel # "color" => began = row_colors

Below == kernel # "done" => \A i \in Rows : began[i] < num_colors

\* Rows that see each other differ in these colors.
Apart(colors) ==
  \A i, j \in Rows :
    (/\ j \in Rounds!Near(i) /\ i \in Rounds!Near(j)
     /\ input.hash[i] # input.hash[j]
     /\ colors[i] # 0) => colors[i] # colors[j]

IInv == TypeOK /\ num_colors > 0 /\ InKernel /\ ArraysInv /\ Settled /\ Below /\ Apart(began)

-----------------------------------------------------------------------------
\* Hashes, and rows that have the greatest or the least of a set.

LEMMA HashFacts ==
  ASSUME TypeOK
  PROVE  /\ input.edges \subseteq Rows \X Rows
         /\ input.level \in {1, 2}
         /\ input.max_uncolored \in Nat
         /\ \A i \in Rows : /\ input.hash[i] \in Int
                            /\ INT_MIN <= input.hash[i]
                            /\ input.hash[i] <= INT_MAX
  BY ColoringAssumption DEF TypeOK, ColoringAssumption

\* Natural numbers that are bounded have a greatest one.
LEMMA GreatestNumber ==
  ASSUME NEW S \in SUBSET Int, S # {}, NEW n \in Int, \A s \in S : s <= n
  PROVE  \E s \in S : \A t \in S : t <= s
<1> DEFINE T == {n - s : s \in S}
<1>1. T \subseteq Nat /\ T # {}
  <2>1. \A s \in S : n - s \in Nat
    OBVIOUS
  <2>2. T # {}
    OBVIOUS
  <2> QED BY <2>1, <2>2
<1>2. PICK x \in T : \A y \in T : ~ (<<y, x>> \in OpToRel(<, Nat))
  <2> HIDE DEF T
  <2> QED BY <1>1, NatLessThanWellFounded, WFMin
<1>3. \A y \in T : ~ (y < x)
  <2> HIDE DEF T
  <2> QED BY <1>1, <1>2 DEF OpToRel
<1>4. PICK s \in S : x = n - s
  OBVIOUS
<1>5. ASSUME NEW t \in S PROVE t <= s
  <2>1. ~ (n - t < n - s)
    BY <1>3, <1>4
  <2>2. s \in Int /\ t \in Int
    OBVIOUS
  <2> HIDE DEF T
  <2> QED BY <2>1, <2>2
<1> HIDE DEF T
<1> QED BY <1>5, Zenon

LEMMA LeastNumber ==
  ASSUME NEW S \in SUBSET Int, S # {}, NEW n \in Int, \A s \in S : n <= s
  PROVE  \E s \in S : \A t \in S : s <= t
<1> DEFINE T == {-s : s \in S}
<1>1. T \in SUBSET Int /\ T # {} /\ -n \in Int /\ \A t \in T : t <= -n
  <2>1. \A s \in S : -s \in Int /\ -s <= -n
    OBVIOUS
  <2>2. T # {}
    OBVIOUS
  <2> QED BY <2>1, <2>2
<1>2. PICK x \in T : \A y \in T : y <= x
  <2> HIDE DEF T
  <2> QED BY <1>1, GreatestNumber
<1>3. PICK s \in S : x = -s
  OBVIOUS
<1>4. ASSUME NEW t \in S PROVE s <= t
  <2>1. -t <= -s
    BY <1>2, <1>3
  <2>2. s \in Int /\ t \in Int
    OBVIOUS
  <2> HIDE DEF T
  <2> QED BY ONLY <2>1, <2>2
<1> HIDE DEF T
<1> QED BY <1>4, Zenon

LEMMA SomeGreatest ==
  ASSUME TypeOK, NEW rows \in SUBSET Rows, rows # {}
  PROVE  /\ \E i \in rows : \A j \in rows : input.hash[j] <= input.hash[i]
         /\ \E i \in rows : \A j \in rows : input.hash[j] >= input.hash[i]
<1> DEFINE S == {input.hash[i] : i \in rows}
<1>1. /\ S \in SUBSET Int /\ S # {}
      /\ INT_MIN \in Int /\ \A s \in S : INT_MIN <= s
      /\ INT_MAX \in Int /\ \A s \in S : s <= INT_MAX
  <2>1. S # {}
    OBVIOUS
  <2>2. INT_MIN \in Int /\ INT_MAX \in Int
    BY ColoringAssumption DEF ColoringAssumption
  <2>3. \A i \in rows : /\ input.hash[i] \in Int
                        /\ INT_MIN <= input.hash[i] /\ input.hash[i] <= INT_MAX
    BY HashFacts
  <2> QED BY <2>1, <2>2, <2>3
<1>2. PICK g \in S : \A s \in S : s <= g
  <2> HIDE DEF S
  <2> QED BY <1>1, GreatestNumber
<1>3. PICK l \in S : \A s \in S : l <= s
  <2> HIDE DEF S
  <2> QED BY <1>1, LeastNumber
<1>4. \A i \in rows : input.hash[i] \in Int
  BY HashFacts
<1> QED BY <1>2, <1>3, <1>4

LEMMA HighestIs ==
  ASSUME TypeOK, NEW rows \in SUBSET Rows
  PROVE  /\ Highest(rows) \in Int
         /\ \A j \in rows : input.hash[j] <= Highest(rows)
         /\ Highest(rows) = INT_MIN \/ \E i \in rows : Highest(rows) = input.hash[i]
<1>1. CASE rows = {}
  BY <1>1, ColoringAssumption DEF Highest, ColoringAssumption
<1>2. CASE rows # {}
  <2> DEFINE top == CHOOSE i \in rows : \A j \in rows : input.hash[j] <= input.hash[i]
  <2>1. top \in rows /\ \A j \in rows : input.hash[j] <= input.hash[top]
    BY <1>2, SomeGreatest
  <2>2. Highest(rows) = input.hash[top]
    BY <1>2 DEF Highest
  <2> HIDE DEF top
  <2> QED BY <2>1, <2>2, HashFacts
<1> QED BY <1>1, <1>2

LEMMA LowestIs ==
  ASSUME TypeOK, NEW rows \in SUBSET Rows
  PROVE  /\ Lowest(rows) \in Int
         /\ \A j \in rows : input.hash[j] >= Lowest(rows)
         /\ Lowest(rows) = INT_MAX \/ \E i \in rows : Lowest(rows) = input.hash[i]
<1>1. CASE rows = {}
  BY <1>1, ColoringAssumption DEF Lowest, ColoringAssumption
<1>2. CASE rows # {}
  <2> DEFINE low == CHOOSE i \in rows : \A j \in rows : input.hash[j] >= input.hash[i]
  <2>1. low \in rows /\ \A j \in rows : input.hash[j] >= input.hash[low]
    BY <1>2, SomeGreatest
  <2>2. Lowest(rows) = input.hash[low]
    BY <1>2 DEF Lowest
  <2> HIDE DEF low
  <2> QED BY <2>1, <2>2, HashFacts
<1> QED BY <1>1, <1>2

LEMMA NearInRows ==
  ASSUME TypeOK, NEW i \in Rows
  PROVE  /\ Columns(i) = Rounds!Columns(i)
         /\ Columns(i) \subseteq Rows
         /\ Rounds!Near(i) \subseteq Rows
         /\ input.level = 1 => Rounds!Near(i) = Columns(i) \ {i}
         /\ Rounds!OneSided(i) \subseteq Rounds!Near(i)
         /\ \A j \in Rounds!Near(i) \ Rounds!OneSided(i) :
              input.level = 1 => i \in Rounds!Near(j)
<1>1. Columns(i) = Rounds!Columns(i) /\ Columns(i) \subseteq Rows
  BY DEF Columns, Rounds!Columns
<1>2. Rounds!Near(i) \subseteq Rows
  BY DEF Rounds!Near
<1>3. input.level = 1 => Rounds!Near(i) = Columns(i) \ {i}
  BY <1>1 DEF Rounds!Near
<1> QED BY <1>1, <1>2, <1>3 DEF Rounds!OneSided

-----------------------------------------------------------------------------
\* What a round does.

LEMMA ChoiceIs ==
  ASSUME TypeOK, num_colors > 0, NEW i \in Rows, NEW rows
  PROVE  /\ Rounds!Choice(i, rows) \in {0, num_colors, num_colors + 1}
         /\ Rounds!Choice(i, rows) = num_colors => Rounds!Greatest(i, rows)
         /\ Rounds!Choice(i, rows) = num_colors + 1 => Rounds!Least(i, rows)
         /\ Rounds!Greatest(i, rows) => Rounds!Choice(i, rows) # 0
<1>1. num_colors \in Nat
  BY DEF TypeOK
<1>2. CASE Rounds!Greatest(i, rows)
  BY <1>1, <1>2 DEF Rounds!Choice
<1>3. CASE ~Rounds!Greatest(i, rows)
  BY <1>1, <1>3 DEF Rounds!Choice
<1> QED BY <1>2, <1>3

\* A row that is taken by a round is greatest, or least, among those that see it.
LEMMA AllowedIs ==
  ASSUME TypeOK, num_colors > 0, NEW i \in Rows, NEW c \in Rounds!Allowed(i)
  PROVE  /\ c \in {0, num_colors, num_colors + 1}
         /\ \A j \in (Rounds!Near(i) \ Rounds!OneSided(i)) \cap Rounds!Uncolored :
              /\ c = num_colors => input.hash[j] <= input.hash[i]
              /\ c = num_colors + 1 => input.hash[j] >= input.hash[i]
<1>1. PICK over \in SUBSET Rounds!OneSided(i) :
        c = Rounds!Choice(i, Rounds!Uncolored \ over)
  BY DEF Rounds!Allowed
<1>2. /\ c \in {0, num_colors, num_colors + 1}
      /\ c = num_colors => Rounds!Greatest(i, Rounds!Uncolored \ over)
      /\ c = num_colors + 1 => Rounds!Least(i, Rounds!Uncolored \ over)
  BY <1>1, ChoiceIs
<1> QED BY <1>1, <1>2 DEF Rounds!Greatest, Rounds!Least

\* A round gives rows that see each other different colors.
LEMMA RoundKeepsApart ==
  ASSUME TypeOK, num_colors > 0, Below, kernel # "done", Apart(began), NEW c \in [Rows -> Nat],
         \A i \in Rows \ Rounds!Uncolored : c[i] = began[i],
         \A i \in Rounds!Uncolored : c[i] = 0 \/ c[i] \in Rounds!Allowed(i)
  PROVE  Apart(c)
<1> SUFFICES ASSUME NEW i \in Rows, NEW j \in Rows,
                    j \in Rounds!Near(i), i \in Rounds!Near(j),
                    input.hash[i] # input.hash[j], c[i] # 0, c[i] = c[j]
             PROVE  FALSE
  BY DEF Apart
<1>1. CASE i \notin Rounds!Uncolored /\ j \notin Rounds!Uncolored
  BY <1>1 DEF Apart
<1>2. CASE i \in Rounds!Uncolored /\ j \in Rounds!Uncolored
  <2>1. c[i] \in Rounds!Allowed(i) /\ c[j] \in Rounds!Allowed(j)
    BY <1>2
  <2>2. j \notin Rounds!OneSided(i) /\ i \notin Rounds!OneSided(j)
    BY DEF Rounds!OneSided
  <2>3. input.hash[i] \in Int /\ input.hash[j] \in Int
    BY HashFacts
  <2> QED BY <1>2, <2>1, <2>2, <2>3, AllowedIs
<1>3. ASSUME NEW k \in Rows, NEW l \in Rows, k \in Rounds!Uncolored,
             l \notin Rounds!Uncolored, c[k] # 0, c[k] = c[l]
      PROVE  FALSE
  <2>1. c[k] \in {num_colors, num_colors + 1}
    BY <1>3, AllowedIs
  <2>2. c[l] = began[l] /\ began[l] < num_colors
    BY <1>3 DEF Below
  <2> QED BY <2>1, <2>2, <1>3 DEF TypeOK
<1> QED BY <1>1, <1>2, <1>3

\* Among the uncolored rows there is one that every choice of a round colors.
LEMMA RoundColorsSome ==
  ASSUME TypeOK, num_colors > 0, Rounds!Uncolored # {}
  PROVE  \E i \in Rounds!Uncolored : 0 \notin Rounds!Allowed(i)
<1>1. PICK i \in Rounds!Uncolored :
        \A j \in Rounds!Uncolored : input.hash[j] <= input.hash[i]
  BY SomeGreatest DEF Rounds!Uncolored
<1>2. i \in Rows
  BY DEF Rounds!Uncolored
<1>3. ASSUME NEW over PROVE Rounds!Choice(i, Rounds!Uncolored \ over) # 0
  <2>1. Rounds!Greatest(i, Rounds!Uncolored \ over)
    BY <1>1 DEF Rounds!Greatest
  <2> QED BY <1>2, <2>1, ChoiceIs
<1> QED BY <1>1, <1>3 DEF Rounds!Allowed

LEMMA SomeAreUncolored ==
  ASSUME TypeOK, Cardinality(Rounds!Uncolored) > input.max_uncolored
  PROVE  Rounds!Uncolored # {}
<1>1. Cardinality({}) = 0
  BY FS_EmptySet
<1> QED BY <1>1, HashFacts

-----------------------------------------------------------------------------
\* Coloring level 1: what a thread may see of its neighbors.

LEMMA ViewIs ==
  ASSUME NEW i \in Rows, NEW view \in Views(i), NEW j \in Rows
  PROVE  view[j] = began[j] \/ view[j] = row_colors[j]
BY DEF Views

\* A neighbor that was uncolored when the kernel began and that the thread does
\* not count, although its hash is greater, or less, does not see the thread.
LEMMA OverlookedIsOneSided ==
  ASSUME IInv, kernel = "color", NEW i \in threads, NEW view \in Views(i),
         NEW j \in Columns(i), j \in Rounds!Uncolored,
         \/ /\ input.hash[j] > input.hash[i]
            /\ view[j] \notin {0, num_colors}
         \/ /\ input.hash[j] < input.hash[i]
            /\ view[j] \notin {0, num_colors + 1}
  PROVE  j \in Rounds!OneSided(i)
<1> USE DEF IInv
<1>1. i \in Rows /\ i \in Rounds!Uncolored /\ input.level = 1
  BY DEF InKernel, Rounds!Uncolored
<1>2. j \in Rows /\ input.hash[j] \in Int /\ input.hash[i] \in Int
  BY <1>1, NearInRows, HashFacts
<1>3. j \in Rounds!Near(i)
  <2>1. j # i
    BY <1>2
  <2> QED BY <1>1, <2>1, NearInRows
<1>4. began[j] = 0
  BY DEF Rounds!Uncolored
<1>5. view[j] = row_colors[j] /\ row_colors[j] # 0
  BY <1>1, <1>2, <1>4, ViewIs
<1>6. row_colors[j] \in Rounds!Allowed(j)
  BY <1>5 DEF InKernel
<1> SUFFICES ASSUME i \in Rounds!Near(j)
             PROVE  FALSE
  BY <1>1, <1>3 DEF Rounds!OneSided
<1>7. i \in (Rounds!Near(j) \ Rounds!OneSided(j)) \cap Rounds!Uncolored
  BY <1>1, <1>3 DEF Rounds!OneSided
<1> QED BY <1>2, <1>5, <1>6, <1>7, AllowedIs

\* A thread takes a color that a round allows.
LEMMA ColorIsAllowed ==
  ASSUME IInv, kernel = "color", NEW i \in threads, NEW view \in Views(i)
  PROVE  ColorOf(i, view) \in Rounds!Allowed(i)
<1> USE DEF IInv
<1> DEFINE max == \A j \in Columns(i) :
                    input.hash[j] > input.hash[i] => view[j] \notin {0, num_colors}
           min == \A j \in Columns(i) :
                    input.hash[j] < input.hash[i] => view[j] \notin {0, num_colors + 1}
           over == Rounds!OneSided(i) \cap
                     {j \in Rows :
                        \/ /\ input.hash[j] > input.hash[i]
                           /\ view[j] \notin {0, num_colors}
                        \/ /\ input.hash[j] < input.hash[i]
                           /\ view[j] \notin {0, num_colors + 1}}
<1>1. i \in Rows /\ i \in Rounds!Uncolored /\ input.level = 1
  BY DEF InKernel, Rounds!Uncolored
<1>2. Rounds!Near(i) = Columns(i) \ {i} /\ Columns(i) \subseteq Rows
  BY <1>1, NearInRows
<1>3. \A j \in Rows : input.hash[j] \in Int
  BY HashFacts
<1>4. num_colors \in Nat
  BY DEF TypeOK
<1>5. \A j \in Rows \ Rounds!Uncolored :
        view[j] = began[j] /\ began[j] # 0 /\ began[j] < num_colors
  BY <1>1, ViewIs DEF InKernel, Rounds!Uncolored, Below
<1>6. \A j \in Rows : began[j] \in Nat
  BY DEF TypeOK
<1>7. \A j \in Columns(i) \cap Rounds!Uncolored :
        /\ input.hash[j] > input.hash[i] /\ view[j] \notin {0, num_colors}
             => j \in over
        /\ input.hash[j] < input.hash[i] /\ view[j] \notin {0, num_colors + 1}
             => j \in over
  BY <1>2, OverlookedIsOneSided
<1>8. max <=> Rounds!Greatest(i, Rounds!Uncolored \ over)
  <2>1. ASSUME max, NEW j \in Rounds!Near(i) \cap (Rounds!Uncolored \ over)
        PROVE  input.hash[j] <= input.hash[i]
    BY <1>1, <1>2, <1>3, <1>7, <2>1
  <2>2. ASSUME Rounds!Greatest(i, Rounds!Uncolored \ over),
               NEW j \in Columns(i), input.hash[j] > input.hash[i]
        PROVE  view[j] \notin {0, num_colors}
    <3>1. j \in Rounds!Near(i) /\ j \in Rows
      BY <1>1, <1>2, <1>3, <2>2
    <3>2. CASE j \in Rounds!Uncolored
      <4>1. j \in over
        BY <1>1, <1>3, <2>2, <3>1, <3>2 DEF Rounds!Greatest
      <4> QED BY <1>1, <1>3, <2>2, <3>1, <4>1
    <3>3. CASE j \notin Rounds!Uncolored
      BY <1>4, <1>5, <1>6, <3>1, <3>3
    <3> QED BY <3>2, <3>3
  <2> QED BY <2>1, <2>2 DEF Rounds!Greatest
<1>9. min <=> Rounds!Least(i, Rounds!Uncolored \ over)
  <2>1. ASSUME min, NEW j \in Rounds!Near(i) \cap (Rounds!Uncolored \ over)
        PROVE  input.hash[j] >= input.hash[i]
    BY <1>1, <1>2, <1>3, <1>7, <2>1
  <2>2. ASSUME Rounds!Least(i, Rounds!Uncolored \ over),
               NEW j \in Columns(i), input.hash[j] < input.hash[i]
        PROVE  view[j] \notin {0, num_colors + 1}
    <3>1. j \in Rounds!Near(i) /\ j \in Rows
      BY <1>1, <1>2, <1>3, <2>2
    <3>2. CASE j \in Rounds!Uncolored
      <4>1. j \in over
        BY <1>1, <1>3, <2>2, <3>1, <3>2 DEF Rounds!Least
      <4> QED BY <1>1, <1>3, <2>2, <3>1, <4>1
    <3>3. CASE j \notin Rounds!Uncolored
      BY <1>4, <1>5, <1>6, <3>1, <3>3
    <3> QED BY <3>2, <3>3
  <2> QED BY <2>1, <2>2 DEF Rounds!Least
<1>10. ColorOf(i, view) = IF max THEN num_colors
                          ELSE IF min THEN num_colors + 1 ELSE 0
  BY DEF ColorOf
<1>11. over \in SUBSET Rounds!OneSided(i)
  OBVIOUS
<1> HIDE DEF max, min, over
<1>12. ColorOf(i, view) = Rounds!Choice(i, Rounds!Uncolored \ over)
  BY <1>1, <1>8, <1>9, <1>10 DEF Rounds!Choice
<1> QED BY <1>11, <1>12 DEF Rounds!Allowed

-----------------------------------------------------------------------------
\* Coloring level 2: the arrays hold what is needed of neighbors' neighbors.

LEMMA ArraysTell ==
  ASSUME IInv, kernel = "ring2", NEW i \in Uncolored
  PROVE  /\ (/\ input.hash[i] = max_hash[i]
             /\ \A j \in Columns(i) : max_hash[j] <= max_hash[i])
           <=> Rounds!Greatest(i, Uncolored)
         /\ (/\ input.hash[i] = min_hash[i]
             /\ \A j \in Columns(i) : min_hash[j] >= min_hash[i])
           <=> Rounds!Least(i, Uncolored)
<1> USE DEF IInv
<1>1. i \in Rows /\ Columns(i) \subseteq Rows
  BY NearInRows DEF Uncolored
<1>2. Rounds!Near(i) = {j \in Rows \ {i} : j \in Columns(i)
                            \/ \E k \in Columns(i) : j \in Columns(k)}
  <2>1. \A j \in Rows : Columns(j) = Rounds!Columns(j)
    BY DEF Columns, Rounds!Columns
  <2>2. input.level = 2
    BY DEF ArraysInv
  <2> QED BY <1>1, <2>1, <2>2 DEF Rounds!Near
<1>3. /\ INT_MIN \in Int /\ INT_MAX \in Int
      /\ \A j \in Rows : /\ input.hash[j] \in Int
                         /\ INT_MIN <= input.hash[j] /\ input.hash[j] <= INT_MAX
  BY ColoringAssumption, HashFacts DEF ColoringAssumption
<1>4. \A k \in Columns(i) \cup {i} : \A m \in Around(k) :
        m \in Rows /\ (m = i \/ m \in Rounds!Near(i) \cap Uncolored)
  BY <1>1, <1>2 DEF Around, Uncolored
<1>5. \A j \in Rounds!Near(i) \cap Uncolored :
        \E k \in Columns(i) \cup {i} : j \in Around(k)
  BY <1>2 DEF Around
<1>6. i \in Around(i)
  BY DEF Around
<1>7. \A k \in Rows : /\ max_hash[k] \in Int
                      /\ \A j \in Around(k) : input.hash[j] <= max_hash[k]
                      /\ \/ max_hash[k] = INT_MIN
                         \/ \E m \in Around(k) : max_hash[k] = input.hash[m]
  <2>1. \A k \in Rows : max_hash[k] = Highest(Around(k)) /\ Around(k) \in SUBSET Rows
    BY DEF ArraysInv, Around, Uncolored
  <2> QED BY <2>1, HighestIs
<1>8. \A k \in Rows : /\ min_hash[k] \in Int
                      /\ \A j \in Around(k) : input.hash[j] >= min_hash[k]
                      /\ \/ min_hash[k] = INT_MAX
                         \/ \E m \in Around(k) : min_hash[k] = input.hash[m]
  <2>1. \A k \in Rows : min_hash[k] = Lowest(Around(k)) /\ Around(k) \in SUBSET Rows
    BY DEF ArraysInv, Around, Uncolored
  <2> QED BY <2>1, LowestIs
<1>9. ASSUME input.hash[i] = max_hash[i],
             \A j \in Columns(i) : max_hash[j] <= max_hash[i]
      PROVE  Rounds!Greatest(i, Uncolored)
  <2> SUFFICES ASSUME NEW j \in Rounds!Near(i) \cap Uncolored
               PROVE  input.hash[j] <= input.hash[i]
    BY DEF Rounds!Greatest
  <2>1. PICK k \in Columns(i) \cup {i} : j \in Around(k)
    BY <1>5
  <2>2. j \in Rows /\ k \in Rows /\ max_hash[k] <= max_hash[i]
    BY <1>1, <1>7, <1>9 DEF Uncolored
  <2> QED BY <1>1, <1>3, <1>7, <1>9, <2>1, <2>2
<1>10. ASSUME Rounds!Greatest(i, Uncolored), NEW k \in Columns(i) \cup {i}
       PROVE  max_hash[k] <= input.hash[i]
  <2>1. \A m \in Around(k) : input.hash[m] <= input.hash[i]
    BY <1>1, <1>3, <1>4, <1>10 DEF Rounds!Greatest
  <2> QED BY <1>1, <1>3, <1>7, <2>1
<1>11. ASSUME input.hash[i] = min_hash[i],
              \A j \in Columns(i) : min_hash[j] >= min_hash[i]
       PROVE  Rounds!Least(i, Uncolored)
  <2> SUFFICES ASSUME NEW j \in Rounds!Near(i) \cap Uncolored
               PROVE  input.hash[j] >= input.hash[i]
    BY DEF Rounds!Least
  <2>1. PICK k \in Columns(i) \cup {i} : j \in Around(k)
    BY <1>5
  <2>2. j \in Rows /\ k \in Rows /\ min_hash[k] >= min_hash[i]
    BY <1>1, <1>8, <1>11 DEF Uncolored
  <2> QED BY <1>1, <1>3, <1>8, <1>11, <2>1, <2>2
<1>12. ASSUME Rounds!Least(i, Uncolored), NEW k \in Columns(i) \cup {i}
       PROVE  min_hash[k] >= input.hash[i]
  <2>1. \A m \in Around(k) : input.hash[m] >= input.hash[i]
    BY <1>1, <1>3, <1>4, <1>12 DEF Rounds!Least
  <2> QED BY <1>1, <1>3, <1>8, <2>1
<1>13. Rounds!Greatest(i, Uncolored) =>
         /\ input.hash[i] = max_hash[i]
         /\ \A j \in Columns(i) : max_hash[j] <= max_hash[i]
  BY <1>1, <1>3, <1>6, <1>7, <1>10
<1>14. Rounds!Least(i, Uncolored) =>
         /\ input.hash[i] = min_hash[i]
         /\ \A j \in Columns(i) : min_hash[j] >= min_hash[i]
  BY <1>1, <1>3, <1>6, <1>8, <1>12
<1> QED BY <1>9, <1>11, <1>13, <1>14

LEMMA RingTwoIsAllowed ==
  ASSUME IInv, kernel = "ring2", NEW i \in Uncolored
  PROVE  RingTwoColor(i) \in Rounds!Allowed(i)
<1> USE DEF IInv
<1> DEFINE g == Rounds!Greatest(i, Uncolored)
           l == Rounds!Least(i, Uncolored)
<1>1. i \in Nat /\ input.level = 2 /\ Uncolored = Rounds!Uncolored
  BY ColoringAssumption
  DEF ColoringAssumption, ArraysInv, Settled, Uncolored, Rounds!Uncolored
<1>2. RingTwoColor(i) = IF g /\ l THEN IF i % 2 = 1 THEN num_colors ELSE num_colors + 1
                        ELSE IF g THEN num_colors
                        ELSE IF l THEN num_colors + 1 ELSE 0
  BY ArraysTell DEF RingTwoColor
<1>3. Rounds!Choice(i, Uncolored) = IF g THEN IF l /\ i % 2 = 0 THEN num_colors + 1
                                             ELSE num_colors
                                    ELSE IF l THEN num_colors + 1 ELSE 0
  BY <1>1 DEF Rounds!Choice
<1>4. i % 2 = 0 \/ i % 2 = 1
  BY <1>1
<1> HIDE DEF g, l
<1>5. RingTwoColor(i) = Rounds!Choice(i, Uncolored)
  BY <1>1, <1>2, <1>3, <1>4
<1>6. Uncolored \ {} = Uncolored /\ {} \in SUBSET Rounds!OneSided(i)
  OBVIOUS
<1> QED BY <1>1, <1>5, <1>6 DEF Rounds!Allowed

-----------------------------------------------------------------------------
\* Each round is one of the abstract coloring.

LEMMA SameCardinality == \A S : Rounds!Cardinality(S) = Cardinality(S)
  BY DEF Rounds!Cardinality, Cardinality

LEMMA SameMax == \A S : Rounds!Max(S) = Max(S)
  BY DEF Rounds!Max, Max

LEMMA ColorRowsIsRound ==
  ASSUME IInv, EndColorRows
  PROVE  Rounds!Round
<1> USE DEF IInv, EndColorRows
<1>1. /\ Cardinality(Rounds!Uncolored) > input.max_uncolored
      /\ \A i \in Rows \ Rounds!Uncolored : row_colors[i] = began[i]
      /\ \A i \in Rounds!Uncolored : row_colors[i] \in Rounds!Allowed(i)
  BY DEF InKernel
<1>2. \E i \in Rounds!Uncolored : row_colors[i] # 0
  BY <1>1, SomeAreUncolored, RoundColorsSome
<1>3. ~(kernel = "done") /\ ~(kernel' = "done")
  OBVIOUS
<1> QED BY <1>1, <1>2, <1>3, SameCardinality DEF Rounds!Round, TypeOK

LEMMA RingTwoIsRound ==
  ASSUME IInv, ColorRowsRingTwo
  PROVE  /\ Rounds!Round
         /\ row_colors' \in [Rows -> Nat]
<1> USE DEF IInv, ColorRowsRingTwo
<1>1. began = row_colors /\ Uncolored = Rounds!Uncolored
  BY DEF Settled, Uncolored, Rounds!Uncolored
<1>2. Cardinality(Rounds!Uncolored) > input.max_uncolored
  BY <1>1 DEF ArraysInv
<1>3. \A i \in Rows \ Rounds!Uncolored : row_colors'[i] = began[i]
  BY <1>1 DEF Rounds!Uncolored
<1>4. \A i \in Rounds!Uncolored : row_colors'[i] \in Rounds!Allowed(i)
  BY <1>1, RingTwoIsAllowed DEF Uncolored
<1>5. \E i \in Rounds!Uncolored : row_colors'[i] # 0
  BY <1>2, <1>4, SomeAreUncolored, RoundColorsSome
<1>6. row_colors' \in [Rows -> Nat]
  <2>1. \A i \in Uncolored : RingTwoColor(i) \in Nat
    BY DEF RingTwoColor, TypeOK
  <2> QED BY <2>1 DEF TypeOK, Uncolored
<1>7. ~(kernel = "done") /\ ~(kernel' = "done")
  OBVIOUS
<1> QED BY <1>1, <1>2, <1>3, <1>4, <1>5, <1>6, <1>7, SameCardinality DEF Rounds!Round

-----------------------------------------------------------------------------
\* The invariant.

LEMMA NearUnchanged ==
  ASSUME UNCHANGED input
  PROVE  \A i \in Rows : Rounds!Near(i)' = Rounds!Near(i)
<1>1. \A i \in Rows : Rounds!Columns(i)' = Rounds!Columns(i)
  BY DEF Rounds!Columns
<1> SUFFICES ASSUME NEW i \in Rows, NEW j \in Rows
             PROVE  j \in Rounds!Near(i)' <=> j \in Rounds!Near(i)
  BY DEF Rounds!Near
<1>2. Rounds!Columns(i) \subseteq Rows
  BY DEF Rounds!Columns
<1> QED BY <1>1, <1>2 DEF Rounds!Near

LEMMA ApartUnchanged ==
  ASSUME UNCHANGED input, Apart(began')
  PROVE  Apart(began)'
  BY NearUnchanged DEF Apart

LEMMA AllowedUnchanged ==
  ASSUME UNCHANGED <<input, num_colors>>, Rounds!Uncolored' = Rounds!Uncolored
  PROVE  \A i \in Rows : Rounds!Allowed(i)' = Rounds!Allowed(i)
<1> SUFFICES ASSUME NEW i \in Rows
             PROVE  Rounds!Allowed(i)' = Rounds!Allowed(i)
  OBVIOUS
<1>1. Rounds!Near(i)' = Rounds!Near(i)
  BY NearUnchanged
<1>2. Rounds!OneSided(i)' = Rounds!OneSided(i)
  <2>1. Rounds!Near(i) \subseteq Rows
    BY DEF Rounds!Near
  <2> QED BY <2>1, NearUnchanged DEF Rounds!OneSided
<1>3. \A rows : /\ Rounds!Greatest(i, rows)' <=> Rounds!Greatest(i, rows)
                /\ Rounds!Least(i, rows)' <=> Rounds!Least(i, rows)
  BY <1>1 DEF Rounds!Greatest, Rounds!Least
<1>4. \A over : Rounds!Choice(i, Rounds!Uncolored \ over)'
                  = Rounds!Choice(i, Rounds!Uncolored \ over)
  BY <1>3, <1>1 DEF Rounds!Choice, Rounds!Greatest, Rounds!Least
<1> QED BY <1>2, <1>4 DEF Rounds!Allowed

LEMMA HighestUnchanged ==
  ASSUME UNCHANGED <<input, row_colors>>
  PROVE  \A i \in Rows : /\ Highest(Around(i))' = Highest(Around(i))
                        /\ Lowest(Around(i))' = Lowest(Around(i))
<1>1. \A i \in Rows : Around(i)' = Around(i)
  BY DEF Around, Columns, Uncolored
<1> SUFFICES ASSUME NEW i \in Rows
             PROVE  /\ Highest(Around(i))' = Highest(Around(i))
                    /\ Lowest(Around(i))' = Lowest(Around(i))
  OBVIOUS
<1>2. Around(i)' = Around(i)
  BY <1>1
<1>3. Highest(Around(i))' = Highest(Around(i))
  BY <1>2 DEF Highest
<1>4. Lowest(Around(i))' = Lowest(Around(i))
  BY <1>2 DEF Lowest
<1> QED BY <1>3, <1>4

LEMMA InitIInv == Init => IInv
<1> SUFFICES ASSUME Init PROVE IInv
  OBVIOUS
<1>1. TypeOK /\ num_colors > 0
  BY DEF Init, TypeOK
<1>2. InKernel /\ ArraysInv /\ Settled
  BY DEF Init, InKernel, ArraysInv, Settled
<1>3. Below /\ Apart(began)
  BY DEF Init, Below, Apart
<1> QED BY <1>1, <1>2, <1>3 DEF IInv

\* After a round all colors are below those of the next.
LEMMA RoundKeepsBelow ==
  ASSUME TypeOK, num_colors > 0, Below, kernel # "done",
         NEW c \in [Rows -> Nat],
         \A i \in Rows \ Rounds!Uncolored : c[i] = began[i],
         \A i \in Rounds!Uncolored : c[i] \in Rounds!Allowed(i)
  PROVE  \A i \in Rows : c[i] < num_colors + 2
<1> SUFFICES ASSUME NEW i \in Rows PROVE c[i] < num_colors + 2
  OBVIOUS
<1>1. num_colors \in Nat /\ began[i] \in Nat
  BY DEF TypeOK
<1>2. CASE i \in Rounds!Uncolored
  BY <1>1, <1>2, AllowedIs
<1>3. CASE i \notin Rounds!Uncolored
  BY <1>1, <1>3 DEF Below
<1> QED BY <1>2, <1>3

LEMMA LaunchKeeps == IInv /\ LaunchColorRows => IInv'
<1> SUFFICES ASSUME IInv, LaunchColorRows PROVE IInv'
  OBVIOUS
<1> USE DEF LaunchColorRows, IInv
<1>1. began = row_colors /\ Uncolored = Rounds!Uncolored
  BY DEF Settled, Uncolored, Rounds!Uncolored
<1>2. TypeOK' /\ num_colors' > 0
  BY DEF TypeOK, Uncolored, arrays
<1>3. Rounds!Uncolored' = Rounds!Uncolored
  BY DEF Rounds!Uncolored
<1>4. InKernel'
  BY <1>1, <1>3 DEF InKernel, Uncolored
<1>5. ArraysInv' /\ Settled' /\ Below'
  BY DEF ArraysInv, Settled, Below
<1>6. Apart(began)'
  BY ApartUnchanged
<1> QED BY <1>2, <1>4, <1>5, <1>6

LEMMA ColorRowKeeps ==
  ASSUME IInv, NEW i \in Rows, ColorRow(i)
  PROVE  IInv'
<1> USE DEF ColorRow, IInv
<1>1. PICK view \in Views(i) :
        row_colors' = [row_colors EXCEPT ![i] = ColorOf(i, view)]
  OBVIOUS
<1>2. ColorOf(i, view) \in Rounds!Allowed(i) /\ ColorOf(i, view) \in Nat
  BY ColorIsAllowed DEF ColorOf, TypeOK
<1>3. TypeOK' /\ num_colors' > 0
  BY <1>1, <1>2 DEF TypeOK, arrays
<1>4. /\ Rounds!Uncolored' = Rounds!Uncolored
      /\ i \in Rounds!Uncolored
  BY DEF Rounds!Uncolored, InKernel
<1>5. \A j \in Rows : Rounds!Allowed(j)' = Rounds!Allowed(j)
  BY <1>4, AllowedUnchanged
<1>6. InKernel'
  <2>1. \A j \in Rows : row_colors'[j] =
          IF j = i THEN ColorOf(i, view) ELSE row_colors[j]
    BY <1>1 DEF TypeOK
  <2>2. Rounds!Uncolored \subseteq Rows
    BY DEF Rounds!Uncolored
  <2> QED BY <1>2, <1>4, <1>5, <2>1, <2>2 DEF InKernel, TypeOK
<1>7. ArraysInv' /\ Settled' /\ Below'
  BY DEF ArraysInv, Settled, Below
<1>8. Apart(began)'
  BY ApartUnchanged
<1> QED BY <1>3, <1>6, <1>7, <1>8

LEMMA EndColorRowsKeeps == IInv /\ EndColorRows => IInv'
<1> SUFFICES ASSUME IInv, EndColorRows PROVE IInv'
  OBVIOUS
<1> USE DEF EndColorRows, IInv
<1>1. /\ row_colors \in [Rows -> Nat]
      /\ \A i \in Rows \ Rounds!Uncolored : row_colors[i] = began[i]
      /\ \A i \in Rounds!Uncolored : row_colors[i] \in Rounds!Allowed(i)
  BY DEF InKernel, TypeOK
<1>2. TypeOK' /\ num_colors' > 0
  BY DEF TypeOK, arrays
<1>3. InKernel' /\ ArraysInv' /\ Settled'
  BY DEF InKernel, ArraysInv, Settled
<1>4. Below'
  BY <1>1, RoundKeepsBelow DEF Below
<1>5. Apart(row_colors)
  BY <1>1, RoundKeepsApart
<1>6. Apart(began)'
  BY <1>5, ApartUnchanged
<1> QED BY <1>2, <1>3, <1>4, <1>6

LEMMA NeighborsKeeps == IInv /\ FindMinMaxNeighbors => IInv'
<1> SUFFICES ASSUME IInv, FindMinMaxNeighbors PROVE IInv'
  OBVIOUS
<1> USE DEF FindMinMaxNeighbors, IInv
<1>1. TypeOK' /\ num_colors' > 0
  <2>1. \A i \in Rows : Around(i) \in SUBSET Rows
    BY DEF Around, Uncolored
  <2>2. \A i \in Rows : Highest(Around(i)) \in Int /\ Lowest(Around(i)) \in Int
    BY <2>1, HighestIs, LowestIs
  <2> QED BY <2>2 DEF TypeOK
<1>2. InKernel' /\ Settled' /\ Below'
  BY DEF InKernel, Settled, Below
<1>3. ArraysInv'
  BY HighestUnchanged DEF ArraysInv, Uncolored
<1>4. Apart(began)'
  BY ApartUnchanged
<1> QED BY <1>1, <1>2, <1>3, <1>4

LEMMA RingTwoKeeps == IInv /\ ColorRowsRingTwo => IInv'
<1> SUFFICES ASSUME IInv, ColorRowsRingTwo PROVE IInv'
  OBVIOUS
<1>1. /\ row_colors' \in [Rows -> Nat]
      /\ \A i \in Rows \ Rounds!Uncolored : row_colors'[i] = began[i]
      /\ \A i \in Rounds!Uncolored : row_colors'[i] \in Rounds!Allowed(i)
  BY RingTwoIsRound DEF Rounds!Round, ColorRowsRingTwo
<1> USE DEF ColorRowsRingTwo, IInv
<1>2. TypeOK' /\ num_colors' > 0
  BY <1>1 DEF TypeOK, arrays
<1>3. InKernel' /\ ArraysInv' /\ Settled'
  BY DEF InKernel, ArraysInv, Settled
<1>4. \A i \in Rows : row_colors'[i] < num_colors + 2
  BY <1>1, RoundKeepsBelow
<1>5. Below'
  BY <1>4 DEF Below
<1>6. \A c \in [Rows -> Nat] :
        /\ \A i \in Rows \ Rounds!Uncolored : c[i] = began[i]
        /\ \A i \in Rounds!Uncolored : c[i] \in Rounds!Allowed(i)
        => Apart(c)
  BY RoundKeepsApart
<1>7. Apart(row_colors')
  BY <1>1, <1>6
<1>8. Apart(began)'
  BY <1>7, ApartUnchanged
<1> QED BY <1>2, <1>3, <1>5, <1>8

LEMMA StutterKeeps == IInv /\ UNCHANGED vars => IInv'
<1> SUFFICES ASSUME IInv, UNCHANGED vars PROVE IInv'
  OBVIOUS
<1> USE DEF vars, arrays, IInv
<1>1. TypeOK' /\ num_colors' > 0 /\ Settled' /\ Below'
  BY DEF TypeOK, Settled, Below
<1>2. Rounds!Uncolored' = Rounds!Uncolored
  BY DEF Rounds!Uncolored
<1>3. \A j \in Rows : Rounds!Allowed(j)' = Rounds!Allowed(j)
  BY <1>2, AllowedUnchanged
<1>4. InKernel'
  BY <1>2, <1>3 DEF InKernel, Rounds!Uncolored
<1>5. ArraysInv'
  BY HighestUnchanged DEF ArraysInv, Uncolored
<1>6. Apart(began)'
  BY ApartUnchanged
<1> QED BY <1>1, <1>4, <1>5, <1>6

LEMMA FinishKeeps == IInv /\ Finish => IInv'
<1> SUFFICES ASSUME IInv, Finish PROVE IInv'
  OBVIOUS
<1> USE DEF Finish, IInv
<1> DEFINE S == {row_colors[i] : i \in Rows} \cup {0}
<1>1. num_colors' \in Nat /\ num_colors' > 0
  <2>1. S \in SUBSET Nat /\ 0 \in S /\ \A s \in S : s <= num_colors
    BY DEF TypeOK, Settled, Below
  <2>2. num_colors \in Int
    BY DEF TypeOK
  <2> HIDE DEF S
  <2>3. \E s \in S : \A t \in S : s >= t
    <3>1. S \in SUBSET Int /\ S # {}
      BY <2>1
    <3>2. PICK s \in S : \A t \in S : t <= s
      BY <2>1, <2>2, <3>1, GreatestNumber
    <3> QED BY <2>1, <3>2
  <2>4. Max(S) \in S /\ \A t \in S : Max(S) >= t
    BY <2>3 DEF Max
  <2>5. Max(S) \in Nat
    BY <2>1, <2>4
  <2>6. num_colors' = Max(S) + 1
    BY DEF S
  <2> QED BY <2>5, <2>6
<1>2. TypeOK'
  BY <1>1 DEF TypeOK, arrays
<1>3. InKernel' /\ ArraysInv' /\ Settled' /\ Below'
  BY DEF InKernel, ArraysInv, Settled, Below
<1>4. Apart(began)'
  BY ApartUnchanged
<1> QED BY <1>1, <1>2, <1>3, <1>4

\* The inductive invariant: what the threads of the running kernel have done is
\* what a round from the colors at its beginning allows them.
THEOREM ColoringInvariant == Spec => []IInv
<1>1. Init => IInv
  BY InitIInv
<1>2. IInv /\ [Next]_vars => IInv'
  BY LaunchKeeps, ColorRowKeeps, EndColorRowsKeeps, NeighborsKeeps, RingTwoKeeps,
     FinishKeeps, StutterKeeps
  DEF Next, Done
<1> QED BY <1>1, <1>2, PTL DEF Spec

\* Variables keep their types: color numbers, counts and arrays.
THEOREM ColoringTypeCorrect == Spec => []TypeOK
<1>1. IInv => TypeOK
  BY DEF IInv
<1> QED BY <1>1, ColoringInvariant, PTL

LEMMA InvIsPerfect == IInv => Perfect
<1> SUFFICES ASSUME IInv PROVE Perfect
  OBVIOUS
<1> USE DEF IInv
<1>1. CASE kernel = "color"
  <2>1. \A i \in Rounds!Uncolored : row_colors[i] = 0 \/ row_colors[i] \in Rounds!Allowed(i)
    BY <1>1 DEF InKernel
  <2>2. row_colors \in [Rows -> Nat] /\ \A i \in Rows \ Rounds!Uncolored : row_colors[i] = began[i]
    BY <1>1 DEF InKernel, TypeOK
  <2>3. Apart(row_colors)
    BY <1>1, <2>1, <2>2, RoundKeepsApart
  <2> QED BY <2>3 DEF Apart, Perfect
<1>2. CASE kernel # "color"
  BY <1>2 DEF Settled, Apart, Perfect
<1> QED BY <1>1, <1>2

\* Rows that have each other near, with different hashes, never have the same
\* color, neither in the end nor while the threads of a kernel write.
THEOREM AlwaysPerfect == Spec => []Perfect
  BY InvIsPerfect, ColoringInvariant, PTL

LEMMA StepRefines == IInv /\ [Next]_vars => [Rounds!Next]_(Rounds!vars)
<1> SUFFICES ASSUME IInv, [Next]_vars
             PROVE  Rounds!Next \/ UNCHANGED Rounds!vars
  OBVIOUS
<1>1. CASE LaunchColorRows
  BY <1>1 DEF LaunchColorRows, Rounds!vars
<1>2. ASSUME NEW i \in Rows, ColorRow(i) PROVE UNCHANGED Rounds!vars
  BY <1>2 DEF ColorRow, Rounds!vars
<1>3. CASE EndColorRows
  BY <1>3, ColorRowsIsRound DEF Rounds!Next
<1>4. CASE FindMinMaxNeighbors
  BY <1>4 DEF FindMinMaxNeighbors, Rounds!vars
<1>5. CASE ColorRowsRingTwo
  BY <1>5, RingTwoIsRound DEF Rounds!Next
<1>6. CASE Finish
  <2> USE <1>6 DEF Finish
  <2>1. began = row_colors /\ Uncolored = Rounds!Uncolored
    BY DEF IInv, Settled, Uncolored, Rounds!Uncolored
  <2>2. ~(kernel = "done") /\ (kernel' = "done")
    OBVIOUS
  <2>3. Rounds!Finish
    BY <2>1, <2>2, SameCardinality, SameMax DEF Rounds!Finish
  <2> QED BY <2>3 DEF Rounds!Next
<1>7. CASE UNCHANGED vars
  BY <1>7 DEF vars, Rounds!vars
<1> QED BY <1>1, <1>2, <1>3, <1>4, <1>5, <1>6, <1>7 DEF Next, Done

\* Whatever the threads of a kernel see of each other, the coloring proceeds in
\* the rounds of ColoringRounds, each of which colors a row.
THEOREM ColoringImplementsRounds == Spec => ImplementsRounds
<1>1. Init => Rounds!Init
  BY DEF Init, Rounds!Init
<1> QED BY <1>1, StepRefines, ColoringInvariant, PTL
        DEF Spec, ImplementsRounds, Rounds!Spec
=============================================================================
