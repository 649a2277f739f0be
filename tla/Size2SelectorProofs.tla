------------------------- MODULE Size2SelectorProofs -------------------------
(***************************************************************************)
(* For every matrix, weights and limits, and whatever the threads of a     *)
(* kernel read of each other, the selector leaves each row in an aggregate *)
(* that hangs together, and with one phase no two neighbors with a         *)
(* positive weight alone unless a limit ended the rounds.                  *)
(*                                                                         *)
(* The argument for the pieces: a row joins the aggregate of a neighbor,   *)
(* or begins one named after itself that nobody has, or its hand meets     *)
(* that of a neighbor.  Hands of rows that have an aggregate stay as they  *)
(* were: where such a hand meets that of a free row, an aggregate may be   *)
(* named after a row of another one, but not twice.                        *)
(*                                                                         *)
(* The last part compares with rounds in which all threads read what was   *)
(* there before the kernel: with determinism_flag and one phase the        *)
(* aggregates are those, up to rows that nobody free is coupled to, which  *)
(* may get theirs a round sooner or later.                                 *)
(***************************************************************************)
EXTENDS Size2Selector, FiniteSetTheorems, WellFoundedInduction, TLAPS

Types ==
  /\ input \in Inputs
  /\ kernel \in {"find", "find2", "match", "count", "left", "merge", "singletons", "done"}
  /\ threads \subseteq Rows
  /\ began \in [Rows -> Labels] /\ aggregates \in [Rows -> Labels]
  /\ candidates \in [Rows -> Labels]
  /\ hands \in [1..2 -> [Rows -> Labels]]
  /\ icount \in Nat /\ unassigned \in Nat /\ previous \in Nat /\ counted \in Nat

\* Threads are those of free rows, and aggregates do not change.
Kernels ==
  /\ \A i \in Rows : began[i] # -1 => aggregates[i] = began[i]
  /\ kernel \in {"find", "find2", "merge"} => threads \subseteq Free(aggregates)
  /\ kernel \in {"match", "count"} => threads = {}
  /\ kernel = "find2" => input.two_phase

\* Hands are stretched to neighbors with a weight of 0 or more.
Hands ==
  /\ \A p \in 1..2 : \A i \in Rows : hands[p][i] \in {-1, i} \cup Neighbors(i)
  /\ \A i \in Rows : hands[1][i] \notin {-1, i} => input.weight[<<i, hands[1][i]>>] >= 0

\* Free rows whose thread has ended have one.
Handed ==
  /\ kernel = "find" => \A i \in Free(aggregates) \ threads : hands[1][i] # -1
  /\ kernel = "find2" => \A i \in Free(aggregates) :
       hands[1][i] # -1 /\ (i \notin threads => hands[2][i] # -1)
  /\ kernel = "match" => \A i \in Free(aggregates) : strongest_neighbour[i] # -1

\* What a thread of the last kernel found.
Joins(i, label) ==
  label = i \/ \E j \in Neighbors(i) : aggregates[j] # -1 /\ label = aggregates[j]

Candidates ==
  kernel = "merge" =>
    \A i \in Free(aggregates) \ threads : input.deterministic /\ Joins(i, candidates[i])

-----------------------------------------------------------------------------
(* Names of aggregates. *)

\* A row that an aggregate is named after has one.
NamesTaken == \A i \in Rows : aggregates[i] # -1 => aggregates[aggregates[i]] # -1

\* If it has another one, the row it stretched its hand to is in this one.
Misnamed ==
  \A h \in Rows : (aggregates[h] # h /\ Members(h) # {}) => strongest_neighbour[h] \in Members(h)

Pieces == \A l \in Rows : Connected(Members(l))

Named ==
  ~input.two_phase => \A i \in Rows : aggregates[i] # -1 => aggregates[aggregates[i]] = aggregates[i]

\* In one phase, a row with an aggregate left no neighbor waiting for it.
NobodyWaits ==
  (~input.two_phase /\ kernel \in {"find", "match", "count"}) =>
    \A i \in Rows : (aggregates[i] # -1 /\ hands[1][i] \notin {-1, i})
                       => aggregates[hands[1][i]] # -1

LabelsInv == NamesTaken /\ Misnamed /\ Pieces /\ Named

-----------------------------------------------------------------------------
(* Rounds. *)

FreeCount == Cardinality(Free(aggregates))
InRound == kernel \in {"find", "find2", "match", "count"}

\* The count the host has, or waits for, is a round old or older.
Counts ==
  /\ FreeCount <= unassigned
  /\ (InRound /\ icount % 2 = 1) => FreeCount <= counted
  /\ kernel = "done" => Free(aggregates) = {}

\* No two free rows have a positive weight.
NothingToPair ==
  \A e \in input.edges : ~({e[1], e[2]} \subseteq Free(aggregates) /\ input.weight[e] > 0)

\* The hand of a row if nobody finds an aggregate in this kernel.
Choice(i) ==
  LET w == [j \in Neighbors(i) |-> input.weight[<<i, j>>]]
      u == Strongest(Neighbors(i) \cap Free(began), w)
  IN IF u = -1 THEN i ELSE u

\* A round in which no row gets an aggregate, and so two counts that are the
\* same, mean that there is nothing to pair.
Progress ==
  ~input.two_phase =>
    /\ (InRound /\ icount % 2 = 0) => Cardinality(Free(began)) <= unassigned
    /\ (InRound /\ icount % 2 = 1 /\ counted = unassigned) => NothingToPair
    /\ (kernel \in {"find", "match"} /\ Free(aggregates) = Free(began)) =>
         \A i \in Free(aggregates) \ threads : hands[1][i] = Choice(i)
    /\ (kernel = "count" /\ Free(aggregates) = Free(began)) => NothingToPair
    /\ (/\ kernel \in {"left", "merge", "singletons"}
        /\ icount <= input.max_iterations
        /\ 100 * unassigned >= input.tolerance * Cardinality(Rows)) => NothingToPair

\* The inductive invariant.
IInv ==
  /\ Types /\ Kernels /\ Hands /\ Handed /\ Candidates
  /\ LabelsInv /\ NobodyWaits
  /\ Counts /\ Progress

-----------------------------------------------------------------------------
(* The input. *)

LEMMA InputFacts ==
  ASSUME Types
  PROVE  /\ Rows \subseteq Nat /\ IsFiniteSet(Rows)
         /\ input.edges \subseteq Rows \X Rows
         /\ \A e \in input.edges : e[1] # e[2]
         /\ input.weight \in [input.edges -> Int]
         /\ \A i, j \in Rows : <<i, j>> \in input.edges =>
              IF <<j, i>> \in input.edges
              THEN input.weight[<<i, j>>] = input.weight[<<j, i>>]
              ELSE input.weight[<<i, j>>] = 0
         /\ input.rand \in [Rows \X Rows -> Nat]
         /\ input.two_phase \in BOOLEAN /\ input.merge_singletons \in BOOLEAN
         /\ input.deterministic \in BOOLEAN
         /\ input.max_iterations \in Nat /\ input.tolerance \in Nat
<1>1. input \in Inputs
  BY DEF Types
<1>2. /\ input.edges \subseteq {e \in Rows \X Rows : e[1] # e[2]}
      /\ input.weight \in [input.edges -> Int]
      /\ \A e \in input.edges : LET back == <<e[2], e[1]>>
           IN IF back \in input.edges THEN input.weight[e] = input.weight[back]
              ELSE input.weight[e] = 0
      /\ input.rand \in [Rows \X Rows -> Nat]
      /\ {input.two_phase, input.merge_singletons, input.deterministic} \subseteq BOOLEAN
      /\ {input.max_iterations, input.tolerance} \subseteq Nat
  BY <1>1, Size2Assumption DEF Size2Assumption
<1>3. Rows \subseteq Nat /\ IsFiniteSet(Rows)
  BY Size2Assumption DEF Size2Assumption
<1>4. ASSUME NEW i \in Rows, NEW j \in Rows, <<i, j>> \in input.edges
      PROVE  IF <<j, i>> \in input.edges
             THEN input.weight[<<i, j>>] = input.weight[<<j, i>>]
             ELSE input.weight[<<i, j>>] = 0
  <2> DEFINE e == <<i, j>>
  <2>1. e \in input.edges /\ e[1] = i /\ e[2] = j
    BY <1>4
  <2> HIDE DEF e
  <2>2. IF <<j, i>> \in input.edges THEN input.weight[e] = input.weight[<<j, i>>]
        ELSE input.weight[e] = 0
    BY <1>2, <2>1
  <2> QED
    BY <2>2 DEF e
<1> QED
  BY <1>2, <1>3, <1>4

LEMMA NoRowIsFree ==
  ASSUME NEW i \in Rows
  PROVE  i \in Nat /\ i # -1
<1>1. i \in Nat
  BY Size2Assumption DEF Size2Assumption
<1> QED
  BY <1>1

LEMMA NeighborFacts ==
  ASSUME Types, NEW i \in Rows
  PROVE  /\ Neighbors(i) \subseteq Rows
         /\ \A j \in Neighbors(i) : /\ j # i /\ <<i, j>> \in input.edges
                                    /\ input.weight[<<i, j>>] \in Int
                                    /\ input.rand[<<i, j>>] \in Nat
<1>1. \A j \in Rows : <<i, j>> \in input.edges => j # i
  <2>1. SUFFICES ASSUME NEW j \in Rows, <<i, j>> \in input.edges PROVE j # i
    OBVIOUS
  <2> DEFINE e == <<i, j>>
  <2>2. e[1] # e[2]
    BY <2>1, InputFacts
  <2> QED
    BY <2>2
<1> QED
  BY <1>1, InputFacts DEF Neighbors

\* Of finitely many, one has the greatest number.
LEMMA Greatest ==
  ASSUME NEW S, IsFiniteSet(S), S # {}, NEW w, \A s \in S : w[s] \in Int
  PROVE  \E s \in S : \A t \in S : w[t] <= w[s]
<1> DEFINE Above(s) == {t \in S : w[t] > w[s]}
           C == {Cardinality(Above(s)) : s \in S}
<1>1. \A s \in S : IsFiniteSet(Above(s)) /\ Cardinality(Above(s)) \in Nat
  <2>1. SUFFICES ASSUME NEW s \in S
                 PROVE  IsFiniteSet(Above(s)) /\ Cardinality(Above(s)) \in Nat
    OBVIOUS
  <2>2. Above(s) \in SUBSET S
    OBVIOUS
  <2> HIDE DEF Above
  <2> QED
    BY <2>2, FS_Subset, FS_CardinalityType
<1>2. C \subseteq Nat /\ C # {}
  BY <1>1
<1>3. PICK c \in C : \A d \in C : ~ (<<d, c>> \in OpToRel(<, Nat))
  <2> HIDE DEF C
  <2> QED
    BY <1>2, NatLessThanWellFounded, WFMin
<1>4. PICK s \in S : c = Cardinality(Above(s))
  OBVIOUS
<1>5. ASSUME NEW t \in S, w[t] > w[s]
      PROVE  FALSE
  <2>1. Above(t) \in SUBSET Above(s) /\ t \in Above(s) /\ t \notin Above(t)
    BY <1>5
  <2>2. Cardinality(Above(t)) \in C
    OBVIOUS
  <2>3. ~ (Cardinality(Above(t)) < c)
    <3> HIDE DEF C, Above
    <3> QED
      BY <1>2, <1>3, <2>2 DEF OpToRel
  <2> HIDE DEF C, Above
  <2>4. Cardinality(Above(t)) <= Cardinality(Above(s)) /\ Above(t) # Above(s)
    BY <1>1, <2>1, FS_Subset
  <2>5. Cardinality(Above(t)) # Cardinality(Above(s))
    BY <1>1, <2>1, <2>4, FS_Subset
  <2> QED
    BY <1>1, <1>4, <2>3, <2>4, <2>5
<1> HIDE DEF C, Above
<1> QED
  BY <1>5

\* What Strongest returns.
LEMMA StrongestFacts ==
  ASSUME Rows \subseteq Nat, IsFiniteSet(Rows),
         NEW rows \in SUBSET Rows, NEW w, \A j \in rows : w[j] \in Int
  PROVE  \/ /\ Strongest(rows, w) = -1
            /\ \A j \in rows : w[j] < 0
         \/ /\ Strongest(rows, w) \in rows
            /\ w[Strongest(rows, w)] >= 0
            /\ \A j \in rows : \/ w[j] < w[Strongest(rows, w)]
                               \/ w[j] = w[Strongest(rows, w)] /\ j <= Strongest(rows, w)
<1> DEFINE positive == {j \in rows : w[j] >= 0}
           heaviest == {j \in positive : \A k \in positive : w[j] >= w[k]}
<1>1. CASE positive = {}
  <2>1. Strongest(rows, w) = -1
    BY <1>1 DEF Strongest
  <2> QED
    BY <1>1, <2>1
<1>2. CASE positive # {}
  <2>1. IsFiniteSet(positive) /\ \A j \in positive : w[j] \in Int
    <3>1. positive \in SUBSET Rows
      OBVIOUS
    <3>2. IsFiniteSet(positive)
      <4> HIDE DEF positive
      <4> QED
        BY <3>1, FS_Subset
    <3> QED
      BY <3>2
  <2>2. PICK s \in positive : \A t \in positive : w[t] <= w[s]
    <3> HIDE DEF positive
    <3> QED
      BY <1>2, <2>1, Greatest
  <2>3. s \in heaviest
    BY <2>1, <2>2
  <2>4. heaviest \in SUBSET positive /\ heaviest \in SUBSET Rows
    OBVIOUS
  <2>5. PICK m \in heaviest : \A k \in heaviest : k <= m
    <3> DEFINE id == [k \in Rows |-> k]
    <3>1. \A k \in heaviest : id[k] \in Int /\ id[k] = k
      BY <2>4
    <3>2. IsFiniteSet(heaviest) /\ heaviest # {}
      <4> HIDE DEF heaviest
      <4> QED
        BY <2>3, <2>4, FS_Subset
    <3> HIDE DEF id, heaviest
    <3>3. \E k \in heaviest : \A l \in heaviest : id[l] <= id[k]
      BY <3>1, <3>2, Greatest
    <3> QED
      BY <3>1, <3>3
  <2>6. Strongest(rows, w) = Max(heaviest)
    BY <1>2 DEF Strongest
  <2>7. Max(heaviest) \in heaviest /\ \A k \in heaviest : Max(heaviest) >= k
    <3> HIDE DEF heaviest
    <3>1. \A k \in heaviest : m >= k
      BY <2>4, <2>5
    <3> QED
      BY <3>1 DEF Max
  <2>8. PICK x \in heaviest : x = Strongest(rows, w) /\ \A k \in heaviest : x >= k
    BY <2>6, <2>7
  <2>9. x \in rows /\ w[x] >= 0 /\ \A k \in positive : w[x] >= w[k]
    BY <2>8
  <2>10. ASSUME NEW j \in rows
         PROVE  w[j] < w[x] \/ (w[j] = w[x] /\ j <= x)
    <3>1. w[j] \in Int /\ w[x] \in Int
      BY <2>9
    <3>2. CASE j \notin positive
      BY <2>9, <3>1, <3>2
    <3>3. CASE j \in positive /\ w[j] < w[x]
      BY <3>3
    <3>4. CASE j \in positive /\ w[j] = w[x]
      <4>1. j \in heaviest
        BY <2>9, <3>4
      <4>2. j <= x
        <5>1. j \in Nat /\ x \in Nat /\ x >= j
          BY <2>8, <2>9, <4>1
        <5> QED
          BY <5>1
      <4> QED
        BY <3>4, <4>2
    <3> QED
      BY <2>9, <3>1, <3>2, <3>3, <3>4
  <2> QED
    BY <2>8, <2>9, <2>10
<1> QED
  BY <1>1, <1>2

-----------------------------------------------------------------------------
(* What keeps aggregates in one piece. *)

\* Rows that hang on a piece become part of it.
LEMMA ConnectedGrows ==
  ASSUME NEW M, NEW N, Connected(M), M # {}, M \subseteq N,
         \A i \in N \ M : \E j \in M : {<<i, j>>, <<j, i>>} \cap input.edges # {}
  PROVE  Connected(N)
<1>1. SUFFICES ASSUME NEW part \in SUBSET N, part # {}, part # N
               PROVE  \E i \in part : \E j \in N \ part :
                        {<<i, j>>, <<j, i>>} \cap input.edges # {}
  BY DEF Connected
<1> DEFINE core == part \cap M
<1>2. CASE core = {}
  <2>1. PICK i \in part : TRUE
    BY <1>1
  <2>2. i \in N \ M
    BY <1>1, <1>2, <2>1
  <2>3. PICK j \in M : {<<i, j>>, <<j, i>>} \cap input.edges # {}
    BY <2>2
  <2>4. j \in N \ part
    BY <1>2
  <2> QED
    BY <2>3, <2>4
<1>3. CASE core = M
  <2>1. PICK i \in N \ part : TRUE
    BY <1>1
  <2>2. i \in N \ M
    BY <1>3, <2>1
  <2>3. PICK j \in M : {<<i, j>>, <<j, i>>} \cap input.edges # {}
    BY <2>2
  <2>4. j \in part /\ {<<j, i>>, <<i, j>>} \cap input.edges # {}
    BY <1>3, <2>3
  <2> QED
    BY <2>1, <2>4
<1>4. CASE core # {} /\ core # M
  <2>1. core \in SUBSET M
    OBVIOUS
  <2>2. PICK i \in core, j \in M \ core : {<<i, j>>, <<j, i>>} \cap input.edges # {}
    <3> HIDE DEF core
    <3> QED
      BY <1>4, <2>1 DEF Connected
  <2> QED
    BY <2>2
<1> QED
  BY <1>2, <1>3, <1>4

LEMMA OneRowConnected ==
  ASSUME NEW r, NEW M \in SUBSET {r}
  PROVE  Connected(M)
  BY DEF Connected

\* Two rows with an entry between them.
LEMMA PairConnected ==
  ASSUME NEW r, NEW q, {<<r, q>>, <<q, r>>} \cap input.edges # {},
         NEW M \in SUBSET {r, q}
  PROVE  Connected(M)
<1>1. SUFFICES ASSUME NEW part \in SUBSET M, part # {}, part # M
               PROVE  \E i \in part : \E j \in M \ part :
                        {<<i, j>>, <<j, i>>} \cap input.edges # {}
  BY DEF Connected
<1>2. \/ part = {r} /\ q \in M \ part
      \/ part = {q} /\ r \in M \ part
  BY <1>1
<1>3. {<<q, r>>, <<r, q>>} \cap input.edges # {}
  OBVIOUS
<1> QED
  BY <1>2, <1>3

\* Rows that have no aggregate find one each, and the others keep theirs.
Joining ==
  \A i \in Rows :
    \/ aggregates'[i] = aggregates[i]
    \/ aggregates[i] = -1 /\ Joins(i, aggregates'[i])

LEMMA JoiningKeepsNames ==
  ASSUME Types, LabelsInv, input' = input, aggregates' \in [Rows -> Labels], Joining
  PROVE  NamesTaken' /\ Named'
<1>1. Rows \subseteq Nat
  BY InputFacts
<1>2. \A i \in Rows : aggregates[i] # -1 => aggregates'[i] = aggregates[i]
  BY DEF Joining
<1>3. \A i \in Rows : aggregates[i] \in Rows \cup {-1}
  BY DEF Types, Labels
<1>4. ASSUME NEW i \in Rows, aggregates'[i] # -1
      PROVE  /\ aggregates'[aggregates'[i]] # -1
             /\ ~input.two_phase => aggregates'[aggregates'[i]] = aggregates'[i]
  <2>1. ASSUME NEW j \in Rows, aggregates[j] # -1, aggregates'[i] = aggregates[j]
        PROVE  /\ aggregates'[aggregates'[i]] # -1
               /\ ~input.two_phase => aggregates'[aggregates'[i]] = aggregates'[i]
    <3>1. /\ aggregates[j] \in Rows /\ aggregates[aggregates[j]] # -1
          /\ ~input.two_phase => aggregates[aggregates[j]] = aggregates[j]
      BY <1>3, <2>1 DEF LabelsInv, NamesTaken, Named
    <3>2. aggregates'[aggregates[j]] = aggregates[aggregates[j]]
      BY <1>2, <3>1
    <3> QED
      BY <2>1, <3>1, <3>2
  <2>2. CASE aggregates'[i] = aggregates[i]
    BY <1>4, <2>1, <2>2
  <2>3. CASE aggregates'[i] = i
    BY <1>1, <2>3
  <2>4. CASE \E j \in Neighbors(i) : aggregates[j] # -1 /\ aggregates'[i] = aggregates[j]
    BY <2>1, <2>4 DEF Neighbors
  <2> QED
    BY <2>2, <2>3, <2>4 DEF Joining, Joins
<1> QED
  BY <1>4 DEF NamesTaken, Named

LEMMA JoiningKeepsPieces ==
  ASSUME Types, LabelsInv, input' = input, aggregates' \in [Rows -> Labels], Joining,
         NEW l \in Rows
  PROVE  /\ Members(l) \subseteq Members(l)'
         /\ Members(l) = {} => Members(l)' \subseteq {l}
         /\ Connected(Members(l)')
<1>1. l # -1
  BY NoRowIsFree
<1>2. Members(l) \subseteq Members(l)'
  <2>1. SUFFICES ASSUME NEW i \in Rows, aggregates[i] = l
                 PROVE  aggregates'[i] = l
    BY DEF Members
  <2> QED
    BY <1>1, <2>1 DEF Joining
<1>3. \A i \in Members(l)' \ Members(l) :
        i = l \/ \E j \in Members(l) : {<<i, j>>, <<j, i>>} \cap input.edges # {}
  <2>1. SUFFICES ASSUME NEW i \in Rows, aggregates'[i] = l, aggregates[i] # l, i # l
                 PROVE  \E j \in Members(l) : {<<i, j>>, <<j, i>>} \cap input.edges # {}
    BY DEF Members
  <2>2. PICK j \in Neighbors(i) : aggregates[j] = l
    BY <2>1 DEF Joining, Joins
  <2> QED
    BY <2>2 DEF Neighbors, Members
<1>4. Members(l) = {} => Members(l)' \subseteq {l}
  BY <1>3
<1>5. CASE Members(l) = {}
  <2>1. Members(l)' \in SUBSET {l}
    BY <1>4, <1>5
  <2> QED
    BY <1>2, <1>4, <2>1, OneRowConnected
<1>6. CASE Members(l) # {}
  <2>1. aggregates[l] # -1
    <3>1. PICK i \in Rows : aggregates[i] = l
      BY <1>6 DEF Members
    <3> QED
      BY <1>1, <3>1 DEF LabelsInv, NamesTaken
  <2>2. l \in Members(l)' => l \in Members(l)
    BY <2>1 DEF Members, Joining
  <2>3. \A i \in Members(l)' \ Members(l) :
          \E j \in Members(l) : {<<i, j>>, <<j, i>>} \cap input.edges # {}
    BY <1>3, <2>2
  <2>4. Connected(Members(l))
    BY DEF LabelsInv, Pieces
  <2>5. Connected(Members(l)')
    BY <1>2, <1>6, <2>3, <2>4, ConnectedGrows
  <2> QED
    BY <1>2, <1>4, <2>5
<1> QED
  BY <1>5, <1>6

LEMMA JoiningKeepsLabels ==
  ASSUME Types, LabelsInv, input' = input, aggregates' \in [Rows -> Labels], Joining,
         \A h \in Rows : aggregates[h] # -1 => strongest_neighbour'[h] = strongest_neighbour[h]
  PROVE  LabelsInv'
<1>1. NamesTaken' /\ Named'
  BY JoiningKeepsNames
<1>2. Pieces'
  BY JoiningKeepsPieces DEF Pieces, Connected
<1>3. Misnamed'
  <2>1. SUFFICES ASSUME NEW h \in Rows, aggregates'[h] # h, Members(h)' # {}
                 PROVE  strongest_neighbour'[h] \in Members(h)'
    BY DEF Misnamed
  <2>2. Members(h) # {}
    <3>1. SUFFICES ASSUME Members(h) = {} PROVE FALSE
      OBVIOUS
    <3>2. h \in Members(h)'
      BY <2>1, <3>1, JoiningKeepsPieces
    <3> QED
      BY <2>1, <3>2 DEF Members
  <2>3. h # -1
    BY NoRowIsFree
  <2>4. aggregates[h] # -1
    <3>1. PICK i \in Rows : aggregates[i] = h
      BY <2>2 DEF Members
    <3> QED
      BY <2>3, <3>1 DEF LabelsInv, NamesTaken
  <2>5. aggregates[h] # h
    BY <2>1, <2>4 DEF Joining
  <2>6. strongest_neighbour[h] \in Members(h)
    BY <2>2, <2>5 DEF LabelsInv, Misnamed
  <2> QED
    BY <2>4, <2>6, JoiningKeepsPieces
<1> QED
  BY <1>1, <1>2, <1>3 DEF LabelsInv

-----------------------------------------------------------------------------
(* Pairs. *)

LEMMA Stretched ==
  ASSUME IInv, kernel = "match", NEW i \in Free(aggregates)
  PROVE  /\ i \in Rows /\ strongest_neighbour[i] \in Rows
         /\ strongest_neighbour[i] = i \/ strongest_neighbour[i] \in Neighbors(i)
<1>1. i \in Rows /\ Neighbors(i) \subseteq Rows
  BY DEF Free, Neighbors
<1>2. strongest_neighbour[i] \in {-1, i} \cup Neighbors(i)
  BY <1>1 DEF IInv, Hands, strongest_neighbour
<1>3. strongest_neighbour[i] # -1
  BY DEF IInv, Handed
<1> QED
  BY <1>1, <1>2, <1>3

\* A row that finds its pair is named after itself or after that row.
LEMMA Matched ==
  ASSUME IInv, MatchEdges, NEW i \in Rows, aggregates'[i] # aggregates[i]
  PROVE  /\ aggregates[i] = -1
         /\ strongest_neighbour[i] \in Rows
         /\ strongest_neighbour[strongest_neighbour[i]] = i
         /\ strongest_neighbour[i] = i \/ strongest_neighbour[i] \in Neighbors(i)
         /\ \/ aggregates'[i] = i
            \/ aggregates'[i] = strongest_neighbour[i] /\ strongest_neighbour[i] < i
<1>1. aggregates'[i] = IF aggregates[i] # -1 THEN aggregates[i]
                       ELSE Match(i, strongest_neighbour)
  BY DEF MatchEdges
<1>2. aggregates[i] = -1 /\ aggregates'[i] = Match(i, strongest_neighbour)
  BY <1>1
<1>3. /\ strongest_neighbour[i] \in Rows
      /\ strongest_neighbour[i] = i \/ strongest_neighbour[i] \in Neighbors(i)
  BY <1>2, Stretched DEF MatchEdges, Free
<1>4. strongest_neighbour[strongest_neighbour[i]] = i
  BY <1>1, <1>2 DEF Match
<1>5. aggregates'[i] = IF strongest_neighbour[i] > i THEN i ELSE strongest_neighbour[i]
  BY <1>2, <1>4 DEF Match
<1>6. strongest_neighbour[i] \in Nat /\ i \in Nat
  BY <1>3, NoRowIsFree
<1>7. \/ strongest_neighbour[i] > i \/ strongest_neighbour[i] = i
      \/ strongest_neighbour[i] < i
  BY <1>6
<1> QED
  BY <1>2, <1>3, <1>4, <1>5, <1>7

\* The row with the smaller index of a pair names it.
LEMMA MatchNames ==
  ASSUME IInv, MatchEdges, NEW i \in Rows, aggregates[i] = -1,
         strongest_neighbour[i] \in Rows, strongest_neighbour[i] > i,
         strongest_neighbour[strongest_neighbour[i]] = i
  PROVE  aggregates'[i] = i
<1>1. aggregates'[i] = Match(i, strongest_neighbour)
  BY DEF MatchEdges
<1> QED
  BY <1>1 DEF Match

LEMMA MatchKeeps ==
  ASSUME IInv, MatchEdges
  PROVE  /\ input' = input /\ hands' = hands
         /\ aggregates' \in [Rows -> Labels]
         /\ \A i \in Rows : aggregates[i] # -1 => aggregates'[i] = aggregates[i]
         /\ strongest_neighbour' = strongest_neighbour
<1>1. input' = input /\ hands' = hands
  BY DEF MatchEdges
<1>2. \A i \in Rows : aggregates[i] # -1 => aggregates'[i] = aggregates[i]
  BY Matched
<1>3. \A i \in Rows : aggregates'[i] \in Labels
  BY Matched DEF Labels, IInv, Types
<1>4. aggregates' \in [Rows -> Labels]
  BY <1>3 DEF MatchEdges
<1> QED
  BY <1>1, <1>2, <1>4 DEF strongest_neighbour

LEMMA MatchKeepsNames ==
  ASSUME IInv, MatchEdges
  PROVE  NamesTaken' /\ Named'
<1>1. ASSUME NEW i \in Rows, aggregates'[i] # -1
      PROVE  /\ aggregates'[aggregates'[i]] # -1
             /\ ~input.two_phase => aggregates'[aggregates'[i]] = aggregates'[i]
  <2>1. CASE aggregates'[i] = aggregates[i]
    <3>1. /\ aggregates[i] \in Rows /\ aggregates[aggregates[i]] # -1
          /\ ~input.two_phase => aggregates[aggregates[i]] = aggregates[i]
      BY <1>1, <2>1 DEF IInv, Types, Labels, LabelsInv, NamesTaken, Named
    <3> QED
      BY <2>1, <3>1, MatchKeeps
  <2>2. CASE aggregates'[i] = i
    BY <1>1, <2>2
  <2>3. CASE aggregates'[i] # aggregates[i] /\ aggregates'[i] # i
    <3> DEFINE h == strongest_neighbour[i]
    <3>1. /\ aggregates[i] = -1 /\ h \in Rows /\ strongest_neighbour[h] = i
          /\ h \in Neighbors(i) \cup {i} /\ aggregates'[i] = h /\ h < i
      BY <2>3, Matched
    <3>2. h # i /\ h # -1 /\ i # -1
      BY <3>1, <2>3, NoRowIsFree
    <3> HIDE DEF h
    <3>3. CASE aggregates[h] = -1
      <4>1. aggregates'[h] = h
        BY <3>1, <3>3, MatchNames, NoRowIsFree DEF h
      <4> QED
        BY <3>1, <3>2, <4>1
    <3>4. CASE aggregates[h] # -1
      <4>1. aggregates'[h] # -1
        BY <3>1, <3>4, MatchKeeps
      <4>2. SUFFICES ASSUME ~input.two_phase PROVE FALSE
        BY <3>1, <4>1
      <4>3. hands[1][h] = i
        BY <3>1, <4>2 DEF strongest_neighbour
      <4>4. aggregates[i] # -1
        BY <3>1, <3>2, <3>4, <4>2, <4>3 DEF IInv, NobodyWaits, MatchEdges
      <4> QED
        BY <3>1, <4>4
    <3> QED
      BY <3>3, <3>4
  <2> QED
    BY <2>1, <2>2, <2>3
<1> QED
  BY <1>1, MatchKeeps DEF NamesTaken, Named

LEMMA MatchKeepsPieces ==
  ASSUME IInv, MatchEdges, NEW l \in Rows
  PROVE  /\ Members(l) \subseteq Members(l)'
         /\ \A i \in Members(l)' \ Members(l) :
              i = l \/ (strongest_neighbour[l] = i /\ l \in Neighbors(i))
         /\ Members(l) # {} => aggregates[l] # -1
         /\ Connected(Members(l)')
<1> DEFINE hand == strongest_neighbour
<1>1. l # -1
  BY NoRowIsFree
<1>2. Members(l) \subseteq Members(l)'
  BY <1>1, MatchKeeps DEF Members
<1>3. \A i \in Members(l)' \ Members(l) :
        /\ i \in Rows /\ aggregates[i] = -1
        /\ i = l \/ (hand[l] = i /\ l \in Neighbors(i))
  <2>1. SUFFICES ASSUME NEW i \in Rows, aggregates'[i] = l, aggregates[i] # l
                 PROVE  /\ aggregates[i] = -1
                        /\ i = l \/ (hand[l] = i /\ l \in Neighbors(i))
    BY DEF Members
  <2> QED
    BY <2>1, Matched
<1>4. Members(l) # {} => aggregates[l] # -1
  BY <1>1 DEF Members, IInv, LabelsInv, NamesTaken
<1>5. CASE Members(l) = {}
  <2>1. ASSUME Members(l)' \in SUBSET {l}
        PROVE  Connected(Members(l)')
    BY <2>1, OneRowConnected
  <2>2. ASSUME NEW i \in Members(l)', i # l
        PROVE  Connected(Members(l)')
    <3>1. hand[l] = i /\ l \in Neighbors(i)
      BY <1>3, <1>5, <2>2
    <3>2. Members(l)' \in SUBSET {l, i}
      BY <1>3, <1>5, <3>1
    <3>3. {<<l, i>>, <<i, l>>} \cap input.edges # {}
      BY <3>1 DEF Neighbors
    <3> HIDE DEF hand
    <3> QED
      BY <3>2, <3>3, PairConnected
  <2>3. Connected(Members(l)')
    BY <2>1, <2>2
  <2> QED
    BY <1>2, <1>3, <1>4, <2>3
<1>6. CASE Members(l) # {}
  <2>1. \A i \in Members(l)' \ Members(l) :
          \E j \in Members(l) : {<<i, j>>, <<j, i>>} \cap input.edges # {}
    <3>1. SUFFICES ASSUME NEW i \in Members(l)' \ Members(l)
                   PROVE  \E j \in Members(l) : {<<i, j>>, <<j, i>>} \cap input.edges # {}
      OBVIOUS
    <3>2. i # l /\ hand[l] = i /\ l \in Neighbors(i)
      BY <1>3, <1>4, <1>6, <3>1
    <3>3. aggregates[l] = l
      <4>1. SUFFICES ASSUME aggregates[l] # l PROVE FALSE
        OBVIOUS
      <4>2. hand[l] \in Members(l)
        BY <1>6, <4>1 DEF IInv, LabelsInv, Misnamed
      <4> QED
        BY <3>1, <3>2, <4>2
    <3> QED
      BY <3>2, <3>3 DEF Members, Neighbors
  <2>2. Connected(Members(l))
    BY DEF IInv, LabelsInv, Pieces
  <2>3. Connected(Members(l)')
    BY <1>2, <1>6, <2>1, <2>2, ConnectedGrows
  <2> QED
    BY <1>2, <1>3, <1>4, <2>3
<1> QED
  BY <1>5, <1>6

LEMMA MatchKeepsLabels ==
  ASSUME IInv, MatchEdges
  PROVE  LabelsInv'
<1>1. NamesTaken' /\ Named'
  BY MatchKeepsNames
<1>2. Pieces'
  <2>1. input' = input
    BY MatchKeeps
  <2> QED
    BY <2>1, MatchKeepsPieces DEF Pieces, Connected
<1>3. Misnamed'
  <2>1. SUFFICES ASSUME NEW h \in Rows, aggregates'[h] # h, Members(h)' # {}
                 PROVE  strongest_neighbour[h] \in Members(h)'
    BY MatchKeeps DEF Misnamed
  <2>2. PICK i \in Members(h)' : TRUE
    BY <2>1
  <2>3. CASE i \in Members(h)
    <3>1. aggregates[h] # -1
      BY <2>3, MatchKeepsPieces
    <3>2. aggregates[h] # h
      BY <2>1, <3>1, MatchKeeps
    <3>3. strongest_neighbour[h] \in Members(h)
      BY <2>3, <3>2 DEF IInv, LabelsInv, Misnamed
    <3> QED
      BY <3>3, MatchKeepsPieces
  <2>4. CASE i \notin Members(h)
    <3>1. i # h
      BY <2>1, <2>2 DEF Members
    <3> QED
      BY <2>2, <2>4, <3>1, MatchKeepsPieces
  <2> QED
    BY <2>3, <2>4
<1> QED
  BY <1>1, <1>2, <1>3 DEF LabelsInv

-----------------------------------------------------------------------------
(* What a thread finds. *)

\* Rows get an aggregate once, so what is read of one that has it is right.
LEMMA ViewFacts ==
  ASSUME Types, Kernels, NEW i \in Rows, NEW view \in Views(i)
  PROVE  /\ \A j \in Rows : /\ view[j] \in Labels
                            /\ view[j] # -1 => aggregates[j] = view[j]
                            /\ aggregates[j] = -1 => view[j] = -1
         /\ began = aggregates => \A j \in Rows : view[j] = began[j]
<1>1. \A j \in Rows : view[j] = began[j] \/ view[j] = aggregates[j]
  BY DEF Views
<1>2. \A j \in Rows : began[j] # -1 => aggregates[j] = began[j]
  BY DEF Kernels
<1>3. \A j \in Rows : began[j] \in Labels /\ aggregates[j] \in Labels
  BY DEF Types
<1> QED
  BY <1>1, <1>2, <1>3

\* The first hand of row i, if thread i sees this.
FirstHand(i, view) ==
  LET w == [j \in Neighbors(i) |-> input.weight[<<i, j>>]]
      u == Strongest(Neighbors(i) \cap Free(view), w)
  IN IF u = -1 THEN i ELSE u

LEMMA FoundFirst ==
  ASSUME Types, NEW i \in Rows, NEW view, \A j \in Rows : view[j] \in Labels
  PROVE  LET found == Found(1, i, view, hands[1])
         IN /\ found.aggregate # -1 =>
                 /\ found.aggregate = i
                      \/ \E j \in Neighbors(i) : view[j] # -1 /\ found.aggregate = view[j]
                 /\ \A j \in Neighbors(i) : input.weight[<<i, j>>] >= 0 => view[j] # -1
            /\ found.aggregate = -1 =>
                 /\ found.hand = FirstHand(i, view)
                 /\ found.hand = i \/ (/\ found.hand \in Neighbors(i)
                                       /\ input.weight[<<i, found.hand>>] >= 0)
<1> DEFINE first == hands[1]
           rows == Considered(i, 1, first)
           w == [j \in rows |-> EdgeWeight(i, 1, j)]
           unaggregated == Strongest(rows \cap Free(view), w)
           aggregated == Strongest(rows \ Free(view), w)
           found == Found(1, i, view, first)
<1>1. rows = Neighbors(i) /\ rows \subseteq Rows
  BY NeighborFacts DEF Considered
<1>2. w = [j \in Neighbors(i) |-> input.weight[<<i, j>>]]
  BY <1>1 DEF EdgeWeight
<1>3. \A j \in rows : w[j] = input.weight[<<i, j>>] /\ w[j] \in Int
  BY <1>1, <1>2, NeighborFacts
<1>4. /\ found.aggregate = IF unaggregated # -1 \/ aggregated = -1 THEN -1
                           ELSE IF input.merge_singletons THEN view[aggregated] ELSE i
      /\ found.hand = Hand(i, 1, unaggregated, first)
  <2>1. found = [aggregate |-> IF unaggregated # -1 \/ aggregated = -1 THEN -1
                               ELSE IF input.merge_singletons THEN view[aggregated] ELSE i,
                 hand |-> Hand(i, 1, unaggregated, first)]
    BY DEF Found
  <2> HIDE DEF found, unaggregated, aggregated, first
  <2> QED
    BY <2>1
<1>5. /\ Rows \subseteq Nat /\ IsFiniteSet(Rows)
      /\ rows \cap Free(view) \in SUBSET Rows /\ rows \ Free(view) \in SUBSET Rows
  BY <1>1, InputFacts
<1>6. \/ unaggregated = -1 /\ \A j \in rows \cap Free(view) : w[j] < 0
      \/ unaggregated \in rows \cap Free(view) /\ w[unaggregated] >= 0
  <2>1. \A j \in rows \cap Free(view) : w[j] \in Int
    BY <1>3
  <2> HIDE DEF rows, w
  <2> QED
    BY <1>5, <2>1, StrongestFacts
<1>7. aggregated = -1 \/ aggregated \in rows \ Free(view)
  <2>1. \A j \in rows \ Free(view) : w[j] \in Int
    BY <1>3
  <2> HIDE DEF rows, w
  <2> QED
    BY <1>5, <2>1, StrongestFacts
<1>8. ASSUME found.aggregate # -1
      PROVE  /\ found.aggregate = i
                  \/ \E j \in Neighbors(i) : view[j] # -1 /\ found.aggregate = view[j]
             /\ \A j \in Neighbors(i) : input.weight[<<i, j>>] >= 0 => view[j] # -1
  <2>1. /\ unaggregated = -1 /\ aggregated # -1
        /\ found.aggregate = i \/ found.aggregate = view[aggregated]
    BY <1>4, <1>8
  <2>2. aggregated \in Neighbors(i) /\ view[aggregated] # -1
    <3> HIDE DEF aggregated
    <3> QED
      BY <1>1, <1>7, <2>1 DEF Free
  <2>3. \A j \in rows \cap Free(view) : w[j] < 0
    <3>1. -1 \notin Rows
      BY NoRowIsFree
    <3> HIDE DEF rows, w, unaggregated
    <3> QED
      BY <1>1, <1>6, <2>1, <3>1
  <2>4. ASSUME NEW j \in Neighbors(i), input.weight[<<i, j>>] >= 0
        PROVE  view[j] # -1
    <3>1. j \in rows /\ j \in Rows /\ ~(w[j] < 0)
      BY <1>1, <1>3, <2>4
    <3> HIDE DEF rows, w
    <3> QED
      BY <2>3, <3>1 DEF Free
  <2> HIDE DEF found, aggregated
  <2> QED
    BY <2>1, <2>2, <2>4
<1>9. ASSUME found.aggregate = -1
      PROVE  /\ found.hand = FirstHand(i, view)
             /\ found.hand = i \/ (/\ found.hand \in Neighbors(i)
                                   /\ input.weight[<<i, found.hand>>] >= 0)
  <2>1. found.hand = IF unaggregated = -1 THEN i ELSE unaggregated
    <3> HIDE DEF found, unaggregated, first
    <3> QED
      BY <1>4 DEF Hand
  <2>2. found.hand = FirstHand(i, view)
    <3>1. unaggregated = Strongest(Neighbors(i) \cap Free(view),
                                   [j \in Neighbors(i) |-> input.weight[<<i, j>>]])
      BY <1>1, <1>2
    <3> HIDE DEF unaggregated, found
    <3> QED
      BY <2>1, <3>1 DEF FirstHand
  <2>3. unaggregated # -1 => /\ unaggregated \in Neighbors(i)
                             /\ input.weight[<<i, unaggregated>>] >= 0
    <3> HIDE DEF rows, w, unaggregated
    <3> QED
      BY <1>1, <1>3, <1>6
  <2> HIDE DEF found, unaggregated
  <2> QED
    BY <2>1, <2>2, <2>3
<1> HIDE DEF found
<1>10. /\ found.aggregate # -1 =>
            /\ found.aggregate = i
                 \/ \E j \in Neighbors(i) : view[j] # -1 /\ found.aggregate = view[j]
            /\ \A j \in Neighbors(i) : input.weight[<<i, j>>] >= 0 => view[j] # -1
       /\ found.aggregate = -1 =>
            /\ found.hand = FirstHand(i, view)
            /\ found.hand = i \/ (/\ found.hand \in Neighbors(i)
                                  /\ input.weight[<<i, found.hand>>] >= 0)
  BY <1>8, <1>9
<1> QED
  BY <1>10 DEF found

LEMMA FoundSecond ==
  ASSUME Types, NEW i \in Rows, NEW view, \A j \in Rows : view[j] \in Labels
  PROVE  LET found == Found(2, i, view, hands[1])
         IN /\ found.aggregate # -1 =>
                 found.aggregate = i
                   \/ \E j \in Neighbors(i) : view[j] # -1 /\ found.aggregate = view[j]
            /\ found.aggregate = -1 =>
                 found.hand = hands[1][i] \/ found.hand \in Neighbors(i)
<1> DEFINE first == hands[1]
           rows == Considered(i, 2, first)
           w == [j \in rows |-> EdgeWeight(i, 2, j)]
           unaggregated == Strongest(rows \cap Free(view), w)
           aggregated == Strongest(rows \ Free(view), w)
           found == Found(2, i, view, first)
<1>1. rows \subseteq Neighbors(i) /\ rows \subseteq Rows
  BY NeighborFacts DEF Considered
<1>2. \A j \in rows : w[j] = input.rand[<<i, j>>] /\ w[j] \in Int
  BY <1>1, NeighborFacts DEF EdgeWeight
<1>3. /\ found.aggregate = IF unaggregated # -1 \/ aggregated = -1 THEN -1
                           ELSE IF input.merge_singletons THEN view[aggregated] ELSE i
      /\ found.hand = Hand(i, 2, unaggregated, first)
  <2>1. found = [aggregate |-> IF unaggregated # -1 \/ aggregated = -1 THEN -1
                               ELSE IF input.merge_singletons THEN view[aggregated] ELSE i,
                 hand |-> Hand(i, 2, unaggregated, first)]
    BY DEF Found
  <2> HIDE DEF found, unaggregated, aggregated, first
  <2> QED
    BY <2>1
<1>4. /\ Rows \subseteq Nat /\ IsFiniteSet(Rows)
      /\ rows \cap Free(view) \in SUBSET Rows /\ rows \ Free(view) \in SUBSET Rows
  BY <1>1, InputFacts
<1>5. unaggregated = -1 \/ unaggregated \in rows \cap Free(view)
  <2>1. \A j \in rows \cap Free(view) : w[j] \in Int
    BY <1>2
  <2> HIDE DEF rows, w
  <2> QED
    BY <1>4, <2>1, StrongestFacts
<1>6. aggregated = -1 \/ aggregated \in rows \ Free(view)
  <2>1. \A j \in rows \ Free(view) : w[j] \in Int
    BY <1>2
  <2> HIDE DEF rows, w
  <2> QED
    BY <1>4, <2>1, StrongestFacts
<1>7. ASSUME found.aggregate # -1
      PROVE  found.aggregate = i
               \/ \E j \in Neighbors(i) : view[j] # -1 /\ found.aggregate = view[j]
  <2>1. /\ aggregated # -1
        /\ found.aggregate = i \/ found.aggregate = view[aggregated]
    BY <1>3, <1>7
  <2>2. aggregated \in Neighbors(i) /\ view[aggregated] # -1
    <3> HIDE DEF aggregated, rows
    <3> QED
      BY <1>1, <1>6, <2>1 DEF Free
  <2> HIDE DEF found, aggregated
  <2> QED
    BY <2>1, <2>2
<1>8. found.hand = first[i] \/ found.hand \in Neighbors(i)
  <2>1. found.hand = first[i] \/ (unaggregated # -1 /\ found.hand = unaggregated)
    <3> HIDE DEF found, unaggregated
    <3> QED
      BY <1>3 DEF Hand
  <2> HIDE DEF found, unaggregated, rows
  <2> QED
    BY <1>1, <1>5, <2>1
<1> HIDE DEF found
<1>9. /\ found.aggregate # -1 =>
           found.aggregate = i
             \/ \E j \in Neighbors(i) : view[j] # -1 /\ found.aggregate = view[j]
      /\ found.aggregate = -1 =>
           found.hand = hands[1][i] \/ found.hand \in Neighbors(i)
  BY <1>7, <1>8
<1> QED
  BY <1>9 DEF found

\* Thread i finds an aggregate, or a row to stretch its hand to.
FindsAggregate(phase, i) ==
  /\ hands' = hands
  /\ aggregates' = [aggregates EXCEPT ![i] = aggregates'[i]]
  /\ aggregates'[i] \in Rows
  /\ Joins(i, aggregates'[i])
  /\ phase = 1 => \A j \in Neighbors(i) : input.weight[<<i, j>>] >= 0 => aggregates[j] # -1

FindsHand(phase, i, h) ==
  /\ aggregates' = aggregates
  /\ hands' = [hands EXCEPT ![phase][i] = h]
  /\ h = i \/ h \in Neighbors(i)
  /\ phase = 1 => /\ h = i \/ input.weight[<<i, h>>] >= 0
                  /\ began = aggregates => h = Choice(i)

LEMMA FindOutcome ==
  ASSUME IInv, NEW phase \in 1..2, NEW i \in Rows, FindStrongestNeighbour(phase, i)
  PROVE  /\ aggregates[i] = -1
         /\ phase = 2 => hands[1][i] # -1
         /\ FindsAggregate(phase, i) \/ \E h \in Rows : FindsHand(phase, i, h)
<1> DEFINE found(view) == Found(phase, i, view, hands[1])
<1>1. PICK view \in Views(i) :
        /\ aggregates' = [aggregates EXCEPT ![i] = found(view).aggregate]
        /\ hands' = IF found(view).aggregate # -1 THEN hands
                    ELSE [hands EXCEPT ![phase][i] = found(view).hand]
  BY DEF FindStrongestNeighbour
<1>2. Types /\ Kernels
  BY DEF IInv
<1>3. /\ \A j \in Rows : /\ view[j] \in Labels
                         /\ view[j] # -1 => aggregates[j] = view[j]
      /\ began = aggregates => \A j \in Rows : view[j] = began[j]
  BY <1>2, ViewFacts
<1>4. /\ aggregates[i] = -1 /\ (phase = 2 => hands[1][i] # -1)
  <2>1. i \in Free(aggregates) /\ kernel = Find(phase)
    BY <1>2 DEF FindStrongestNeighbour, Kernels, Find
  <2> QED
    BY <2>1 DEF Free, Find, IInv, Handed
<1> DEFINE a == found(view).aggregate
           h == found(view).hand
<1>5. Neighbors(i) \subseteq Rows /\ aggregates \in [Rows -> Labels]
  BY <1>2, NeighborFacts DEF Types
<1>6. /\ a # -1 => a = i \/ \E j \in Neighbors(i) : view[j] # -1 /\ a = view[j]
      /\ (a # -1 /\ phase = 1) =>
           \A j \in Neighbors(i) : input.weight[<<i, j>>] >= 0 => view[j] # -1
      /\ a = -1 => h = i \/ h \in Neighbors(i)
      /\ (a = -1 /\ phase = 1) => /\ h = FirstHand(i, view)
                                  /\ h = i \/ input.weight[<<i, h>>] >= 0
  <2>1. CASE phase = 1
    BY <1>2, <1>3, <2>1, FoundFirst
  <2>2. CASE phase = 2
    <3>1. hands[1][i] \in {-1, i} \cup Neighbors(i)
      BY DEF IInv, Hands
    <3>2. /\ a # -1 => a = i \/ \E j \in Neighbors(i) : view[j] # -1 /\ a = view[j]
          /\ a = -1 => h = hands[1][i] \/ h \in Neighbors(i)
      BY <1>2, <1>3, <2>2, FoundSecond
    <3> HIDE DEF a, h
    <3> QED
      BY <1>4, <2>2, <3>1, <3>2
  <2> QED
    BY <2>1, <2>2
<1>7. /\ aggregates' = [aggregates EXCEPT ![i] = a]
      /\ hands' = IF a # -1 THEN hands ELSE [hands EXCEPT ![phase][i] = h]
  BY <1>1
<1> HIDE DEF a, h
<1>8. CASE a # -1
  <2>1. aggregates'[i] = a /\ hands' = hands
    BY <1>5, <1>7, <1>8
  <2>2. Joins(i, a)
    BY <1>3, <1>5, <1>6, <1>8 DEF Joins
  <2>3. a \in Rows
    BY <1>3, <1>5, <1>6, <1>8 DEF Labels
  <2>4. phase = 1 => \A j \in Neighbors(i) : input.weight[<<i, j>>] >= 0 => aggregates[j] # -1
    BY <1>3, <1>5, <1>6, <1>8
  <2>5. FindsAggregate(phase, i)
    BY <1>7, <2>1, <2>2, <2>3, <2>4 DEF FindsAggregate
  <2> QED
    BY <1>4, <2>5
<1>9. CASE a = -1
  <2>1. aggregates' = aggregates
    BY <1>4, <1>5, <1>7, <1>9
  <2>2. h \in Rows
    BY <1>5, <1>6, <1>9
  <2>3. (phase = 1 /\ began = aggregates) => h = Choice(i)
    <3>1. SUFFICES ASSUME phase = 1, began = aggregates PROVE h = Choice(i)
      OBVIOUS
    <3>2. Free(view) = Free(began)
      BY <1>3, <3>1 DEF Free
    <3> QED
      BY <1>6, <1>9, <3>1, <3>2 DEF FirstHand, Choice
  <2>4. FindsHand(phase, i, h)
    BY <1>6, <1>7, <1>9, <2>1, <2>3 DEF FindsHand
  <2> QED
    BY <1>4, <2>2, <2>4
<1> QED
  BY <1>8, <1>9

-----------------------------------------------------------------------------
(* The steps. *)

\* Rows keep the aggregates they have.
Growing == \A i \in Rows : aggregates[i] # -1 => aggregates'[i] = aggregates[i]

LEMMA RowSets ==
  ASSUME NEW B \in SUBSET Rows, NEW A \in SUBSET B
  PROVE  /\ IsFiniteSet(A) /\ Cardinality(A) \in Nat /\ Cardinality(B) \in Nat
         /\ Cardinality(A) <= Cardinality(B)
         /\ Cardinality(A) = Cardinality(B) => A = B
<1>1. IsFiniteSet(Rows)
  BY Size2Assumption DEF Size2Assumption
<1>2. IsFiniteSet(B)
  BY <1>1, FS_Subset
<1>3. IsFiniteSet(A)
  BY <1>2, FS_Subset
<1> QED
  BY <1>2, <1>3, FS_Subset, FS_CardinalityType

LEMMA FreeShrinks ==
  ASSUME Growing
  PROVE  /\ Free(aggregates') \subseteq Free(aggregates)
         /\ FreeCount \in Nat /\ FreeCount' \in Nat /\ FreeCount' <= FreeCount
         /\ FreeCount' = FreeCount => Free(aggregates') = Free(aggregates)
         /\ (input' = input /\ NothingToPair) => NothingToPair'
<1>1. Free(aggregates') \subseteq Free(aggregates)
  <2>1. \A i \in Rows : aggregates'[i] = -1 => aggregates[i] = -1
    BY DEF Growing
  <2> QED
    BY <2>1 DEF Free
<1>2. Free(aggregates) \in SUBSET Rows
  BY DEF Free
<1> QED
  BY <1>1, <1>2, RowSets DEF FreeCount, NothingToPair

LEMMA FreeSinceBegan ==
  ASSUME Types, Kernels
  PROVE  /\ Free(aggregates) \subseteq Free(began)
         /\ Free(aggregates) = Free(began) => began = aggregates
<1>1. \A i \in Rows : aggregates[i] = -1 => began[i] = -1
  BY DEF Kernels
<1>2. Free(aggregates) \subseteq Free(began)
  BY <1>1 DEF Free
<1>3. ASSUME Free(aggregates) = Free(began)
      PROVE  began = aggregates
  <2>1. \A i \in Rows : began[i] = aggregates[i]
    BY <1>3 DEF Kernels, Free
  <2> QED
    BY <2>1 DEF Types
<1> QED
  BY <1>2, <1>3

\* What only needs the matrix.
LEMMA SameInput ==
  ASSUME input' = input
  PROVE  /\ \A i \in Rows : Neighbors(i)' = Neighbors(i)
         /\ \A i, l : Joins(i, l)' <=> (l = i \/ \E j \in Neighbors(i) : aggregates'[j] # -1 /\ l = aggregates'[j])
         /\ hands' = hands => strongest_neighbour' = strongest_neighbour
  BY DEF Neighbors, Joins, strongest_neighbour

\* The thread of a free row has found something.
LEMMA FindFacts ==
  ASSUME IInv, NEW phase \in 1..2, NEW i \in Rows, FindStrongestNeighbour(phase, i)
  PROVE  /\ i \in threads /\ threads' = threads \ {i}
         /\ kernel = Find(phase) /\ kernel' = kernel /\ input' = input /\ began' = began
         /\ candidates' = candidates /\ icount' = icount /\ unassigned' = unassigned
         /\ previous' = previous /\ counted' = counted
         /\ hands' \in [1..2 -> [Rows -> Labels]]
         /\ aggregates' \in [Rows -> Labels]
         /\ aggregates[i] = -1
         /\ Growing /\ Joining
         /\ \A j \in Rows \ {i} : /\ aggregates'[j] = aggregates[j]
                                  /\ \A p \in 1..2 : hands'[p][j] = hands[p][j]
         /\ \A p \in 1..2 \ {phase} : hands'[p] = hands[p]
<1>1. /\ i \in threads /\ threads' = threads \ {i}
      /\ kernel = Find(phase) /\ kernel' = kernel /\ input' = input /\ began' = began
      /\ candidates' = candidates /\ icount' = icount /\ unassigned' = unassigned
      /\ previous' = previous /\ counted' = counted
  BY DEF FindStrongestNeighbour, host
<1>2. /\ hands \in [1..2 -> [Rows -> Labels]] /\ aggregates \in [Rows -> Labels]
      /\ Rows \subseteq Labels
  BY DEF IInv, Types, Labels
<1>3. aggregates[i] = -1
  BY FindOutcome
<1>4. CASE FindsAggregate(phase, i)
  <2>1. /\ hands' = hands
        /\ aggregates' = [aggregates EXCEPT ![i] = aggregates'[i]]
        /\ aggregates'[i] \in Rows
        /\ Joins(i, aggregates'[i])
    BY <1>4 DEF FindsAggregate
  <2>2. aggregates' \in [Rows -> Labels]
    BY <1>2, <2>1
  <2>3. \A j \in Rows \ {i} : aggregates'[j] = aggregates[j]
    BY <1>2, <2>1
  <2>4. Growing /\ Joining
    BY <1>3, <2>1, <2>3 DEF Growing, Joining
  <2> QED
    BY <1>1, <1>2, <1>3, <2>1, <2>2, <2>3, <2>4
<1>5. ASSUME NEW h \in Rows, FindsHand(phase, i, h)
      PROVE  /\ hands' \in [1..2 -> [Rows -> Labels]]
             /\ aggregates' = aggregates
             /\ \A j \in Rows \ {i} : \A p \in 1..2 : hands'[p][j] = hands[p][j]
             /\ \A p \in 1..2 \ {phase} : hands'[p] = hands[p]
  <2>1. /\ hands' = [hands EXCEPT ![phase][i] = h] /\ aggregates' = aggregates
    BY <1>5 DEF FindsHand
  <2>2. h \in Labels
    BY <1>2
  <2> QED
    BY <1>2, <2>1, <2>2
<1>6. CASE \E h \in Rows : FindsHand(phase, i, h)
  BY <1>1, <1>2, <1>3, <1>5, <1>6 DEF Growing, Joining
<1> QED
  BY <1>4, <1>6, FindOutcome

LEMMA FindKeepsHands ==
  ASSUME IInv, NEW phase \in 1..2, NEW i \in Rows, FindStrongestNeighbour(phase, i)
  PROVE  Types' /\ Kernels' /\ Hands' /\ Handed' /\ Candidates'
<1>1. Types'
  <2>1. threads' \subseteq Rows
    BY FindFacts DEF IInv, Types
  <2> QED
    BY <2>1, FindFacts DEF IInv, Types
<1>2. Kernels'
  <2>1. threads' \subseteq Free(aggregates')
    BY FindFacts DEF IInv, Kernels, Free, Types, Find
  <2>2. \A j \in Rows : began'[j] # -1 => aggregates'[j] = began'[j]
    BY FindFacts DEF IInv, Kernels, Growing
  <2>3. kernel' \in {"find", "find2"} /\ (kernel' = "find2" => input'.two_phase)
    BY FindFacts DEF IInv, Kernels, Find
  <2> QED
    BY <2>1, <2>2, <2>3 DEF Kernels
<1>3. Hands'
  <2>1. ASSUME NEW j \in Rows, NEW p \in 1..2
        PROVE  hands'[p][j] \in {-1, j} \cup Neighbors(j)'
    <3>1. hands[p][j] \in {-1, j} \cup Neighbors(j)
      BY DEF IInv, Hands
    <3>2. Neighbors(j)' = Neighbors(j)
      BY FindFacts, SameInput
    <3>3. CASE hands'[p][j] = hands[p][j]
      BY <3>1, <3>2, <3>3
    <3>4. CASE hands'[p][j] # hands[p][j]
      <4>1. j = i /\ p = phase
        BY <3>4, FindFacts
      <4>2. PICK h \in Rows : FindsHand(phase, i, h)
        BY <3>4, FindOutcome DEF FindsAggregate
      <4>3. hands'[p][j] = h
        BY <4>1, <4>2 DEF FindsHand, IInv, Types
      <4> QED
        BY <3>2, <4>1, <4>2, <4>3 DEF FindsHand
    <3> QED
      BY <3>3, <3>4
  <2>2. ASSUME NEW j \in Rows, hands'[1][j] \notin {-1, j}
        PROVE  input'.weight[<<j, hands'[1][j]>>] >= 0
    <3>1. input' = input
      BY FindFacts
    <3>2. CASE hands'[1][j] = hands[1][j]
      BY <2>2, <3>1, <3>2 DEF IInv, Hands
    <3>3. CASE hands'[1][j] # hands[1][j]
      <4>1. j = i /\ phase = 1
        BY <3>3, FindFacts
      <4>2. PICK h \in Rows : FindsHand(phase, i, h)
        BY <3>3, FindOutcome DEF FindsAggregate
      <4>3. hands'[1][j] = h
        BY <4>1, <4>2 DEF FindsHand, IInv, Types
      <4> QED
        BY <2>2, <3>1, <4>1, <4>2, <4>3 DEF FindsHand
    <3> QED
      BY <3>2, <3>3
  <2> QED
    BY <2>1, <2>2 DEF Hands
<1>4. aggregates'[i] # -1 \/ hands'[phase][i] # -1
  <2>1. CASE FindsAggregate(phase, i)
    BY <2>1, NoRowIsFree DEF FindsAggregate
  <2>2. ASSUME NEW h \in Rows, FindsHand(phase, i, h)
        PROVE  hands'[phase][i] = h
    BY <2>2 DEF FindsHand, IInv, Types
  <2> QED
    BY <2>1, <2>2, FindOutcome, NoRowIsFree
<1>5. Handed'
  <2>1. CASE phase = 1
    <3>1. kernel' = "find" /\ kernel = "find"
      BY <2>1, FindFacts DEF Find
    <3>2. \A j \in Free(aggregates) \ threads : hands[1][j] # -1
      BY <3>1 DEF IInv, Handed
    <3>3. \A j \in Free(aggregates') \ threads' : hands'[1][j] # -1
      BY <1>4, <2>1, <3>2, FindFacts DEF Free
    <3> QED
      BY <3>1, <3>3 DEF Handed
  <2>2. CASE phase = 2
    <3>1. kernel' = "find2" /\ kernel = "find2" /\ hands'[1] = hands[1]
      BY <2>2, FindFacts DEF Find
    <3>2. \A j \in Free(aggregates) :
            hands[1][j] # -1 /\ (j \notin threads => hands[2][j] # -1)
      BY <3>1 DEF IInv, Handed
    <3>3. \A j \in Free(aggregates') :
            hands'[1][j] # -1 /\ (j \notin threads' => hands'[2][j] # -1)
      BY <1>4, <2>2, <3>1, <3>2, FindFacts DEF Free
    <3> QED
      BY <3>1, <3>3 DEF Handed
  <2> QED
    BY <2>1, <2>2
<1>6. Candidates'
  BY FindFacts DEF Candidates, Find
<1> QED
  BY <1>1, <1>2, <1>3, <1>5, <1>6

LEMMA FindKeepsLabels ==
  ASSUME IInv, NEW phase \in 1..2, NEW i \in Rows, FindStrongestNeighbour(phase, i)
  PROVE  LabelsInv' /\ NobodyWaits'
<1>1. LabelsInv'
  <2>1. \A h \in Rows : aggregates[h] # -1 => strongest_neighbour'[h] = strongest_neighbour[h]
    <3>1. SUFFICES ASSUME NEW h \in Rows, aggregates[h] # -1
                   PROVE  strongest_neighbour'[h] = strongest_neighbour[h]
      OBVIOUS
    <3>2. h # i /\ input' = input
      BY <3>1, FindFacts
    <3> QED
      BY <3>2, FindFacts DEF strongest_neighbour
  <2>2. Types /\ LabelsInv
    BY DEF IInv
  <2> QED
    BY <2>1, <2>2, FindFacts, JoiningKeepsLabels
<1>2. NobodyWaits'
  <2>1. SUFFICES ASSUME ~input.two_phase, kernel \in {"find", "match", "count"},
                        NEW j \in Rows, aggregates'[j] # -1, hands'[1][j] \notin {-1, j}
                 PROVE  aggregates'[hands'[1][j]] # -1
    BY FindFacts DEF NobodyWaits
  <2>2. phase = 1
    BY <2>1, FindFacts DEF Find, IInv, Kernels
  <2>3. hands'[1][j] = hands[1][j]
    <3>1. CASE j # i
      BY <3>1, FindFacts
    <3>2. CASE j = i
      BY <2>1, <3>2, FindFacts, FindOutcome DEF FindsHand, FindsAggregate
    <3> QED
      BY <3>1, <3>2
  <2> DEFINE h == hands[1][j]
  <2>4. h \in Neighbors(j) /\ h \in Rows /\ input.weight[<<j, h>>] >= 0
    BY <2>1, <2>3 DEF IInv, Hands, Neighbors
  <2> HIDE DEF h
  <2>5. aggregates[h] # -1
    <3>1. CASE j # i
      BY <2>1, <2>3, <3>1, FindFacts DEF h, IInv, NobodyWaits
    <3>2. CASE j = i
      <4>1. FindsAggregate(1, i)
        BY <2>1, <2>2, <3>2, FindFacts, FindOutcome DEF FindsHand
      <4> QED
        BY <2>4, <3>2, <4>1 DEF FindsAggregate
    <3> QED
      BY <3>1, <3>2
  <2>6. aggregates'[h] # -1
    BY <2>4, <2>5, FindFacts DEF Growing
  <2> QED
    BY <2>3, <2>6 DEF h
<1> QED
  BY <1>1, <1>2

LEMMA FindKeepsCounts ==
  ASSUME IInv, NEW phase \in 1..2, NEW i \in Rows, FindStrongestNeighbour(phase, i)
  PROVE  Counts' /\ Progress'
<1>1. FreeCount' <= FreeCount /\ FreeCount \in Nat /\ FreeCount' \in Nat
  BY FindFacts, FreeShrinks
<1>2. kernel' = kernel /\ kernel \in {"find", "find2"} /\ InRound /\ InRound'
  BY FindFacts DEF Find, InRound
<1>3. Counts'
  <2>1. unassigned \in Nat /\ counted \in Nat
    BY DEF IInv, Types
  <2>2. FreeCount <= unassigned /\ (icount % 2 = 1 => FreeCount <= counted)
    BY <1>2 DEF IInv, Counts
  <2>3. FreeCount' <= unassigned' /\ (icount' % 2 = 1 => FreeCount' <= counted')
    BY <1>1, <2>1, <2>2, FindFacts
  <2> QED
    BY <1>2, <2>3 DEF Counts
<1>4. Progress'
  <2>1. SUFFICES ASSUME ~input.two_phase PROVE Progress'
    BY FindFacts DEF Progress
  <2>2. kernel = "find" /\ phase = 1
    BY <2>1, FindFacts DEF IInv, Kernels, Find
  <2>3. /\ icount % 2 = 0 => Cardinality(Free(began)) <= unassigned
        /\ (icount % 2 = 1 /\ counted = unassigned) => NothingToPair
        /\ Free(aggregates) = Free(began) =>
             \A j \in Free(aggregates) \ threads : hands[1][j] = Choice(j)
    BY <2>1, <2>2 DEF IInv, Progress, InRound
  <2>4. icount' % 2 = 0 => Cardinality(Free(began')) <= unassigned'
    BY <2>3, FindFacts
  <2>5. (icount' % 2 = 1 /\ counted' = unassigned') => NothingToPair'
    BY <2>3, FindFacts, FreeShrinks
  <2>6. ASSUME Free(aggregates') = Free(began'), NEW j \in Free(aggregates') \ threads'
        PROVE  hands'[1][j] = Choice(j)'
    <3>1. Choice(j)' = Choice(j)
      BY FindFacts DEF Choice, Neighbors
    <3>2. Free(aggregates') = Free(aggregates) /\ Free(aggregates) = Free(began)
      BY <2>6, FindFacts, FreeShrinks, FreeSinceBegan DEF IInv
    <3>3. began = aggregates
      BY <3>2, FreeSinceBegan DEF IInv
    <3>4. aggregates'[i] = -1
      BY <3>2, FindFacts DEF Free
    <3>5. CASE j = i
      <4>1. PICK h \in Rows : FindsHand(phase, i, h)
        BY <3>4, FindOutcome, NoRowIsFree DEF FindsAggregate
      <4>2. hands'[1][i] = h
        BY <2>2, <4>1 DEF FindsHand, IInv, Types
      <4> QED
        BY <2>2, <3>1, <3>3, <3>5, <4>1, <4>2 DEF FindsHand
    <3>6. CASE j # i
      <4>1. j \in Free(aggregates) \ threads /\ j \in Rows
        BY <2>6, <3>2, <3>6, FindFacts DEF Free
      <4> QED
        BY <2>3, <3>1, <3>2, <3>6, <4>1, FindFacts
    <3> QED
      BY <3>5, <3>6
  <2> QED
    BY <1>2, <2>2, <2>4, <2>5, <2>6 DEF Progress
<1> QED
  BY <1>3, <1>4

LEMMA FindStep ==
  ASSUME IInv, NEW phase \in 1..2, NEW i \in Rows, FindStrongestNeighbour(phase, i)
  PROVE  IInv'
  BY FindKeepsHands, FindKeepsLabels, FindKeepsCounts DEF IInv

-----------------------------------------------------------------------------
(* The steps of the host and of the kernel that looks for pairs. *)

\* What no step of the host changes.
LEMMA SameState ==
  ASSUME IInv, input' = input, aggregates' = aggregates, hands' = hands
  PROVE  /\ LabelsInv' /\ Hands' /\ FreeCount' = FreeCount
         /\ Free(aggregates') = Free(aggregates)
         /\ Growing /\ FreeCount \in Nat
         /\ strongest_neighbour' = strongest_neighbour
         /\ NothingToPair => NothingToPair'
         /\ (kernel \in {"find", "match", "count"} /\ kernel' # "merge") => NobodyWaits'
<1>1. strongest_neighbour' = strongest_neighbour
  BY DEF strongest_neighbour
<1>2. /\ NamesTaken' /\ Misnamed' /\ Named'
  BY <1>1 DEF IInv, LabelsInv, NamesTaken, Misnamed, Named, Members
<1>3. Pieces'
  BY DEF IInv, LabelsInv, Pieces, Connected, Members
<1>4. Hands'
  BY DEF IInv, Hands, Neighbors
<1>5. Growing /\ FreeCount \in Nat
  BY FreeShrinks DEF Growing
<1>6. (kernel \in {"find", "match", "count"} /\ kernel' # "merge") => NobodyWaits'
  BY DEF IInv, NobodyWaits
<1> QED
  BY <1>1, <1>2, <1>3, <1>4, <1>5, <1>6 DEF LabelsInv, FreeCount, NothingToPair

LEMMA NoneFree ==
  ASSUME FreeCount = 0
  PROVE  Free(aggregates) = {}
<1>1. Free(aggregates) \in SUBSET Rows /\ IsFiniteSet(Rows)
  BY Size2Assumption DEF Free, Size2Assumption
<1>2. IsFiniteSet(Free(aggregates))
  BY <1>1, FS_Subset
<1> QED
  BY <1>2, FS_EmptySet DEF FreeCount

LEMMA EndFindStep ==
  ASSUME IInv, NEW phase \in 1..2, EndFind(phase)
  PROVE  IInv'
<1>1. /\ kernel = Find(phase) /\ threads = {} /\ input' = input
      /\ aggregates' = aggregates /\ hands' = hands /\ candidates' = candidates
      /\ icount' = icount /\ unassigned' = unassigned
      /\ previous' = previous /\ counted' = counted
  BY DEF EndFind, state, host
<1>2. Free(aggregates) \subseteq Rows /\ FreeCount' = FreeCount
  BY <1>1, SameState DEF Free
<1>3. InRound /\ kernel \in {"find", "find2"}
  BY <1>1 DEF InRound, Find
<1>4. input.two_phase \in BOOLEAN
  BY InputFacts DEF IInv
<1>5. CASE input.two_phase /\ phase = 1
  <2>1. /\ kernel' = "find2" /\ threads' = Free(aggregates') /\ began' = aggregates'
    BY <1>5 DEF EndFind, Launch
  <2>2. Types'
    BY <1>1, <1>2, <2>1 DEF IInv, Types
  <2>3. Kernels'
    BY <1>1, <1>5, <2>1 DEF Kernels
  <2>4. Handed'
    <3>1. kernel = "find"
      BY <1>1, <1>5 DEF Find
    <3>2. \A i \in Free(aggregates) : hands[1][i] # -1
      BY <1>1, <3>1 DEF IInv, Handed
    <3> QED
      BY <1>1, <2>1, <3>2 DEF Handed
  <2>5. Candidates' /\ NobodyWaits' /\ Progress'
    BY <1>1, <1>5, <2>1 DEF Candidates, NobodyWaits, Progress
  <2>6. Counts'
    BY <1>1, <1>2, <1>3, <2>1 DEF IInv, Counts, InRound
  <2> QED
    BY <1>1, <2>2, <2>3, <2>4, <2>5, <2>6, SameState DEF IInv
<1>6. CASE ~(input.two_phase /\ phase = 1)
  <2>1. /\ kernel' = "match" /\ threads' = threads /\ began' = began
    BY <1>6 DEF EndFind, Goto
  <2>2. Types'
    BY <1>1, <1>2, <2>1 DEF IInv, Types
  <2>3. Kernels'
    BY <1>1, <2>1 DEF IInv, Kernels
  <2>4. Handed'
    <3>1. \A i \in Free(aggregates) : strongest_neighbour[i] # -1
      <4>1. CASE phase = 1
        BY <1>1, <1>6, <4>1 DEF IInv, Handed, Find, strongest_neighbour
      <4>2. CASE phase = 2
        <5>1. kernel = "find2" /\ input.two_phase
          BY <1>1, <4>2 DEF IInv, Kernels, Find
        <5> QED
          BY <1>1, <5>1 DEF IInv, Handed, strongest_neighbour
      <4> QED
        BY <4>1, <4>2
    <3> QED
      BY <1>1, <2>1, <3>1, SameState DEF Handed
  <2>5. Candidates' /\ NobodyWaits'
    <3>1. ~input.two_phase => kernel = "find"
      BY <1>1, <1>3 DEF IInv, Kernels
    <3> QED
      BY <1>1, <2>1, <3>1 DEF Candidates, NobodyWaits, IInv
  <2>6. Counts'
    BY <1>1, <1>2, <1>3, <2>1 DEF IInv, Counts, InRound
  <2>7. Progress'
    <3>1. SUFFICES ASSUME ~input.two_phase PROVE Progress'
      BY <1>1 DEF Progress
    <3>2. kernel = "find"
      BY <1>3, <3>1 DEF IInv, Kernels
    <3>3. /\ icount % 2 = 0 => Cardinality(Free(began)) <= unassigned
          /\ (icount % 2 = 1 /\ counted = unassigned) => NothingToPair
          /\ Free(aggregates) = Free(began) =>
               \A j \in Free(aggregates) \ threads : hands[1][j] = Choice(j)
      BY <3>1, <3>2 DEF IInv, Progress, InRound
    <3>4. \A j : Choice(j)' = Choice(j)
      BY <1>1, <2>1 DEF Choice, Neighbors
    <3>5. (icount' % 2 = 1 /\ counted' = unassigned') => NothingToPair'
      BY <1>1, <3>3, SameState
    <3> QED
      BY <1>1, <2>1, <3>3, <3>4, <3>5 DEF Progress
  <2> QED
    BY <1>1, <2>2, <2>3, <2>4, <2>5, <2>6, <2>7, SameState DEF IInv
<1> QED
  BY <1>5, <1>6

LEMMA StartCountStep ==
  ASSUME IInv, StartCount
  PROVE  IInv'
<1>1. /\ kernel = "count" /\ icount % 2 = 0 /\ counted' = FreeCount /\ icount' = icount + 1
      /\ input' = input /\ aggregates' = aggregates /\ hands' = hands
      /\ candidates' = candidates /\ unassigned' = unassigned /\ previous' = previous
      /\ kernel' = "find" /\ threads' = Free(aggregates') /\ began' = aggregates'
  BY DEF StartCount, Launch, FreeCount
<1>2. icount \in Nat /\ icount' % 2 = 1
  <2>1. icount \in Nat
    BY DEF IInv, Types
  <2> QED
    BY <1>1, <2>1
<1>3. FreeCount \in Nat /\ FreeCount' = FreeCount
  BY <1>1, SameState
<1>4. Types'
  BY <1>1, <1>2, <1>3 DEF IInv, Types, Free
<1>5. Kernels' /\ Handed' /\ Candidates'
  BY <1>1 DEF Kernels, Handed, Candidates
<1>6. NobodyWaits'
  BY <1>1, SameState
<1>7. Counts'
  BY <1>1, <1>2, <1>3 DEF IInv, Counts
<1>8. Progress'
  <2>1. SUFFICES ASSUME ~input.two_phase PROVE Progress'
    BY <1>1 DEF Progress
  <2>2. /\ Cardinality(Free(began)) <= unassigned
        /\ Free(aggregates) = Free(began) => NothingToPair
    BY <1>1, <2>1 DEF IInv, Progress, InRound
  <2>3. ASSUME counted' = unassigned'
        PROVE  NothingToPair'
    <3>1. Free(aggregates) \in SUBSET Free(began) /\ Free(began) \in SUBSET Rows
      BY FreeSinceBegan DEF IInv, Free
    <3>2. Cardinality(Free(began)) <= FreeCount
      BY <1>1, <2>2, <2>3
    <3>3. Cardinality(Free(aggregates)) = Cardinality(Free(began))
      BY <1>3, <3>1, <3>2, RowSets DEF FreeCount
    <3>4. Free(aggregates) = Free(began)
      BY <3>1, <3>3, RowSets
    <3> QED
      BY <1>1, <2>2, <3>4, SameState
  <2> QED
    BY <1>1, <1>2, <2>3 DEF Progress
<1> QED
  BY <1>1, <1>4, <1>5, <1>6, <1>7, <1>8, SameState DEF IInv

LEMMA ReadCountStep ==
  ASSUME IInv, ReadCount
  PROVE  IInv'
<1>1. /\ kernel = "count" /\ icount % 2 = 1 /\ counted' = counted /\ icount' = icount + 1
      /\ input' = input /\ aggregates' = aggregates /\ hands' = hands
      /\ candidates' = candidates /\ unassigned' = counted /\ previous' = unassigned
  BY DEF ReadCount
<1>2. icount \in Nat /\ icount' % 2 = 0 /\ counted \in Nat /\ unassigned \in Nat
  <2>1. icount \in Nat /\ counted \in Nat /\ unassigned \in Nat
    BY DEF IInv, Types
  <2> QED
    BY <1>1, <2>1
<1>3. FreeCount \in Nat /\ FreeCount' = FreeCount /\ FreeCount <= counted
  BY <1>1, SameState DEF IInv, Counts, InRound
<1>4. (~input.two_phase /\ counted = unassigned) => NothingToPair
  BY <1>1 DEF IInv, Progress, InRound
<1>5. CASE ~Ends(unassigned', previous', icount')
  <2>1. kernel' = "find" /\ threads' = Free(aggregates') /\ began' = aggregates'
    BY <1>5 DEF ReadCount, Launch
  <2>2. Types'
    BY <1>1, <1>2, <2>1 DEF IInv, Types, Free
  <2>3. Kernels' /\ Handed' /\ Candidates'
    BY <2>1 DEF Kernels, Handed, Candidates
  <2>4. NobodyWaits'
    BY <1>1, <2>1, SameState
  <2>5. Counts'
    BY <1>1, <1>2, <1>3, <2>1 DEF Counts
  <2>6. Progress'
    BY <1>1, <1>2, <1>3, <2>1 DEF Progress, FreeCount
  <2> QED
    BY <1>1, <2>2, <2>3, <2>4, <2>5, <2>6, SameState DEF IInv
<1>6. CASE Ends(unassigned', previous', icount')
  <2>1. kernel' \in {"left", "singletons"} /\ threads' = threads /\ began' = began
    BY <1>6 DEF ReadCount, Goto
  <2>2. Types'
    BY <1>1, <1>2, <2>1 DEF IInv, Types
  <2>3. Kernels' /\ Handed' /\ Candidates' /\ NobodyWaits'
    BY <1>1, <2>1 DEF IInv, Kernels, Handed, Candidates, NobodyWaits
  <2>4. Counts'
    BY <1>1, <1>3, <2>1 DEF Counts, InRound
  <2>5. Progress'
    <3>1. SUFFICES ASSUME ~input.two_phase, icount' <= input.max_iterations,
                          100 * unassigned' >= input.tolerance * Cardinality(Rows)
                   PROVE  NothingToPair'
      BY <1>1, <2>1 DEF Progress, InRound
    <3>2. unassigned' = 0 \/ unassigned' = previous'
      <4>1. ~(icount' > input.max_iterations)
        <5>1. input.max_iterations \in Nat /\ icount' \in Nat
          BY <2>2, InputFacts DEF IInv, Types
        <5> QED
          BY <3>1, <5>1
      <4>2. ~(100 * unassigned' < input.tolerance * Cardinality(Rows))
        <5> DEFINE most == input.tolerance * Cardinality(Rows)
        <5>1. Cardinality(Rows) \in Nat /\ input.tolerance \in Nat
          BY InputFacts, RowSets DEF IInv
        <5>2. most \in Nat
          BY <5>1
        <5>3. 100 * unassigned' >= most
          BY <3>1
        <5> HIDE DEF most
        <5>4. ~(100 * unassigned' < most)
          BY <1>1, <1>2, <5>2, <5>3
        <5> QED
          BY <5>4 DEF most
      <4> QED
        BY <1>6, <4>1, <4>2 DEF Ends
    <3>3. CASE unassigned' = 0
      <4>1. FreeCount = 0
        BY <1>1, <1>2, <1>3, <3>3
      <4>2. NothingToPair
        BY <4>1, NoneFree DEF NothingToPair
      <4> QED
        BY <1>1, <4>2, SameState
    <3>4. CASE unassigned' = previous'
      BY <1>1, <1>4, <3>1, <3>4, SameState
    <3> QED
      BY <3>2, <3>3, <3>4
  <2> QED
    BY <1>1, <2>2, <2>3, <2>4, <2>5, SameState DEF IInv
<1> QED
  BY <1>5, <1>6

-----------------------------------------------------------------------------
(* A round with something to pair finds a pair. *)

\* What a row chooses when it sees things as they are.
LEMMA ChoiceFacts ==
  ASSUME IInv, began = aggregates, NEW i \in Rows
  PROVE  LET near == Neighbors(i) \cap Free(aggregates)
         IN \/ \A j \in near : input.weight[<<i, j>>] < 0
            \/ /\ Choice(i) \in near
               /\ \A j \in near :
                    \/ input.weight[<<i, j>>] < input.weight[<<i, Choice(i)>>]
                    \/ /\ input.weight[<<i, j>>] = input.weight[<<i, Choice(i)>>]
                       /\ j <= Choice(i)
<1> DEFINE near == Neighbors(i) \cap Free(aggregates)
           w == [j \in Neighbors(i) |-> input.weight[<<i, j>>]]
           u == Strongest(near, w)
<1>1. near \in SUBSET Rows /\ Rows \subseteq Nat /\ IsFiniteSet(Rows)
  BY InputFacts DEF IInv, Neighbors
<1>2. \A j \in near : w[j] = input.weight[<<i, j>>] /\ w[j] \in Int
  BY NeighborFacts DEF IInv
<1>3. \/ u = -1 /\ \A j \in near : w[j] < 0
      \/ /\ u \in near
         /\ \A j \in near : w[j] < w[u] \/ (w[j] = w[u] /\ j <= u)
  <2> HIDE DEF near, w
  <2> QED
    BY <1>1, <1>2, StrongestFacts
<1>4. u # -1 => Choice(i) = u
  BY DEF Choice
<1>5. u \in near => u # -1
  BY <1>1, NoRowIsFree
<1> HIDE DEF near, w, u
<1>6. CASE u = -1 /\ \A j \in near : w[j] < 0
  BY <1>2, <1>6 DEF near
<1>7. CASE /\ u \in near
           /\ \A j \in near : w[j] < w[u] \/ (w[j] = w[u] /\ j <= u)
  <2>1. Choice(i) = u
    BY <1>4, <1>5, <1>7
  <2>2. \A j \in near : \/ input.weight[<<i, j>>] < input.weight[<<i, u>>]
                        \/ input.weight[<<i, j>>] = input.weight[<<i, u>>] /\ j <= u
    BY <1>2, <1>7
  <2> QED
    BY <1>7, <2>1, <2>2 DEF near
<1> QED
  BY <1>3, <1>6, <1>7

\* Of the rows with an entry of the greatest weight, the last one and the row
\* it chooses choose each other.
LEMMA SomePair ==
  ASSUME IInv, began = aggregates, ~NothingToPair
  PROVE  \E p, k \in Free(aggregates) : p # k /\ Choice(p) = k /\ Choice(k) = p
<1> DEFINE S == {e \in input.edges : {e[1], e[2]} \subseteq Free(aggregates) /\ input.weight[e] > 0}
<1>1. S # {}
  BY DEF NothingToPair
<1>2. IsFiniteSet(S) /\ \A e \in S : input.weight[e] \in Int
  <2>1. IsFiniteSet(Rows \X Rows) /\ S \in SUBSET (Rows \X Rows)
    BY InputFacts, FS_Product DEF IInv
  <2>2. IsFiniteSet(S)
    <3> HIDE DEF S
    <3> QED
      BY <2>1, FS_Subset
  <2> QED
    BY <2>2, InputFacts DEF IInv
<1>3. PICK top \in S : \A e \in S : input.weight[e] <= input.weight[top]
  <2> HIDE DEF S
  <2> QED
    BY <1>1, <1>2, Greatest
<1> DEFINE W == input.weight[top]
           Top(i, j) == /\ i \in Free(aggregates) /\ j \in Free(aggregates)
                        /\ <<i, j>> \in input.edges /\ input.weight[<<i, j>>] = W
           P == {i \in Rows : \E j \in Rows : Top(i, j)}
<1>4. W \in Int /\ W > 0
  BY <1>2
<1>5. ASSUME NEW i \in Free(aggregates), NEW j \in Free(aggregates), <<i, j>> \in input.edges
      PROVE  input.weight[<<i, j>>] \in Int /\ input.weight[<<i, j>>] <= W
  <2> DEFINE e == <<i, j>>
  <2>1. e \in input.edges /\ e[1] = i /\ e[2] = j
    BY <1>5
  <2>2. input.weight[e] \in Int
    BY <2>1, InputFacts DEF IInv
  <2>3. CASE input.weight[e] > 0
    <3>1. e \in S
      BY <1>5, <2>1, <2>3
    <3> QED
      BY <1>3, <2>2, <3>1
  <2>4. CASE ~(input.weight[e] > 0)
    <3> HIDE DEF e, W, S
    <3> QED
      BY <1>4, <2>2, <2>4 DEF e
  <2> QED
    BY <2>3, <2>4
<1>6. ASSUME NEW i \in Rows, NEW j \in Rows, Top(i, j)
      PROVE  Top(j, i)
  <2>1. IF <<j, i>> \in input.edges THEN input.weight[<<i, j>>] = input.weight[<<j, i>>]
        ELSE input.weight[<<i, j>>] = 0
    BY <1>6, InputFacts DEF IInv
  <2> HIDE DEF W
  <2> QED
    BY <1>4, <1>6, <2>1
<1>7. PICK a \in Rows, b \in Rows : Top(a, b)
  <2>1. top \in Rows \X Rows /\ top \in input.edges
    BY InputFacts DEF IInv
  <2>2. top = <<top[1], top[2]>> /\ top[1] \in Rows /\ top[2] \in Rows
    BY <2>1
  <2>3. {top[1], top[2]} \subseteq Free(aggregates)
    OBVIOUS
  <2>4. Top(top[1], top[2])
    BY <2>1, <2>2, <2>3
  <2> QED
    BY <2>2, <2>4
\* Such a row chooses the last of its neighbors with this weight.
<1>8. ASSUME NEW i \in Rows, NEW j \in Rows, Top(i, j)
      PROVE  /\ Choice(i) \in Rows /\ Top(i, Choice(i)) /\ Choice(i) # i
             /\ \A q \in Rows : Top(i, q) => q <= Choice(i)
  <2> DEFINE near == Neighbors(i) \cap Free(aggregates)
  <2>1. \A q \in Rows : Top(i, q) => q \in near /\ input.weight[<<i, q>>] = W
    BY DEF Neighbors
  <2>2. j \in near /\ input.weight[<<i, j>>] = W
    BY <1>8, <2>1
  <2>3. ~(\A q \in near : input.weight[<<i, q>>] < 0)
    <3> HIDE DEF near, W
    <3> QED
      BY <1>4, <2>2
  <2>4. /\ Choice(i) \in near
        /\ \A q \in near :
             \/ input.weight[<<i, q>>] < input.weight[<<i, Choice(i)>>]
             \/ /\ input.weight[<<i, q>>] = input.weight[<<i, Choice(i)>>]
                /\ q <= Choice(i)
    BY <2>3, ChoiceFacts
  <2>5. /\ Choice(i) \in Free(aggregates) /\ <<i, Choice(i)>> \in input.edges
        /\ Choice(i) \in Rows /\ i \in Free(aggregates)
    BY <1>8, <2>4 DEF Neighbors, Free
  <2>6. /\ input.weight[<<i, Choice(i)>>] \in Int
        /\ input.weight[<<i, Choice(i)>>] <= W
    BY <1>5, <2>5
  <2>7. input.weight[<<i, Choice(i)>>] = W
    <3>1. input.weight[<<i, j>>] <= input.weight[<<i, Choice(i)>>]
      BY <1>4, <2>2, <2>4, <2>6
    <3> HIDE DEF W
    <3> QED
      BY <1>4, <2>2, <2>6, <3>1
  <2>8. ASSUME NEW q \in Rows, Top(i, q)
        PROVE  q <= Choice(i)
    <3>1. q \in near /\ input.weight[<<i, q>>] = W
      BY <2>1, <2>8
    <3>2. ~(input.weight[<<i, q>>] < input.weight[<<i, Choice(i)>>])
      <4> HIDE DEF W, near
      <4> QED
        BY <1>4, <2>7, <3>1
    <3> QED
      BY <2>4, <3>1, <3>2
  <2>9. Choice(i) # i
    BY <2>4, NeighborFacts DEF IInv
  <2> QED
    BY <2>5, <2>7, <2>8, <2>9
<1>9. PICK p \in P : \A i \in P : i <= p
  <2> DEFINE id == [i \in Rows |-> i]
  <2>1. P \in SUBSET Rows /\ a \in P
    BY <1>7
  <2>2. \A i \in P : id[i] = i /\ id[i] \in Int
    BY <2>1, NoRowIsFree
  <2>3. IsFiniteSet(P) /\ P # {}
    <3> HIDE DEF P
    <3> QED
      BY <2>1, RowSets
  <2>4. \E s \in P : \A t \in P : id[t] <= id[s]
    <3> HIDE DEF P, id
    <3> QED
      BY <2>2, <2>3, Greatest
  <2> QED
    BY <2>2, <2>4
<1> DEFINE k == Choice(p)
           m == Choice(k)
<1> HIDE DEF Top
<1>10. p \in Rows /\ k \in Rows /\ Top(p, k) /\ k # p
  BY <1>8
<1>11. Top(k, p)
  BY <1>6, <1>10
<1>12. m \in Rows /\ Top(k, m) /\ p <= m
  BY <1>8, <1>10, <1>11
<1>13. m \in P
  BY <1>6, <1>10, <1>12
<1>14. m = p
  <2>1. m <= p /\ m \in Nat /\ p \in Nat
    BY <1>9, <1>10, <1>12, <1>13, NoRowIsFree
  <2> HIDE DEF m
  <2> QED
    BY <1>12, <2>1
<1> QED
  BY <1>10, <1>14 DEF Top

LEMMA RoundProgress ==
  ASSUME IInv, MatchEdges, ~input.two_phase, Free(aggregates') = Free(began)
  PROVE  NothingToPair
<1>1. SUFFICES ASSUME ~NothingToPair PROVE FALSE
  OBVIOUS
<1>2. Growing /\ kernel = "match" /\ threads = {}
  BY MatchKeeps DEF Growing, MatchEdges, IInv, Kernels
<1>3. Free(aggregates) = Free(began) /\ Free(aggregates') = Free(aggregates)
  BY <1>2, FreeShrinks, FreeSinceBegan DEF IInv
<1>4. began = aggregates
  BY <1>3, FreeSinceBegan DEF IInv
<1>5. PICK p \in Free(aggregates), k \in Free(aggregates) :
        p # k /\ Choice(p) = k /\ Choice(k) = p
  BY <1>1, <1>4, SomePair
<1>6. \A i \in Free(aggregates) : strongest_neighbour[i] = Choice(i)
  BY <1>2, <1>3 DEF IInv, Progress, strongest_neighbour
<1>7. ASSUME NEW i \in Free(aggregates), NEW j \in Free(aggregates), i < j,
             Choice(i) = j, Choice(j) = i
      PROVE  FALSE
  <2>1. i \in Rows /\ j \in Rows /\ i \in Nat /\ j \in Nat /\ aggregates[i] = -1
    BY NoRowIsFree DEF Free
  <2>2. strongest_neighbour[i] = j /\ strongest_neighbour[j] = i
    BY <1>6, <1>7
  <2>3. aggregates'[i] = i
    BY <1>7, <2>1, <2>2, MatchNames
  <2>4. aggregates'[i] = -1
    BY <1>3 DEF Free
  <2> QED
    BY <2>1, <2>3, <2>4
<1>8. p \in Nat /\ k \in Nat
  BY NoRowIsFree DEF Free
<1>9. p < k \/ k < p
  BY <1>5, <1>8
<1> QED
  BY <1>5, <1>7, <1>9

LEMMA MatchStep ==
  ASSUME IInv, MatchEdges
  PROVE  IInv'
<1>1. /\ kernel = "match" /\ kernel' = "count" /\ threads' = threads /\ began' = began
      /\ input' = input /\ hands' = hands /\ candidates' = candidates
      /\ icount' = icount /\ unassigned' = unassigned
      /\ previous' = previous /\ counted' = counted
  BY DEF MatchEdges, Goto, host
<1>2. Growing /\ threads = {} /\ aggregates' \in [Rows -> Labels]
  BY <1>1, MatchKeeps DEF Growing, IInv, Kernels
<1>3. Types'
  BY <1>1, <1>2 DEF IInv, Types
<1>4. Kernels'
  <2>1. \A i \in Rows : began[i] # -1 => aggregates'[i] = began[i]
    BY <1>2 DEF IInv, Kernels, Growing
  <2> QED
    BY <1>1, <1>2, <2>1 DEF Kernels
<1>5. Hands' /\ Handed' /\ Candidates'
  BY <1>1 DEF IInv, Hands, Handed, Candidates, Neighbors
<1>6. NobodyWaits'
  <2>1. SUFFICES ASSUME ~input.two_phase,
                        NEW i \in Rows, aggregates'[i] # -1, hands[1][i] \notin {-1, i}
                 PROVE  aggregates'[hands[1][i]] # -1
    BY <1>1 DEF NobodyWaits
  <2>2. strongest_neighbour = hands[1]
    BY <2>1 DEF strongest_neighbour
  <2> DEFINE h == hands[1][i]
  <2>3. h \in Rows
    <3>1. hands[1][i] \in {-1, i} \cup Neighbors(i)
      BY DEF IInv, Hands
    <3>2. Neighbors(i) \subseteq Rows
      BY DEF Neighbors
    <3> QED
      BY <2>1, <3>1, <3>2
  <2> HIDE DEF h
  <2>4. CASE aggregates[i] # -1
    <3>1. aggregates[h] # -1
      BY <1>1, <2>1, <2>4 DEF h, IInv, NobodyWaits
    <3> QED
      BY <1>2, <2>3, <3>1 DEF h, Growing
  <2>5. CASE aggregates[i] = -1
    <3>1. hands[1][h] = i /\ hands[1][i] = h
      BY <2>1, <2>2, <2>5, Matched DEF h
    <3>2. CASE aggregates[h] # -1
      BY <1>2, <2>3, <3>2 DEF h, Growing
    <3>3. CASE aggregates[h] = -1
      <4>1. aggregates'[h] = IF i > h THEN h ELSE i
        BY <2>2, <2>3, <3>1, <3>3 DEF MatchEdges, Match
      <4> QED
        BY <2>3, <4>1, NoRowIsFree DEF h
    <3> QED
      BY <3>2, <3>3
  <2> QED
    BY <2>4, <2>5
<1>7. Counts'
  <2>1. FreeCount' <= FreeCount /\ FreeCount' \in Nat /\ FreeCount \in Nat
    BY <1>2, FreeShrinks
  <2>2. unassigned \in Nat /\ counted \in Nat
    BY DEF IInv, Types
  <2>3. FreeCount <= unassigned /\ (icount % 2 = 1 => FreeCount <= counted)
    BY <1>1 DEF IInv, Counts, InRound
  <2>4. FreeCount' <= unassigned /\ (icount % 2 = 1 => FreeCount' <= counted)
    BY <2>1, <2>2, <2>3
  <2> QED
    BY <1>1, <2>4 DEF Counts
<1>8. Progress'
  <2>1. SUFFICES ASSUME ~input.two_phase PROVE Progress'
    BY <1>1 DEF Progress
  <2>2. /\ icount % 2 = 0 => Cardinality(Free(began)) <= unassigned
        /\ (icount % 2 = 1 /\ counted = unassigned) => NothingToPair
    BY <1>1, <2>1 DEF IInv, Progress, InRound
  <2>3. (icount' % 2 = 1 /\ counted' = unassigned') => NothingToPair'
    BY <1>1, <1>2, <2>2, FreeShrinks
  <2>4. Free(aggregates') = Free(began') => NothingToPair'
    BY <1>1, <1>2, <2>1, RoundProgress, FreeShrinks
  <2> QED
    BY <1>1, <2>2, <2>3, <2>4 DEF Progress
<1> QED
  BY <1>3, <1>4, <1>5, <1>6, <1>7, <1>8, MatchKeepsLabels DEF IInv

-----------------------------------------------------------------------------
(* The steps that merge what the rounds leave. *)

\* A row joins a neighbor's aggregate or begins its own.
LEMMA JoinedFacts ==
  ASSUME IInv, NEW i \in Rows, NEW view \in Views(i)
  PROVE  Joined(i, view) \in Rows /\ Joins(i, Joined(i, view))
<1> DEFINE w == [j \in Neighbors(i) |-> input.weight[<<i, j>>]]
           rows == Neighbors(i) \ Free(view)
           j == Strongest(rows, w)
<1>1. rows \in SUBSET Rows /\ Rows \subseteq Nat /\ IsFiniteSet(Rows)
  BY InputFacts DEF IInv, Neighbors
<1>2. \A k \in rows : w[k] \in Int
  BY NeighborFacts DEF IInv
<1>3. j = -1 \/ j \in rows
  <2> HIDE DEF rows, w
  <2> QED
    BY <1>1, <1>2, StrongestFacts
<1>4. Joined(i, view) = IF j = -1 THEN i ELSE view[j]
  BY DEF Joined
<1> HIDE DEF j, w
<1>5. CASE j = -1
  BY <1>4, <1>5 DEF Joins
<1>6. CASE j # -1
  <2>1. j \in Neighbors(i) /\ j \in Rows /\ view[j] # -1
    BY <1>1, <1>3, <1>6 DEF Free
  <2>2. view[j] \in Labels /\ aggregates[j] = view[j]
    BY <2>1, ViewFacts DEF IInv
  <2> QED
    BY <1>4, <1>6, <2>1, <2>2 DEF Joins, Labels
<1> QED
  BY <1>5, <1>6

\* What a step that lets free rows join preserves.
LEMMA JoiningStep ==
  ASSUME IInv, input' = input, hands' = hands, Joining, aggregates' \in [Rows -> Labels]
  PROVE  /\ LabelsInv' /\ Hands' /\ Growing
         /\ FreeCount' <= FreeCount /\ FreeCount \in Nat /\ FreeCount' \in Nat
         /\ NothingToPair => NothingToPair'
<1>1. Growing
  BY DEF Growing, Joining
<1>2. strongest_neighbour' = strongest_neighbour
  BY SameInput
<1>3. LabelsInv'
  BY <1>2, JoiningKeepsLabels DEF IInv
<1>4. Hands'
  BY DEF IInv, Hands, Neighbors
<1> QED
  BY <1>1, <1>3, <1>4, FreeShrinks

LEMMA MergeStep ==
  ASSUME IInv, NEW i \in Rows, Merge(i)
  PROVE  IInv'
<1>1. /\ kernel = "merge" /\ kernel' = "merge" /\ i \in threads /\ threads' = threads \ {i}
      /\ input' = input /\ began' = began /\ hands' = hands /\ icount' = icount
      /\ unassigned' = unassigned /\ previous' = previous /\ counted' = counted
  BY DEF Merge, host
<1>2. PICK label \in Rows :
        /\ Joins(i, label)
        /\ \/ /\ input.deterministic /\ aggregates' = aggregates
              /\ candidates' = [candidates EXCEPT ![i] = label]
           \/ /\ candidates' = candidates
              /\ aggregates' = [aggregates EXCEPT ![i] = label]
  <2>1. PICK view \in Views(i) :
          IF input.deterministic
          THEN /\ candidates' = [candidates EXCEPT ![i] = Joined(i, view)]
               /\ UNCHANGED aggregates
          ELSE /\ aggregates' = [aggregates EXCEPT ![i] = Joined(i, view)]
               /\ UNCHANGED candidates
    BY DEF Merge
  <2>2. Joined(i, view) \in Rows /\ Joins(i, Joined(i, view))
    BY JoinedFacts
  <2> QED
    BY <2>1, <2>2
<1>3. /\ aggregates \in [Rows -> Labels] /\ candidates \in [Rows -> Labels]
      /\ label \in Labels /\ label # -1
  BY NoRowIsFree DEF IInv, Types, Labels
<1>4. aggregates[i] = -1
  BY <1>1 DEF IInv, Kernels, Free
<1>5. /\ aggregates' \in [Rows -> Labels] /\ candidates' \in [Rows -> Labels]
      /\ \A j \in Rows \ {i} : aggregates'[j] = aggregates[j] /\ candidates'[j] = candidates[j]
      /\ \/ input.deterministic /\ aggregates' = aggregates /\ candidates'[i] = label
         \/ aggregates'[i] = label
  BY <1>2, <1>3
<1>6. Joining
  BY <1>2, <1>4, <1>5 DEF Joining
<1>7. Growing
  BY <1>1, <1>5, <1>6, JoiningStep
<1>8. Types'
  BY <1>1, <1>5 DEF IInv, Types
<1>9. Kernels'
  <2>1. \A j \in Rows : began[j] # -1 => aggregates'[j] = began[j]
    BY <1>7 DEF IInv, Kernels, Growing
  <2>2. threads' \subseteq Free(aggregates')
    BY <1>1, <1>5 DEF IInv, Kernels, Free
  <2> QED
    BY <1>1, <2>1, <2>2 DEF Kernels
<1>10. Handed' /\ NobodyWaits'
  BY <1>1 DEF Handed, NobodyWaits
<1>11. Candidates'
  <2>1. SUFFICES ASSUME NEW j \in Free(aggregates') \ threads'
                 PROVE  input.deterministic /\ Joins(j, candidates[j])'
    BY <1>1 DEF Candidates
  <2>2. j \in Rows /\ aggregates'[j] = -1
    BY DEF Free
  <2>3. input.deterministic /\ Joins(j, candidates'[j])
    <3>1. CASE j = i
      BY <1>2, <1>3, <1>5, <2>2, <3>1
    <3>2. CASE j # i
      <4>1. j \in Free(aggregates) \ threads
        BY <1>1, <1>5, <2>1, <2>2, <3>2 DEF Free
      <4> QED
        BY <1>1, <1>5, <2>2, <3>2, <4>1 DEF IInv, Candidates
    <3> QED
      BY <3>1, <3>2
  <2>4. Neighbors(j) \subseteq Rows
    BY DEF Neighbors
  <2> QED
    <3>1. Neighbors(j)' = Neighbors(j)
      BY <1>1 DEF Neighbors
    <3> QED
      BY <1>7, <2>3, <2>4, <3>1 DEF Joins, Growing
<1>12. Counts'
  <2>1. FreeCount' <= FreeCount /\ FreeCount \in Nat /\ FreeCount' \in Nat
    BY <1>1, <1>5, <1>6, JoiningStep
  <2>2. FreeCount <= unassigned /\ unassigned \in Nat
    BY DEF IInv, Counts, Types
  <2>3. FreeCount' <= unassigned
    BY <2>1, <2>2
  <2> QED
    BY <1>1, <2>3 DEF Counts, InRound
<1>13. Progress'
  BY <1>1, <1>5, <1>6, JoiningStep DEF IInv, Progress, InRound
<1> QED
  BY <1>1, <1>5, <1>6, <1>8, <1>9, <1>10, <1>11, <1>12, <1>13, JoiningStep DEF IInv

LEMMA LaunchMergeStep ==
  ASSUME IInv, LaunchMerge
  PROVE  IInv'
<1>1. /\ kernel = "left" /\ kernel' = "merge" /\ threads' = Free(aggregates')
      /\ began' = aggregates' /\ input' = input /\ aggregates' = aggregates
      /\ hands' = hands /\ candidates' = candidates /\ icount' = icount
      /\ unassigned' = unassigned /\ previous' = previous /\ counted' = counted
  BY DEF LaunchMerge, Launch, state, host
<1>2. Types'
  BY <1>1 DEF IInv, Types, Free
<1>3. Kernels' /\ Handed' /\ Candidates' /\ NobodyWaits'
  BY <1>1 DEF Kernels, Handed, Candidates, NobodyWaits
<1>4. Counts'
  BY <1>1, SameState DEF IInv, Counts, InRound
<1>5. Progress'
  BY <1>1, SameState DEF IInv, Progress, InRound
<1> QED
  BY <1>1, <1>2, <1>3, <1>4, <1>5, SameState DEF IInv

LEMMA EndMergeStep ==
  ASSUME IInv, EndMerge
  PROVE  IInv'
<1>1. /\ kernel = "merge" /\ threads = {} /\ kernel' = "left" /\ threads' = threads
      /\ began' = began /\ input' = input /\ hands' = hands /\ candidates' = candidates
      /\ icount' = icount /\ previous' = previous /\ counted' = counted
      /\ unassigned' = Cardinality(Free(aggregates'))
  BY DEF EndMerge, Goto
<1>2. aggregates' = [i \in Rows |-> IF input.deterministic /\ aggregates[i] = -1
                                    THEN candidates[i] ELSE aggregates[i]]
  BY DEF EndMerge
<1>3. aggregates' \in [Rows -> Labels]
  BY <1>2 DEF IInv, Types
<1>4. \A i \in Rows : aggregates[i] = -1 => input.deterministic /\ Joins(i, candidates[i])
  BY <1>1 DEF IInv, Candidates, Free
<1>5. Joining
  BY <1>2, <1>4 DEF Joining
<1>6. FreeCount' \in Nat /\ unassigned' = FreeCount'
  BY <1>1, <1>3, <1>5, JoiningStep DEF FreeCount
<1>7. Free(aggregates') = {}
  <2>1. SUFFICES ASSUME NEW i \in Rows, aggregates'[i] = -1 PROVE FALSE
    BY DEF Free
  <2>2. aggregates[i] = -1 /\ aggregates'[i] = candidates[i]
    BY <1>2, <1>4, <2>1
  <2>3. Joins(i, -1)
    BY <1>4, <2>1, <2>2
  <2> QED
    BY <2>3, NoRowIsFree DEF Joins
<1>8. Types'
  BY <1>1, <1>3, <1>6 DEF IInv, Types
<1>9. Kernels'
  <2>1. \A i \in Rows : began[i] # -1 => aggregates'[i] = began[i]
    BY <1>1, <1>3, <1>5, JoiningStep DEF IInv, Kernels, Growing
  <2> QED
    BY <1>1, <2>1 DEF Kernels
<1>10. Handed' /\ Candidates' /\ NobodyWaits'
  BY <1>1 DEF Handed, Candidates, NobodyWaits
<1>11. Counts'
  BY <1>1, <1>6 DEF Counts, InRound
<1>12. Progress'
  BY <1>1, <1>7 DEF Progress, InRound, NothingToPair
<1> QED
  BY <1>1, <1>3, <1>5, <1>8, <1>9, <1>10, <1>11, <1>12, JoiningStep DEF IInv

LEMMA EndMergingStep ==
  ASSUME IInv, EndMerging
  PROVE  IInv'
<1>1. /\ kernel = "left" /\ unassigned = 0 /\ kernel' = "done" /\ threads' = threads
      /\ began' = began /\ input' = input /\ aggregates' = aggregates
      /\ hands' = hands /\ candidates' = candidates /\ icount' = icount
      /\ unassigned' = unassigned /\ previous' = previous /\ counted' = counted
  BY DEF EndMerging, Goto, state, host
<1>2. Types' /\ Kernels' /\ Handed' /\ Candidates' /\ NobodyWaits' /\ Progress'
  BY <1>1 DEF IInv, Types, Kernels, Handed, Candidates, NobodyWaits, Progress, InRound
<1>3. Counts'
  <2>1. FreeCount \in Nat /\ FreeCount <= unassigned
    BY <1>1, SameState DEF IInv, Counts
  <2>2. FreeCount = 0
    BY <1>1, <2>1
  <2> QED
    BY <1>1, <2>1, <2>2, NoneFree, SameState DEF Counts, InRound
<1> QED
  BY <1>1, <1>2, <1>3, SameState DEF IInv

LEMMA AggregateSingletonsStep ==
  ASSUME IInv, AggregateSingletons
  PROVE  IInv'
<1>1. /\ kernel' = "done" /\ threads' = threads /\ began' = began
      /\ input' = input /\ hands' = hands /\ candidates' = candidates /\ icount' = icount
      /\ unassigned' = unassigned /\ previous' = previous /\ counted' = counted
  BY DEF AggregateSingletons, Goto, host
<1>2. aggregates' = [i \in Rows |-> IF aggregates[i] = -1 THEN i ELSE aggregates[i]]
  BY DEF AggregateSingletons
<1>3. aggregates' \in [Rows -> Labels] /\ Joining
  BY <1>2 DEF IInv, Types, Labels, Joining, Joins
<1>4. Free(aggregates') = {}
  BY <1>2, NoRowIsFree DEF Free
<1>5. Types'
  BY <1>1, <1>3 DEF IInv, Types
<1>6. Kernels'
  BY <1>1, <1>3, JoiningStep DEF IInv, Kernels, Growing
<1>7. Handed' /\ Candidates' /\ NobodyWaits' /\ Progress'
  BY <1>1 DEF Handed, Candidates, NobodyWaits, Progress, InRound
<1>8. Counts'
  <2>1. FreeCount' <= FreeCount /\ FreeCount \in Nat /\ FreeCount' \in Nat
    BY <1>1, <1>3, JoiningStep
  <2>2. FreeCount <= unassigned /\ unassigned \in Nat
    BY DEF IInv, Counts, Types
  <2>3. FreeCount' <= unassigned
    BY <2>1, <2>2
  <2> QED
    BY <1>1, <1>4, <2>3 DEF Counts, InRound
<1> QED
  BY <1>1, <1>3, <1>5, <1>6, <1>7, <1>8, JoiningStep DEF IInv

-----------------------------------------------------------------------------
(* The theorems. *)

LEMMA InitInv ==
  ASSUME Init
  PROVE  IInv
<1>1. /\ input \in Inputs /\ kernel = "find" /\ threads = Rows /\ began = Nobody
      /\ aggregates = Nobody /\ hands = <<Nobody, Nobody>> /\ candidates = Nobody
      /\ icount = 0 /\ counted = 0
      /\ unassigned = Cardinality(Rows) /\ previous = Cardinality(Rows)
  BY DEF Init
<1>2. /\ Nobody \in [Rows -> Labels] /\ \A i \in Rows : Nobody[i] = -1
      /\ Free(Nobody) = Rows
  BY DEF Nobody, Labels, Free
<1>3. Cardinality(Rows) \in Nat
  BY RowSets
<1>4. hands[1] = Nobody /\ hands[2] = Nobody /\ hands \in [1..2 -> [Rows -> Labels]]
  BY <1>1, <1>2
<1>5. Types
  BY <1>1, <1>2, <1>3, <1>4 DEF Types
<1>6. Kernels
  BY <1>1, <1>2 DEF Kernels
<1>7. Hands
  <2>1. \A p \in 1..2 : \A i \in Rows : hands[p][i] = -1
    <3>1. \A p \in 1..2 : p = 1 \/ p = 2
      OBVIOUS
    <3> QED
      BY <1>2, <1>4, <3>1
  <2> QED
    BY <1>2, <1>4, <2>1 DEF Hands
<1>8. Handed /\ Candidates
  BY <1>1, <1>2 DEF Handed, Candidates
<1>9. \A l \in Rows : Members(l) = {}
  BY <1>1, <1>2, NoRowIsFree DEF Members
<1>10. LabelsInv
  BY <1>1, <1>2, <1>9 DEF LabelsInv, NamesTaken, Misnamed, Pieces, Named, Connected
<1>11. NobodyWaits
  BY <1>1, <1>2 DEF NobodyWaits
<1>12. Counts
  BY <1>1, <1>2, <1>3 DEF Counts, FreeCount, InRound
<1>13. Progress
  BY <1>1, <1>2, <1>3 DEF Progress, InRound
<1> QED
  BY <1>5, <1>6, <1>7, <1>8, <1>10, <1>11, <1>12, <1>13 DEF IInv

LEMMA StutterInv ==
  ASSUME IInv, UNCHANGED vars
  PROVE  IInv'
<1>1. /\ input' = input /\ kernel' = kernel /\ threads' = threads /\ began' = began
      /\ aggregates' = aggregates /\ hands' = hands /\ candidates' = candidates
      /\ icount' = icount /\ unassigned' = unassigned
      /\ previous' = previous /\ counted' = counted
  BY DEF vars, state, host
<1>2. Types' /\ Kernels'
  BY <1>1 DEF IInv, Types, Kernels
<1>3. Handed' /\ NobodyWaits'
  BY <1>1 DEF IInv, Handed, NobodyWaits, strongest_neighbour
<1>4. Candidates'
  BY <1>1 DEF IInv, Candidates, Joins, Neighbors
<1>5. Counts'
  BY <1>1 DEF IInv, Counts, FreeCount, InRound
<1>6. Progress'
  BY <1>1 DEF IInv, Progress, InRound, NothingToPair, Choice, Neighbors
<1> QED
  BY <1>1, <1>2, <1>3, <1>4, <1>5, <1>6, SameState DEF IInv

\* The inductive invariant holds throughout: what threads read while others
\* write, the host's late counts and the merge leave the names and the pieces
\* of the aggregates in order.
THEOREM SelectorInvariant == Spec => []IInv
<1>1. Init => IInv
  BY InitInv
<1>2. IInv /\ [Next]_vars => IInv'
  <2>1. SUFFICES ASSUME IInv, [Next]_vars PROVE IInv'
    OBVIOUS
  <2>2. ASSUME NEW i \in Rows, NEW phase \in 1..2, FindStrongestNeighbour(phase, i)
        PROVE  IInv'
    BY <2>1, <2>2, FindStep
  <2>3. ASSUME NEW i \in Rows, Merge(i)
        PROVE  IInv'
    BY <2>1, <2>3, MergeStep
  <2>4. ASSUME NEW phase \in 1..2, EndFind(phase)
        PROVE  IInv'
    BY <2>1, <2>4, EndFindStep
  <2>5. CASE MatchEdges
    BY <2>1, <2>5, MatchStep
  <2>6. CASE StartCount
    BY <2>1, <2>6, StartCountStep
  <2>7. CASE ReadCount
    BY <2>1, <2>7, ReadCountStep
  <2>8. CASE LaunchMerge
    BY <2>1, <2>8, LaunchMergeStep
  <2>9. CASE EndMerge
    BY <2>1, <2>9, EndMergeStep
  <2>10. CASE EndMerging
    BY <2>1, <2>10, EndMergingStep
  <2>11. CASE AggregateSingletons
    BY <2>1, <2>11, AggregateSingletonsStep
  <2>12. CASE UNCHANGED vars
    BY <2>1, <2>12, StutterInv
  <2> QED
    BY <2>1, <2>2, <2>3, <2>4, <2>5, <2>6, <2>7, <2>8, <2>9, <2>10, <2>11, <2>12
    DEF Next, Step
<1> QED
  BY <1>1, <1>2, PTL DEF Spec

\* Whatever the order of the threads, each row ends in an aggregate, no
\* aggregate is in two pieces, and with one phase each holds the row it is
\* named after (setAggregates_common_sqblocks).
THEOREM NoAggregateInPieces == Spec => []AggregatesConnected
<1>1. IInv => AggregatesConnected
  <2>1. SUFFICES ASSUME IInv PROVE AggregatesConnected
    OBVIOUS
  <2>2. kernel = "done" => Free(aggregates) = {}
    BY <2>1 DEF IInv, Counts
  <2>3. ASSUME NEW i \in Rows, aggregates[i] # -1
        PROVE  /\ Connected(Members(aggregates[i]))
               /\ ~input.two_phase => aggregates[i] \in Members(aggregates[i])
    <3>1. aggregates[i] \in Rows
      BY <2>1, <2>3 DEF IInv, Types, Labels
    <3>2. ~input.two_phase => aggregates[aggregates[i]] = aggregates[i]
      BY <2>1, <2>3 DEF IInv, LabelsInv, Named
    <3>3. Connected(Members(aggregates[i]))
      BY <2>1, <3>1 DEF IInv, LabelsInv, Pieces
    <3> QED
      BY <3>1, <3>2, <3>3 DEF Members
  <2> QED
    BY <2>2, <2>3 DEF AggregatesConnected
<1> QED
  BY <1>1, SelectorInvariant, PTL

\* With one phase, the rounds end with two neighbors of positive weight alone
\* only at a limit: a count that did not change between two readings means that
\* there was nothing left to pair (the loop of setAggregates_common_sqblocks).
THEOREM RoundsEndPaired == Spec => []OnlyLimitsLeaveNeighbors
<1>1. IInv => OnlyLimitsLeaveNeighbors
  BY DEF IInv, Progress, NothingToPair, OnlyLimitsLeaveNeighbors
<1> QED
  BY <1>1, SelectorInvariant, PTL

-----------------------------------------------------------------------------
(* Rounds in step.  What a thread reads of rows that get an aggregate in the *)
(* same kernel changes nothing that lasts: either the row gets the same, or  *)
(* it is left alone now or later.                                            *)

Weights(i) == [j \in Neighbors(i) |-> input.weight[<<i, j>>]]
Prefers(i, b) == Strongest(Neighbors(i) \cap Free(b), Weights(i))
Attached(i, b) == Strongest(Neighbors(i) \ Free(b), Weights(i))

\* Rows that may answer the hand of row i.
Coupled(i) == {j \in Neighbors(i) : input.weight[<<i, j>>] > 0}

\* One of them is free.
Waits(i, b) == Coupled(i) \cap Free(b) # {}

\* The conditions of TimingIrrelevant.
Deterministic == input.deterministic /\ ~input.two_phase /\ ZerosHarmless

\* Two sets of rows that agree on the positive weights.
LEMMA SameStrongest ==
  ASSUME Rows \subseteq Nat, IsFiniteSet(Rows), NEW w,
         NEW A \in SUBSET Rows, \A j \in A : w[j] \in Int,
         NEW V \in SUBSET Rows, \A j \in V : w[j] \in Int,
         NEW p \in A, w[p] > 0,
         \A j \in A : w[j] > 0 => j \in V,
         \A j \in V : w[j] > 0 => j \in A
  PROVE  /\ Strongest(A, w) = Strongest(V, w)
         /\ Strongest(A, w) \in A /\ w[Strongest(A, w)] > 0
<1> DEFINE a == Strongest(A, w)
           v == Strongest(V, w)
           Best(s, S) == /\ s \in S
                         /\ \A j \in S : w[j] < w[s] \/ (w[j] = w[s] /\ j <= s)
<1>1. \/ a = -1 /\ \A j \in A : w[j] < 0
      \/ Best(a, A)
  BY StrongestFacts
<1>2. \/ v = -1 /\ \A j \in V : w[j] < 0
      \/ Best(v, V)
  BY StrongestFacts
<1> HIDE DEF a, v
<1>3. p \in V /\ w[p] \in Int /\ ~(w[p] < 0)
  OBVIOUS
<1>4. Best(a, A) /\ Best(v, V)
  BY <1>1, <1>2, <1>3
<1>5. ASSUME NEW S \in SUBSET Rows, NEW s, Best(s, S), p \in S, \A j \in S : w[j] \in Int
      PROVE  s \in S /\ w[s] > 0 /\ s \in Nat
  <2>1. w[p] < w[s] \/ w[p] = w[s]
    BY <1>5
  <2>2. s \in S /\ w[s] \in Int /\ w[p] \in Int
    BY <1>5
  <2> HIDE DEF Best
  <2> QED
    BY <2>1, <2>2
<1>6. /\ a \in A /\ w[a] > 0 /\ a \in Nat
      /\ v \in V /\ w[v] > 0 /\ v \in Nat
  <2> HIDE DEF Best
  <2> QED
    BY <1>3, <1>4, <1>5
<1>7. a \in V /\ v \in A
  BY <1>6
<1>8. /\ w[v] < w[a] \/ (w[v] = w[a] /\ v <= a)
      /\ w[a] < w[v] \/ (w[a] = w[v] /\ a <= v)
  BY <1>4, <1>7
<1>9. w[a] \in Int /\ w[v] \in Int
  BY <1>6
<1>10. a = v
  BY <1>6, <1>8, <1>9
<1> QED
  BY <1>6, <1>10 DEF a, v

LEMMA CoupledFacts ==
  ASSUME Types, NEW i \in Rows
  PROVE  /\ \A j \in Coupled(i) : j \in Rows /\ j # i /\ i \in Coupled(j)
         /\ \A j \in Neighbors(i) : /\ j \in Rows /\ j # i /\ Weights(i)[j] \in Int
                                    /\ j \in Coupled(i) <=> Weights(i)[j] > 0
<1>1. \A j \in Neighbors(i) : /\ j \in Rows /\ j # i /\ <<i, j>> \in input.edges
                              /\ input.weight[<<i, j>>] \in Int
                              /\ Weights(i)[j] = input.weight[<<i, j>>]
  BY NeighborFacts DEF Weights
<1>2. ASSUME NEW j \in Coupled(i)
      PROVE  j \in Rows /\ j # i /\ i \in Coupled(j)
  <2>1. j \in Neighbors(i) /\ input.weight[<<i, j>>] > 0
    BY DEF Coupled
  <2>2. <<j, i>> \in input.edges /\ input.weight[<<j, i>>] = input.weight[<<i, j>>]
    <3>1. IF <<j, i>> \in input.edges
          THEN input.weight[<<i, j>>] = input.weight[<<j, i>>]
          ELSE input.weight[<<i, j>>] = 0
      BY <1>1, <2>1, InputFacts
    <3> QED
      BY <2>1, <3>1
  <2> QED
    BY <1>1, <2>1, <2>2 DEF Coupled, Neighbors
<1>3. \A j \in Neighbors(i) : j \in Coupled(i) <=> Weights(i)[j] > 0
  BY <1>1 DEF Coupled
<1> QED
  BY <1>1, <1>2, <1>3

\* A neighbor with a weight of 0 cannot answer, and there is none with
\* merge_singletons.
LEMMA ZeroFacts ==
  ASSUME Types, ZerosHarmless, NEW i \in Rows, NEW j \in Neighbors(i),
         ~(Weights(i)[j] > 0), ~(Weights(i)[j] < 0)
  PROVE  i \notin Neighbors(j) /\ ~input.merge_singletons
<1> DEFINE e == <<i, j>>
<1>1. j \in Rows /\ e \in input.edges /\ e[1] = i /\ e[2] = j /\ input.weight[e] = 0
  <2>1. j \in Rows /\ e \in input.edges
    BY DEF Neighbors
  <2>2. Weights(i)[j] = input.weight[e] /\ Weights(i)[j] \in Int
    BY CoupledFacts DEF Weights
  <2> QED
    BY <2>1, <2>2
<1> HIDE DEF e
<1>2. <<e[2], e[1]>> \notin input.edges /\ ~input.merge_singletons
  BY <1>1 DEF ZerosHarmless
<1> QED
  BY <1>1, <1>2 DEF Neighbors

\* What a row prefers among the free ones.
LEMMA PrefersFacts ==
  ASSUME Types, NEW i \in Rows, NEW b
  PROVE  \/ /\ Prefers(i, b) = -1
            /\ \A j \in Neighbors(i) \cap Free(b) : Weights(i)[j] < 0
         \/ /\ Prefers(i, b) \in Neighbors(i) \cap Free(b)
            /\ Prefers(i, b) # -1
            /\ Weights(i)[Prefers(i, b)] >= 0
<1> DEFINE near == Neighbors(i) \cap Free(b)
<1>1. near \in SUBSET Rows /\ Rows \subseteq Nat /\ IsFiniteSet(Rows)
  BY InputFacts DEF Neighbors
<1>2. \A j \in near : Weights(i)[j] \in Int
  BY CoupledFacts
<1>3. -1 \notin near
  BY <1>1, NoRowIsFree
<1> HIDE DEF near
<1>4. \/ /\ Strongest(near, Weights(i)) = -1
         /\ \A j \in near : Weights(i)[j] < 0
      \/ /\ Strongest(near, Weights(i)) \in near
         /\ Weights(i)[Strongest(near, Weights(i))] >= 0
  BY <1>1, <1>2, StrongestFacts
<1>5. Prefers(i, b) = Strongest(near, Weights(i))
  BY DEF Prefers, near
<1>6. \/ /\ Prefers(i, b) = -1
         /\ \A j \in near : Weights(i)[j] < 0
      \/ /\ Prefers(i, b) \in near
         /\ Prefers(i, b) # -1
         /\ Weights(i)[Prefers(i, b)] >= 0
  BY <1>3, <1>4, <1>5
<1> QED
  BY <1>6 DEF near

LEMMA AttachedFacts ==
  ASSUME Types, NEW i \in Rows, NEW b
  PROVE  \/ /\ Attached(i, b) = -1
            /\ \A j \in Neighbors(i) \ Free(b) : Weights(i)[j] < 0
         \/ /\ Attached(i, b) \in Neighbors(i) \ Free(b)
            /\ Attached(i, b) # -1
            /\ Weights(i)[Attached(i, b)] >= 0
<1> DEFINE near == Neighbors(i) \ Free(b)
<1>1. near \in SUBSET Rows /\ Rows \subseteq Nat /\ IsFiniteSet(Rows)
  BY InputFacts DEF Neighbors
<1>2. \A j \in near : Weights(i)[j] \in Int
  BY CoupledFacts
<1>3. -1 \notin near
  BY <1>1, NoRowIsFree
<1> HIDE DEF near
<1>4. \/ /\ Strongest(near, Weights(i)) = -1
         /\ \A j \in near : Weights(i)[j] < 0
      \/ /\ Strongest(near, Weights(i)) \in near
         /\ Weights(i)[Strongest(near, Weights(i))] >= 0
  BY <1>1, <1>2, StrongestFacts
<1>5. Attached(i, b) = Strongest(near, Weights(i))
  BY DEF Attached, near
<1>6. \/ /\ Attached(i, b) = -1
         /\ \A j \in near : Weights(i)[j] < 0
      \/ /\ Attached(i, b) \in near
         /\ Attached(i, b) # -1
         /\ Weights(i)[Attached(i, b)] >= 0
  BY <1>3, <1>4, <1>5
<1> QED
  BY <1>6 DEF near

\* Where one that may answer is free, only such ones count.
LEMMA SamePreference ==
  ASSUME Types, NEW i \in Rows, NEW b, NEW v, Waits(i, b),
         Coupled(i) \cap Free(b) = Coupled(i) \cap Free(v)
  PROVE  /\ Prefers(i, b) = Prefers(i, v)
         /\ Prefers(i, b) \in Coupled(i) \cap Free(b)
<1> DEFINE A == Neighbors(i) \cap Free(b)
           V == Neighbors(i) \cap Free(v)
           w == Weights(i)
<1>1. PICK p \in Coupled(i) : p \in Free(b)
  BY DEF Waits
<1>2. /\ Rows \subseteq Nat /\ IsFiniteSet(Rows)
      /\ A \in SUBSET Rows /\ V \in SUBSET Rows
  BY InputFacts DEF Neighbors
<1>3. /\ \A j \in A : w[j] \in Int
      /\ \A j \in V : w[j] \in Int
      /\ \A j \in A : w[j] > 0 => j \in V
      /\ \A j \in V : w[j] > 0 => j \in A
      /\ \A j \in A : w[j] > 0 => j \in Coupled(i) \cap Free(b)
  BY CoupledFacts
<1>4. p \in A /\ w[p] > 0
  BY <1>1, CoupledFacts DEF Coupled
<1> HIDE DEF A, V, w
<1>5. /\ Strongest(A, w) = Strongest(V, w)
      /\ Strongest(A, w) \in A /\ w[Strongest(A, w)] > 0
  BY <1>2, <1>3, <1>4, SameStrongest
<1> QED
  BY <1>3, <1>5 DEF A, V, w, Prefers

LEMMA JoinedIs ==
  ASSUME Types, NEW i \in Rows, NEW b, \A j \in Rows : b[j] \in Labels
  PROVE  /\ Joined(i, b) = IF Attached(i, b) = -1 THEN i ELSE b[Attached(i, b)]
         /\ Joined(i, b) \in Rows
<1>1. Joined(i, b) = IF Attached(i, b) = -1 THEN i ELSE b[Attached(i, b)]
  BY DEF Joined, Attached, Weights
<1>2. Attached(i, b) # -1 => Attached(i, b) \in Rows /\ b[Attached(i, b)] # -1
  BY AttachedFacts, CoupledFacts DEF Free
<1> QED
  BY <1>1, <1>2 DEF Labels

LEMMA SameJoined ==
  ASSUME Types, ZerosHarmless, input.merge_singletons, NEW i \in Rows,
         NEW b, \A j \in Rows : b[j] \in Labels,
         NEW v, \A j \in Rows : v[j] \in Labels,
         \A j \in Coupled(i) : b[j] # -1 /\ v[j] = b[j]
  PROVE  Joined(i, v) = Joined(i, b)
<1> DEFINE A == Neighbors(i) \ Free(b)
           V == Neighbors(i) \ Free(v)
           w == Weights(i)
<1>1. CASE Coupled(i) = {}
  <2>1. \A j \in Neighbors(i) : w[j] < 0
    BY <1>1, CoupledFacts, ZeroFacts
  <2>2. ASSUME NEW x
        PROVE  Attached(i, x) = -1
    <3>1. \A j \in Neighbors(i) : w[j] < 0 /\ w[j] \in Int
      BY <2>1, CoupledFacts
    <3>2. \A j \in Neighbors(i) : ~(w[j] >= 0)
      <4> HIDE DEF w
      <4> QED
        BY <3>1
    <3> QED
      BY <3>2, AttachedFacts
  <2> QED
    BY <2>2, JoinedIs
<1>2. CASE Coupled(i) # {}
  <2>1. PICK p \in Coupled(i) : TRUE
    BY <1>2
  <2>2. /\ Rows \subseteq Nat /\ IsFiniteSet(Rows)
        /\ A \in SUBSET Rows /\ V \in SUBSET Rows
    BY InputFacts DEF Neighbors
  <2>3. /\ \A j \in A : w[j] \in Int
        /\ \A j \in V : w[j] \in Int
        /\ \A j \in A : w[j] > 0 => j \in Coupled(i) /\ j \in V
        /\ \A j \in V : w[j] > 0 => j \in A
    BY CoupledFacts DEF Free
  <2>4. p \in A /\ w[p] > 0
    BY <2>1, CoupledFacts DEF Coupled, Free
  <2> HIDE DEF A, V, w
  <2>5. /\ Strongest(A, w) = Strongest(V, w)
        /\ Strongest(A, w) \in A /\ w[Strongest(A, w)] > 0
    BY <2>2, <2>3, <2>4, SameStrongest
  <2>6. /\ Attached(i, b) = Attached(i, v)
        /\ Attached(i, b) \in Coupled(i)
    BY <2>3, <2>5 DEF A, V, w, Attached
  <2> QED
    BY <2>6, JoinedIs
<1> QED
  BY <1>1, <1>2

LEMMA FoundOne ==
  ASSUME Types, NEW i \in Rows, NEW view, NEW first
  PROVE  /\ Found(1, i, view, first).aggregate =
              IF Prefers(i, view) # -1 \/ Attached(i, view) = -1 THEN -1
              ELSE IF input.merge_singletons THEN view[Attached(i, view)] ELSE i
         /\ Found(1, i, view, first).hand =
              IF Prefers(i, view) = -1 THEN i ELSE Prefers(i, view)
<1> DEFINE rows == Considered(i, 1, first)
           w == [j \in rows |-> EdgeWeight(i, 1, j)]
           unaggregated == Strongest(rows \cap Free(view), w)
           aggregated == Strongest(rows \ Free(view), w)
           found == Found(1, i, view, first)
<1>1. rows = Neighbors(i)
  BY DEF Considered
<1>2. w = Weights(i)
  BY <1>1 DEF EdgeWeight, Weights
<1>3. unaggregated = Prefers(i, view) /\ aggregated = Attached(i, view)
  BY <1>1, <1>2 DEF Prefers, Attached
<1>4. found = [aggregate |-> IF unaggregated # -1 \/ aggregated = -1 THEN -1
                             ELSE IF input.merge_singletons THEN view[aggregated] ELSE i,
               hand |-> Hand(i, 1, unaggregated, first)]
  BY DEF Found
<1>5. Hand(i, 1, unaggregated, first) = IF unaggregated = -1 THEN i ELSE unaggregated
  BY DEF Hand
<1> HIDE DEF found, unaggregated, aggregated
<1>6. /\ found.aggregate = IF unaggregated # -1 \/ aggregated = -1 THEN -1
                           ELSE IF input.merge_singletons THEN view[aggregated] ELSE i
      /\ found.hand = IF unaggregated = -1 THEN i ELSE unaggregated
  BY <1>4, <1>5
<1> QED
  BY <1>3, <1>6 DEF found

\* What the thread of a free row finds in a kernel that began with b: an
\* aggregate, or a row to stretch its hand to.
Outcome(i, b, a, h) ==
  IF Waits(i, b) THEN a = -1 /\ h = Prefers(i, b)
  ELSE IF input.merge_singletons
  THEN a = Joined(i, b) \/ (a = -1 /\ h = i /\ Joined(i, b) = i)
  ELSE a = i \/ (a = -1 /\ (h = i \/ (h \in Neighbors(i) /\ i \notin Neighbors(h))))

LEMMA ThreadOutcome ==
  ASSUME Types, ZerosHarmless, NEW i \in Rows, NEW first,
         NEW b, \A j \in Rows : b[j] \in Labels,
         NEW v, \A j \in Rows : v[j] \in Labels,
         \A j \in Rows : b[j] # -1 => v[j] = b[j],
         \A j \in Coupled(i) : b[j] = -1 => v[j] = -1
  PROVE  Outcome(i, b, Found(1, i, v, first).aggregate, Found(1, i, v, first).hand)
<1> DEFINE found == Found(1, i, v, first)
<1>1. /\ found.aggregate =
           IF Prefers(i, v) # -1 \/ Attached(i, v) = -1 THEN -1
           ELSE IF input.merge_singletons THEN v[Attached(i, v)] ELSE i
      /\ found.hand = IF Prefers(i, v) = -1 THEN i ELSE Prefers(i, v)
  BY FoundOne
<1> HIDE DEF found
<1>2. \A j \in Coupled(i) : j \in Rows
  BY CoupledFacts
<1>3. Coupled(i) \cap Free(b) = Coupled(i) \cap Free(v)
  BY <1>2 DEF Free
<1>4. CASE Waits(i, b)
  <2>1. Prefers(i, b) = Prefers(i, v) /\ Prefers(i, b) \in Coupled(i)
    BY <1>3, <1>4, SamePreference
  <2>2. Prefers(i, v) # -1
    BY <1>2, <2>1, NoRowIsFree
  <2> QED
    BY <1>1, <1>4, <2>1, <2>2 DEF Outcome, found
<1>5. CASE ~Waits(i, b)
  <2>1. \A j \in Coupled(i) : b[j] # -1 /\ v[j] = b[j]
    BY <1>2, <1>5 DEF Waits, Free
  <2>2. Prefers(i, v) # -1 => /\ Prefers(i, v) \in Neighbors(i)
                              /\ i \notin Neighbors(Prefers(i, v))
                              /\ ~input.merge_singletons
    <3>1. SUFFICES ASSUME Prefers(i, v) # -1
                   PROVE  /\ Prefers(i, v) \in Neighbors(i)
                          /\ i \notin Neighbors(Prefers(i, v))
                          /\ ~input.merge_singletons
      OBVIOUS
    <3>2. /\ Prefers(i, v) \in Neighbors(i) \cap Free(v)
          /\ Weights(i)[Prefers(i, v)] >= 0
      BY <3>1, PrefersFacts
    <3>3. Prefers(i, v) \notin Coupled(i)
      BY <2>1, <3>2 DEF Free
    <3>4. /\ Weights(i)[Prefers(i, v)] \in Int
          /\ ~(Weights(i)[Prefers(i, v)] > 0)
      BY <3>2, <3>3, CoupledFacts
    <3>5. ~(Weights(i)[Prefers(i, v)] < 0)
      BY <3>2, <3>4
    <3> QED
      BY <3>2, <3>4, <3>5, ZeroFacts
  <2>3. CASE input.merge_singletons
    <3>1. Prefers(i, v) = -1
      BY <2>2, <2>3
    <3>2. Joined(i, v) = Joined(i, b)
      BY <2>1, <2>3, SameJoined
    <3>3. Joined(i, v) = IF Attached(i, v) = -1 THEN i ELSE v[Attached(i, v)]
      BY JoinedIs
    <3> QED
      BY <1>1, <1>5, <2>3, <3>1, <3>2, <3>3 DEF Outcome, found
  <2>4. CASE ~input.merge_singletons
    BY <1>1, <1>5, <2>2, <2>4 DEF Outcome, found
  <2> QED
    BY <2>3, <2>4
<1> QED
  BY <1>4, <1>5

\* The row with the smaller index names a pair.
Paired(i, b) ==
  IF Prefers(Prefers(i, b), b) # i THEN -1
  ELSE IF Prefers(i, b) > i THEN i ELSE Prefers(i, b)

\* What a round makes of the aggregates b.
RoundOf(b, c) ==
  \A i \in Rows :
    /\ b[i] # -1 => c[i] = b[i]
    /\ (b[i] = -1 /\ Waits(i, b)) => c[i] = Paired(i, b)
    /\ (b[i] = -1 /\ ~Waits(i, b)) =>
         IF input.merge_singletons THEN c[i] = Joined(i, b) ELSE c[i] \in {-1, i}

HandsOK(hand) == \A j \in Rows : hand[j] \in {-1, j} \cup Neighbors(j)

LEMMA MatchOutcome ==
  ASSUME Types, NEW b, \A j \in Rows : b[j] \in Labels,
         NEW a, \A j \in Rows : b[j] # -1 => a[j] = b[j],
         NEW hand, HandsOK(hand),
         \A j \in Free(b) : Outcome(j, b, a[j], hand[j]),
         NEW c, \A j \in Rows : c[j] = IF a[j] # -1 THEN a[j] ELSE Match(j, hand)
  PROVE  RoundOf(b, c)
<1>1. SUFFICES ASSUME NEW i \in Rows
               PROVE  /\ b[i] # -1 => c[i] = b[i]
                      /\ (b[i] = -1 /\ Waits(i, b)) => c[i] = Paired(i, b)
                      /\ (b[i] = -1 /\ ~Waits(i, b)) =>
                           IF input.merge_singletons THEN c[i] = Joined(i, b)
                           ELSE c[i] \in {-1, i}
  BY DEF RoundOf
<1>2. CASE b[i] # -1
  BY <1>2
<1>3. i # -1
  BY NoRowIsFree
<1>4. CASE b[i] = -1 /\ Waits(i, b)
  <2> DEFINE h == Prefers(i, b)
  <2>1. a[i] = -1 /\ hand[i] = h
    BY <1>4 DEF Outcome, Free
  <2>2. h \in Coupled(i) \cap Free(b)
    BY <1>4, SamePreference
  <2>3. h \in Free(b) /\ Waits(h, b)
    <3>1. i \in Coupled(h) /\ i \in Free(b)
      BY <1>4, <2>2, CoupledFacts DEF Free
    <3> QED
      BY <2>2, <3>1 DEF Waits
  <2>4. hand[h] = Prefers(h, b)
    BY <2>3 DEF Outcome
  <2>5. c[i] = Match(i, hand)
    BY <2>1
  <2> HIDE DEF h
  <2>6. Match(i, hand) = IF Prefers(h, b) # i THEN -1 ELSE IF h > i THEN i ELSE h
    BY <2>1, <2>4 DEF Match
  <2> QED
    BY <1>4, <2>5, <2>6 DEF h, Paired
<1>5. CASE b[i] = -1 /\ ~Waits(i, b)
  <2>1. Outcome(i, b, a[i], hand[i])
    BY <1>5 DEF Free
  <2>2. (a[i] = -1 /\ hand[i] = i) => c[i] = i
    <3>1. (a[i] = -1 /\ hand[i] = i) => c[i] = Match(i, hand) /\ Match(i, hand) = i
      BY DEF Match
    <3> QED
      BY <3>1
  <2>3. CASE input.merge_singletons
    <3>1. Joined(i, b) # -1
      BY JoinedIs, NoRowIsFree
    <3> QED
      BY <1>5, <2>1, <2>2, <2>3, <3>1 DEF Outcome
  <2>4. CASE ~input.merge_singletons
    <3>1. CASE a[i] = i
      BY <1>3, <1>5, <2>4, <3>1
    <3>2. CASE a[i] = -1 /\ hand[i] = i
      BY <1>5, <2>2, <2>4, <3>2
    <3>3. CASE a[i] = -1 /\ hand[i] \in Neighbors(i) /\ i \notin Neighbors(hand[i])
      <4>1. hand[i] \in Rows /\ hand[i] # i
        BY <3>3, CoupledFacts
      <4>2. hand[hand[i]] \in {-1, hand[i]} \cup Neighbors(hand[i])
        BY <4>1 DEF HandsOK
      <4>3. hand[hand[i]] # i
        BY <1>3, <3>3, <4>1, <4>2
      <4>4. c[i] = -1
        BY <3>3, <4>3 DEF Match
      <4> QED
        BY <1>5, <2>4, <4>4
    <3> QED
      BY <1>5, <2>1, <2>4, <3>1, <3>2, <3>3 DEF Outcome
  <2> QED
    BY <2>3, <2>4
<1> QED
  BY <1>2, <1>4, <1>5

-----------------------------------------------------------------------------
(* Two sequences of rounds that differ in timing. *)

IsAggregates(a) == a \in [Rows -> Labels]

\* They differ in rows that are left alone only: such a row is one by itself
\* now, or will be.
Alike(a, x) ==
  IF input.merge_singletons THEN a = x
  ELSE \A i \in Rows :
         a[i] = x[i] \/ ({a[i], x[i]} \subseteq {-1, i} /\ ~Waits(i, a) /\ ~Waits(i, x))

\* The aggregates if no round follows.
Completed(a) ==
  [i \in Rows |-> IF a[i] # -1 THEN a[i]
                  ELSE IF input.merge_singletons THEN Joined(i, a) ELSE i]

LEMMA AlikeFree ==
  ASSUME Types, ~input.merge_singletons, NEW a, NEW x, Alike(a, x),
         NEW i \in Rows, a[i] = -1, x[i] = -1
  PROVE  /\ Coupled(i) \cap Free(a) = Coupled(i) \cap Free(x)
         /\ Waits(i, a) <=> Waits(i, x)
<1>1. ASSUME NEW j \in Coupled(i)
      PROVE  a[j] = x[j]
  <2>1. j \in Rows /\ i \in Coupled(j)
    BY CoupledFacts
  <2>2. Waits(j, a)
    BY <2>1 DEF Waits, Free
  <2> QED
    BY <2>1, <2>2 DEF Alike
<1>2. Coupled(i) \cap Free(a) = Coupled(i) \cap Free(x)
  BY <1>1 DEF Free
<1> QED
  BY <1>2 DEF Waits

LEMMA RoundLeaves ==
  ASSUME Types, NEW a, NEW c, RoundOf(a, c), NEW i \in Rows, ~Waits(i, a)
  PROVE  ~Waits(i, c)
<1>1. \A j \in Coupled(i) : j \in Rows /\ a[j] # -1
  BY CoupledFacts DEF Waits, Free
<1>2. \A j \in Coupled(i) : c[j] # -1
  BY <1>1 DEF RoundOf
<1> QED
  BY <1>2 DEF Waits, Free

\* A round keeps them alike.
LEMMA AlikeKept ==
  ASSUME Types, NEW a, NEW x, NEW c, NEW y, IsAggregates(c), IsAggregates(y),
         Alike(a, x), RoundOf(a, c), RoundOf(x, y)
  PROVE  Alike(c, y)
<1>1. CASE input.merge_singletons
  <2>1. a = x
    BY <1>1 DEF Alike
  <2>2. ASSUME NEW i \in Rows
        PROVE  c[i] = y[i]
    <3>1. CASE a[i] # -1
      BY <2>1, <3>1 DEF RoundOf
    <3>2. CASE a[i] = -1 /\ Waits(i, a)
      BY <2>1, <3>2 DEF RoundOf
    <3>3. CASE a[i] = -1 /\ ~Waits(i, a)
      BY <1>1, <2>1, <3>3 DEF RoundOf
    <3> QED
      BY <3>1, <3>2, <3>3
  <2>3. c = y
    BY <2>2 DEF IsAggregates
  <2> QED
    BY <1>1, <2>3 DEF Alike
<1>2. CASE ~input.merge_singletons
  <2>1. SUFFICES ASSUME NEW i \in Rows
                 PROVE  \/ c[i] = y[i]
                        \/ {c[i], y[i]} \subseteq {-1, i} /\ ~Waits(i, c) /\ ~Waits(i, y)
    BY <1>2 DEF Alike
  <2>2. /\ a[i] # -1 => c[i] = a[i]
        /\ x[i] # -1 => y[i] = x[i]
        /\ (a[i] = -1 /\ ~Waits(i, a)) => c[i] \in {-1, i}
        /\ (x[i] = -1 /\ ~Waits(i, x)) => y[i] \in {-1, i}
    BY <1>2 DEF RoundOf
  <2>3. ASSUME ~Waits(i, a), ~Waits(i, x)
        PROVE  ~Waits(i, c) /\ ~Waits(i, y)
    BY <2>3, RoundLeaves
  <2>4. CASE a[i] # x[i]
    <3>1. {a[i], x[i]} \subseteq {-1, i} /\ ~Waits(i, a) /\ ~Waits(i, x)
      BY <1>2, <2>4 DEF Alike
    <3> QED
      BY <2>2, <2>3, <3>1
  <2>5. CASE a[i] = x[i] /\ a[i] # -1
    BY <2>2, <2>5
  <2>6. CASE a[i] = -1 /\ x[i] = -1 /\ ~Waits(i, a)
    <3>1. ~Waits(i, x)
      BY <1>2, <2>6, AlikeFree
    <3> QED
      BY <2>2, <2>3, <2>6, <3>1
  <2>7. CASE a[i] = -1 /\ x[i] = -1 /\ Waits(i, a)
    <3> DEFINE h == Prefers(i, a)
    <3>1. Waits(i, x) /\ Coupled(i) \cap Free(a) = Coupled(i) \cap Free(x)
      BY <1>2, <2>7, AlikeFree
    <3>2. h = Prefers(i, x) /\ h \in Coupled(i) \cap Free(a) /\ h \in Free(x)
      BY <2>7, <3>1, SamePreference
    <3>3. h \in Rows /\ a[h] = -1 /\ x[h] = -1 /\ i \in Coupled(h)
      BY <3>2, CoupledFacts DEF Free
    <3> HIDE DEF h
    <3>4. Waits(h, a)
      BY <2>7, <3>3 DEF Waits, Free
    <3>5. Coupled(h) \cap Free(a) = Coupled(h) \cap Free(x)
      BY <1>2, <3>3, AlikeFree
    <3>6. Prefers(h, a) = Prefers(h, x)
      BY <3>3, <3>4, <3>5, SamePreference
    <3>7. Paired(i, a) = Paired(i, x)
      BY <3>2, <3>6 DEF h, Paired
    <3>8. c[i] = Paired(i, a) /\ y[i] = Paired(i, x)
      BY <2>7, <3>1 DEF RoundOf
    <3> QED
      BY <3>7, <3>8
  <2> QED
    BY <2>4, <2>5, <2>6, <2>7
<1> QED
  BY <1>1, <1>2

LEMMA AlikeCompleted ==
  ASSUME Types, NEW a, NEW x, Alike(a, x)
  PROVE  Completed(a) = Completed(x)
<1>1. CASE input.merge_singletons
  BY <1>1 DEF Alike
<1>2. CASE ~input.merge_singletons
  <2>1. ASSUME NEW i \in Rows
        PROVE  (IF a[i] # -1 THEN a[i] ELSE i) = (IF x[i] # -1 THEN x[i] ELSE i)
    <3>1. a[i] = x[i] \/ {a[i], x[i]} \subseteq {-1, i}
      BY <1>2 DEF Alike
    <3> QED
      BY <3>1
  <2> QED
    BY <1>2, <2>1 DEF Completed
<1> QED
  BY <1>1, <1>2

\* Nothing is left to complete.
LEMMA CompletedFacts ==
  ASSUME Types, NEW a, IsAggregates(a)
  PROVE  /\ \A i \in Rows : Completed(a)[i] \in Rows
         /\ Free(a) = {} => Completed(a) = a
         /\ Completed(Completed(a)) = Completed(a)
<1>1. \A i \in Rows : a[i] \in Rows \cup {-1} /\ Joined(i, a) \in Rows
  BY JoinedIs DEF IsAggregates, Labels
<1>2. \A i \in Rows : Completed(a)[i] \in Rows /\ Completed(a)[i] # -1
  <2>1. \A i \in Rows : Completed(a)[i] \in Rows
    BY <1>1 DEF Completed
  <2> QED
    BY <2>1, NoRowIsFree
<1>3. Free(a) = {} => Completed(a) = a
  <2>1. SUFFICES ASSUME Free(a) = {} PROVE Completed(a) = a
    OBVIOUS
  <2>2. \A i \in Rows : a[i] # -1
    BY <2>1 DEF Free
  <2> QED
    BY <2>2 DEF Completed, IsAggregates
<1>4. Completed(Completed(a)) = Completed(a)
  <2> DEFINE b == Completed(a)
  <2>1. b = [i \in Rows |-> b[i]]
    BY DEF Completed
  <2>2. \A i \in Rows : b[i] # -1
    BY <1>2
  <2> HIDE DEF b
  <2>3. Completed(b) = [i \in Rows |-> b[i]]
    BY <2>2 DEF Completed
  <2> QED
    BY <2>1, <2>3 DEF b
<1> QED
  BY <1>2, <1>3, <1>4

-----------------------------------------------------------------------------
(* The rounds of InStep. *)

Start == [agg |-> Nobody, hand |-> Nobody]

FoundAll(x) ==
  LET f == [i \in Free(x.agg) |-> Found(1, i, x.agg, x.hand)]
  IN [agg |-> [i \in Rows |-> IF i \in Free(x.agg) THEN f[i].aggregate
                              ELSE x.agg[i]],
      hand |-> [i \in Rows |-> IF i \in Free(x.agg) /\ f[i].aggregate = -1
                               THEN f[i].hand ELSE x.hand[i]]]

MatchedAll(x) ==
  [x EXCEPT !.agg = [i \in Rows |-> IF @[i] # -1 THEN @[i] ELSE Match(i, x.hand)]]

StepOf(x) == MatchedAll(FoundAll(x))

IsSnapshot(x) == x \in Snapshots /\ HandsOK(x.hand)

LEMMA StartFacts ==
  ASSUME Types
  PROVE  IsSnapshot(Start)
<1>1. Nobody \in [Rows -> Labels] /\ \A i \in Rows : Nobody[i] = -1
  BY DEF Nobody, Labels
<1> QED
  BY <1>1 DEF Start, Snapshots, IsSnapshot, HandsOK

LEMMA FoundAllFacts ==
  ASSUME Types, ZerosHarmless, NEW x, IsSnapshot(x)
  PROVE  /\ IsSnapshot(FoundAll(x))
         /\ \A j \in Rows : x.agg[j] # -1 => FoundAll(x).agg[j] = x.agg[j]
         /\ \A j \in Free(x.agg) :
              Outcome(j, x.agg, FoundAll(x).agg[j], FoundAll(x).hand[j])
<1> DEFINE y == FoundAll(x)
           b == x.agg
           found(i) == Found(1, i, b, x.hand)
<1>1. /\ b \in [Rows -> Labels] /\ x.hand \in [Rows -> Labels]
      /\ HandsOK(x.hand)
  BY DEF IsSnapshot, Snapshots
<1>2. /\ y.agg = [i \in Rows |-> IF i \in Free(b) THEN found(i).aggregate ELSE b[i]]
      /\ y.hand = [i \in Rows |-> IF i \in Free(b) /\ found(i).aggregate = -1
                                  THEN found(i).hand ELSE x.hand[i]]
      /\ y = [agg |-> y.agg, hand |-> y.hand]
  BY DEF FoundAll
<1> HIDE DEF y
<1>3. \A j \in Rows : b[j] \in Labels
  BY <1>1
<1>4. ASSUME NEW i \in Free(b)
      PROVE  /\ Outcome(i, b, found(i).aggregate, found(i).hand)
             /\ found(i).aggregate \in Labels
             /\ found(i).hand = i \/ found(i).hand \in Neighbors(i)
  <2>1. i \in Rows
    BY DEF Free
  <2>2. Outcome(i, b, found(i).aggregate, found(i).hand)
    BY <1>3, <2>1, ThreadOutcome
  <2>3. /\ found(i).aggregate =
             IF Prefers(i, b) # -1 \/ Attached(i, b) = -1 THEN -1
             ELSE IF input.merge_singletons THEN b[Attached(i, b)] ELSE i
        /\ found(i).hand = IF Prefers(i, b) = -1 THEN i ELSE Prefers(i, b)
    BY <2>1, FoundOne
  <2> HIDE DEF found
  <2>4. Prefers(i, b) # -1 => Prefers(i, b) \in Neighbors(i)
    BY <2>1, PrefersFacts
  <2>5. Attached(i, b) # -1 => Attached(i, b) \in Rows
    BY <2>1, AttachedFacts, CoupledFacts
  <2>6. found(i).aggregate \in Labels
    BY <1>3, <2>1, <2>3, <2>5 DEF Labels
  <2> QED
    BY <2>2, <2>3, <2>4, <2>6
<1>5. ASSUME NEW i \in Free(b)
      PROVE  /\ i \in Rows
             /\ y.agg[i] = found(i).aggregate
             /\ y.hand[i] = IF found(i).aggregate = -1 THEN found(i).hand ELSE x.hand[i]
  <2>1. i \in Rows
    BY DEF Free
  <2> HIDE DEF b, found
  <2> QED
    BY <1>2, <2>1
<1>6. ASSUME NEW i \in Rows, i \notin Free(b)
      PROVE  y.agg[i] = b[i] /\ y.hand[i] = x.hand[i]
  <2> HIDE DEF b, found
  <2> QED
    BY <1>2, <1>6
<1>7. \A j \in Rows : b[j] # -1 => y.agg[j] = b[j]
  BY <1>6 DEF Free
<1>8. ASSUME NEW i \in Free(b)
      PROVE  Outcome(i, b, y.agg[i], y.hand[i])
  <2>1. CASE found(i).aggregate = -1
    BY <1>4, <1>5, <2>1
  <2>2. CASE found(i).aggregate # -1
    <3> DEFINE a == found(i).aggregate
    <3>1. Outcome(i, b, a, found(i).hand) /\ a # -1 /\ y.agg[i] = a
      BY <1>4, <1>5, <2>2
    <3> HIDE DEF a, b, found
    <3> QED
      BY <3>1 DEF Outcome
  <2> QED
    BY <2>1, <2>2
<1>9. ASSUME NEW i \in Rows
      PROVE  y.agg[i] \in Labels /\ y.hand[i] \in {-1, i} \cup Neighbors(i)
  <2>1. b[i] \in Labels /\ x.hand[i] \in {-1, i} \cup Neighbors(i)
    BY <1>1 DEF HandsOK
  <2> HIDE DEF b, found
  <2> QED
    BY <1>4, <1>5, <1>6, <2>1
<1>10. \A i \in Rows : y.hand[i] \in Labels
  BY <1>9 DEF Labels, Neighbors
<1>11. y.agg \in [Rows -> Labels] /\ y.hand \in [Rows -> Labels]
  <2> HIDE DEF b, found
  <2> QED
    BY <1>2, <1>9, <1>10
<1>12. IsSnapshot(y)
  <2>1. y \in Snapshots
    BY <1>2, <1>11 DEF Snapshots
  <2> QED
    BY <1>9, <2>1 DEF IsSnapshot, HandsOK
<1> QED
  BY <1>7, <1>8, <1>12 DEF y

LEMMA StepOfFacts ==
  ASSUME Types, ZerosHarmless, NEW x, IsSnapshot(x)
  PROVE  IsSnapshot(StepOf(x)) /\ RoundOf(x.agg, StepOf(x).agg)
<1> DEFINE y == FoundAll(x)
           z == StepOf(x)
<1>1. /\ IsSnapshot(y)
      /\ \A j \in Rows : x.agg[j] # -1 => y.agg[j] = x.agg[j]
      /\ \A j \in Free(x.agg) : Outcome(j, x.agg, y.agg[j], y.hand[j])
  BY FoundAllFacts
<1> HIDE DEF y
<1>2. /\ y.agg \in [Rows -> Labels] /\ y.hand \in [Rows -> Labels]
      /\ y = [agg |-> y.agg, hand |-> y.hand] /\ HandsOK(y.hand)
  BY <1>1 DEF IsSnapshot, Snapshots
<1>3. z = [agg |-> [i \in Rows |-> IF y.agg[i] # -1 THEN y.agg[i] ELSE Match(i, y.hand)],
           hand |-> y.hand]
  BY <1>2 DEF StepOf, MatchedAll, y
<1> HIDE DEF z
<1>4. /\ z.hand = y.hand
      /\ z.agg = [i \in Rows |-> IF y.agg[i] # -1 THEN y.agg[i] ELSE Match(i, y.hand)]
  BY <1>3
<1>5. ASSUME NEW i \in Rows
      PROVE  Match(i, y.hand) \in Labels
  <2>1. y.hand[i] \in Labels /\ -1 \in Labels /\ i \in Labels
    BY <1>2 DEF Labels
  <2> QED
    BY <2>1 DEF Match
<1>6. z.agg \in [Rows -> Labels]
  BY <1>2, <1>4, <1>5
<1>7. IsSnapshot(z)
  BY <1>2, <1>3, <1>4, <1>6 DEF IsSnapshot, Snapshots
<1>8. \A j \in Rows : x.agg[j] \in Labels
  BY DEF IsSnapshot, Snapshots
<1>9. \A j \in Rows : z.agg[j] = IF y.agg[j] # -1 THEN y.agg[j] ELSE Match(j, y.hand)
  BY <1>4
<1>10. RoundOf(x.agg, z.agg)
  BY <1>1, <1>2, <1>8, <1>9, MatchOutcome
<1> QED
  BY <1>7, <1>10 DEF z

\* What n rounds in step lead to.
IsRun(r, n) ==
  /\ r = [k \in 0..n |-> IF k = 0 THEN Start ELSE StepOf(r[k - 1])]
  /\ \A k \in 0..n : IsSnapshot(r[k])
Reached(n, x) == \E r : IsRun(r, n) /\ x = r[n]

LEMMA ReachedStart ==
  ASSUME Types
  PROVE  Reached(0, Start)
<1> DEFINE r == [k \in 0..0 |-> Start]
<1>1. r[0] = Start /\ \A k \in 0..0 : k = 0
  OBVIOUS
<1>2. IsSnapshot(Start)
  BY StartFacts
<1>3. r = [k \in 0..0 |-> IF k = 0 THEN Start ELSE StepOf(r[k - 1])]
  BY <1>1
<1>4. IsRun(r, 0)
  <2> HIDE DEF r
  <2> QED
    BY <1>1, <1>2, <1>3 DEF IsRun
<1> HIDE DEF r
<1> QED
  BY <1>1, <1>4 DEF Reached

LEMMA ReachedStep ==
  ASSUME Types, ZerosHarmless, NEW n \in Nat, NEW x, IsSnapshot(x), Reached(n, x)
  PROVE  Reached(n + 1, StepOf(x))
<1>1. PICK r : IsRun(r, n) /\ x = r[n]
  BY DEF Reached
<1> DEFINE q == [k \in 0..(n+1) |-> IF k <= n THEN r[k] ELSE StepOf(x)]
<1>2. /\ \A k \in 0..n : r[k] = IF k = 0 THEN Start ELSE StepOf(r[k - 1])
      /\ \A k \in 0..n : IsSnapshot(r[k])
  BY <1>1 DEF IsRun
<1>3. IsSnapshot(StepOf(x))
  BY StepOfFacts
<1>4. /\ n + 1 \in Nat /\ ~(n + 1 <= n) /\ n + 1 \in 0..(n+1)
      /\ \A k \in 0..(n+1) : k <= n => k \in 0..n
      /\ \A k \in 0..(n+1) : ~(k <= n) => k = n + 1
      /\ \A k \in 0..n : k <= n /\ k \in 0..(n+1)
      /\ \A k \in 0..(n+1) : k # 0 => k - 1 \in 0..n
      /\ (n + 1) - 1 = n /\ n \in 0..n /\ n + 1 # 0
  OBVIOUS
<1>5. /\ \A k \in 0..n : q[k] = r[k]
      /\ q[n+1] = StepOf(x)
  BY <1>4
<1>6. ASSUME NEW k \in 0..(n+1)
      PROVE  /\ q[k] = IF k = 0 THEN Start ELSE StepOf(q[k - 1])
             /\ IsSnapshot(q[k])
  <2>1. CASE k <= n
    <3>1. k \in 0..n
      BY <1>4, <2>1
    <3>2. k # 0 => k - 1 \in 0..n
      BY <1>4
    <3> HIDE DEF q
    <3> QED
      BY <1>2, <1>5, <3>1, <3>2
  <2>2. CASE ~(k <= n)
    <3>1. k = n + 1
      BY <1>4, <2>2
    <3>2. k # 0 /\ k - 1 = n /\ q[k - 1] = x
      BY <1>1, <1>4, <1>5, <3>1
    <3> HIDE DEF q
    <3> QED
      BY <1>3, <1>5, <3>1, <3>2
  <2> QED
    BY <2>1, <2>2
<1>7. q = [k \in 0..(n+1) |-> q[k]]
  OBVIOUS
<1> HIDE DEF q
<1>8. q = [k \in 0..(n+1) |-> IF k = 0 THEN Start ELSE StepOf(q[k - 1])]
  BY <1>6, <1>7
<1>9. IsRun(q, n + 1)
  BY <1>6, <1>8 DEF IsRun
<1> QED
  BY <1>5, <1>9 DEF Reached

LEMMA SetInduction ==
  ASSUME NEW S, 0 \in S, \A n \in Nat : n \in S => n + 1 \in S
  PROVE  Nat \subseteq S
<1>1. SUFFICES ASSUME Nat \ S # {}
               PROVE  FALSE
  OBVIOUS
<1>2. PICK n \in Nat \ S : \A m \in Nat \ S : ~ (<<m, n>> \in OpToRel(<, Nat))
  <2>1. Nat \ S \subseteq Nat
    OBVIOUS
  <2> QED
    BY <1>1, <2>1, NatLessThanWellFounded, WFMin
<1>3. \A m \in Nat \ S : ~ (m < n)
  BY <1>2 DEF OpToRel
<1>4. n # 0 /\ n \in Nat
  OBVIOUS
<1>5. n - 1 \in Nat /\ (n - 1) + 1 = n /\ n - 1 < n
  BY <1>4
<1>6. n - 1 \in S
  BY <1>3, <1>5
<1>7. n \in S
  BY <1>5, <1>6
<1> QED
  BY <1>7

\* InStep is what these rounds lead to, completed.
LEMMA InStepIs ==
  ASSUME Types, ZerosHarmless, NEW x, Reached(icount, x)
  PROVE  InStep = Completed(x.agg)
<1> DEFINE found == [y \in Snapshots |->
             LET f == [i \in Free(y.agg) |-> Found(1, i, y.agg, y.hand)]
             IN [agg |-> [i \in Rows |-> IF i \in Free(y.agg) THEN f[i].aggregate
                                         ELSE y.agg[i]],
                 hand |-> [i \in Rows |-> IF i \in Free(y.agg) /\ f[i].aggregate = -1
                                          THEN f[i].hand ELSE y.hand[i]]]]
           matched == [y \in Snapshots |->
             [y EXCEPT !.agg =
                [i \in Rows |-> IF @[i] # -1 THEN @[i] ELSE Match(i, y.hand)]]]
           Is(g) == g = [n \in 0..icount |->
                           IF n = 0 THEN [agg |-> Nobody, hand |-> Nobody]
                           ELSE matched[found[g[n - 1]]]]
           round == CHOOSE g : Is(g)
<1>1. InStep = [i \in Rows |-> IF round[icount].agg[i] # -1 THEN round[icount].agg[i]
                               ELSE IF input.merge_singletons
                                    THEN Joined(i, round[icount].agg) ELSE i]
  BY DEF InStep
<1>2. \A y \in Snapshots : found[y] = FoundAll(y)
  BY DEF FoundAll
<1>3. \A y \in Snapshots : matched[y] = MatchedAll(y)
  BY DEF MatchedAll
<1>4. PICK r : IsRun(r, icount) /\ x = r[icount]
  BY DEF Reached
<1>5. icount \in Nat
  BY DEF Types
<1>6. ASSUME NEW y, IsSnapshot(y)
      PROVE  matched[found[y]] = StepOf(y)
  <2>1. y \in Snapshots /\ FoundAll(y) \in Snapshots
    BY <1>6, FoundAllFacts DEF IsSnapshot
  <2> HIDE DEF found, matched
  <2> QED
    BY <1>2, <1>3, <2>1 DEF StepOf
<1> HIDE DEF found, matched
<1>7. /\ r = [k \in 0..icount |-> IF k = 0 THEN Start ELSE StepOf(r[k - 1])]
      /\ \A k \in 0..icount : IsSnapshot(r[k])
  BY <1>4 DEF IsRun
<1>8. Is(r)
  <2>1. ASSUME NEW k \in 0..icount
        PROVE  r[k] = IF k = 0 THEN [agg |-> Nobody, hand |-> Nobody]
                      ELSE matched[found[r[k - 1]]]
    <3>1. CASE k = 0
      BY <1>7, <3>1 DEF Start
    <3>2. CASE k # 0
      <4>1. k - 1 \in 0..icount
        BY <1>5, <3>2
      <4>2. r[k] = StepOf(r[k - 1])
        BY <1>7, <3>2
      <4> QED
        BY <1>6, <1>7, <3>2, <4>1, <4>2
    <3> QED
      BY <3>1, <3>2
  <2>2. r = [k \in 0..icount |-> r[k]]
    BY <1>7
  <2> QED
    BY <2>1, <2>2
<1>9. Is(round)
  <2> HIDE DEF Is
  <2> QED
    BY <1>8
<1> HIDE DEF round
<1>10. \A k \in 0..icount : round[k] = IF k = 0 THEN Start ELSE matched[found[round[k - 1]]]
  BY <1>9 DEF Start
<1>11. round[icount] = x
  <2> DEFINE S == {k \in Nat : k <= icount => round[k] = r[k]}
  <2>1. 0 \in S
    BY <1>5, <1>7, <1>10
  <2>2. ASSUME NEW k \in Nat, k \in S
        PROVE  k + 1 \in S
    <3>1. SUFFICES ASSUME k + 1 <= icount
                   PROVE  round[k+1] = r[k+1]
      OBVIOUS
    <3>2. /\ k + 1 \in 0..icount /\ k + 1 # 0 /\ (k + 1) - 1 = k /\ k <= icount
          /\ k \in 0..icount
      BY <1>5, <3>1
    <3>3. round[k+1] = matched[found[round[k]]] /\ r[k+1] = StepOf(r[k])
      BY <1>7, <1>10, <3>2
    <3> QED
      BY <1>6, <1>7, <2>2, <3>2, <3>3
  <2>3. Nat \subseteq S
    <3> HIDE DEF S
    <3> QED
      BY <2>1, <2>2, SetInduction
  <2> QED
    BY <1>4, <1>5, <2>3
<1> QED
  BY <1>1, <1>11 DEF Completed

-----------------------------------------------------------------------------
(* The selector keeps up with the rounds in step. *)

InRounds(x) ==
  kernel \in {"find", "match"} =>
    /\ Alike(began, x.agg)
    /\ \A i \in Free(began) \ threads : Outcome(i, began, aggregates[i], hands[1][i])

AfterRound(x) == kernel = "count" => Alike(aggregates, x.agg)

AfterRounds(x) ==
  /\ kernel \in {"left", "merge", "singletons", "done"} =>
       Completed(aggregates) = Completed(x.agg)
  /\ kernel \in {"left", "merge"} => input.merge_singletons
  /\ kernel = "singletons" => ~input.merge_singletons
  /\ kernel = "merge" =>
       /\ began = aggregates
       /\ \A i \in Free(aggregates) \ threads : candidates[i] = Joined(i, aggregates)

\* Rounds that have ended.
Ended == IF kernel = "count" THEN icount + 1 ELSE icount

KeepsUp(x) ==
  /\ IsSnapshot(x) /\ Reached(Ended, x)
  /\ InRounds(x) /\ AfterRound(x) /\ AfterRounds(x)

TimingInv == Deterministic => \E x : KeepsUp(x)

\* All of this depends on the input, which stays the same.
LEMMA SameOperators ==
  ASSUME input' = input
  PROVE  /\ \A i : Neighbors(i)' = Neighbors(i)
         /\ \A i : Weights(i)' = Weights(i)
         /\ \A i : Coupled(i)' = Coupled(i)
         /\ \A x : IsSnapshot(x)' <=> IsSnapshot(x)
         /\ \A x : StepOf(x)' = StepOf(x)
         /\ \A n, x : Reached(n, x)' <=> Reached(n, x)
         /\ Deterministic' <=> Deterministic
<1>1. \A i : Neighbors(i)' = Neighbors(i)
  BY DEF Neighbors
<1>2. \A i : Weights(i)' = Weights(i)
  BY <1>1 DEF Weights
<1>3. \A i : Coupled(i)' = Coupled(i)
  BY <1>1 DEF Coupled
<1>4. \A x : IsSnapshot(x)' <=> IsSnapshot(x)
  BY <1>1 DEF IsSnapshot, HandsOK, Snapshots, Labels
<1>5. \A i, view, first : Found(1, i, view, first)' = Found(1, i, view, first)
  <2>1. \A i, first : Considered(i, 1, first)' = Considered(i, 1, first)
    BY <1>1 DEF Considered
  <2>2. \A i, j : EdgeWeight(i, 1, j)' = EdgeWeight(i, 1, j)
    BY DEF EdgeWeight
  <2>3. \A i, u, first : Hand(i, 1, u, first)' = Hand(i, 1, u, first)
    BY DEF Hand
  <2> QED
    BY <2>1, <2>2, <2>3 DEF Found
<1>6. ASSUME NEW x
      PROVE  FoundAll(x)' = FoundAll(x)
  <2> DEFINE f == [i \in Free(x.agg) |-> Found(1, i, x.agg, x.hand)]
  <2>1. \A i : Found(1, i, x.agg, x.hand)' = Found(1, i, x.agg, x.hand)
    BY <1>5
  <2>2. f' = f
    BY <2>1
  <2>3. FoundAll(x) = [agg |-> [i \in Rows |-> IF i \in Free(x.agg) THEN f[i].aggregate
                                               ELSE x.agg[i]],
                       hand |-> [i \in Rows |-> IF i \in Free(x.agg) /\ f[i].aggregate = -1
                                                THEN f[i].hand ELSE x.hand[i]]]
    BY DEF FoundAll
  <2>4. FoundAll(x)' = [agg |-> [i \in Rows |-> IF i \in Free(x.agg) THEN f'[i].aggregate
                                                ELSE x.agg[i]],
                        hand |-> [i \in Rows |-> IF i \in Free(x.agg) /\ f'[i].aggregate = -1
                                                 THEN f'[i].hand ELSE x.hand[i]]]
    BY DEF FoundAll
  <2> HIDE DEF f
  <2> QED
    BY <2>2, <2>3, <2>4
<1>7. ASSUME NEW x
      PROVE  StepOf(x)' = StepOf(x)
  <2> DEFINE y == FoundAll(x)
  <2>1. y' = y
    BY <1>6
  <2>2. StepOf(x) = [y EXCEPT !.agg = [i \in Rows |-> IF @[i] # -1 THEN @[i] ELSE Match(i, y.hand)]]
    BY DEF StepOf, MatchedAll
  <2>3. StepOf(x)' = [y' EXCEPT !.agg = [i \in Rows |-> IF @[i] # -1 THEN @[i] ELSE Match(i, y'.hand)]]
    BY DEF StepOf, MatchedAll
  <2> HIDE DEF y
  <2> QED
    BY <2>1, <2>2, <2>3
<1>8. \A r, n : IsRun(r, n)' <=> IsRun(r, n)
  BY <1>4, <1>7 DEF IsRun
<1>9. \A n, x : Reached(n, x)' <=> Reached(n, x)
  BY <1>8 DEF Reached
<1>10. Deterministic' <=> Deterministic
  BY DEF Deterministic, ZerosHarmless
<1> QED
  BY <1>1, <1>2, <1>3, <1>4, <1>7, <1>9, <1>10

LEMMA Primed ==
  ASSUME input' = input, NEW x
  PROVE  /\ Alike(began, x)' <=> Alike(began', x)
         /\ Alike(aggregates, x)' <=> Alike(aggregates', x)
         /\ \A i : Outcome(i, began, aggregates[i], hands[1][i])'
                     <=> Outcome(i, began', aggregates'[i], hands'[1][i])
         /\ \A i : Joined(i, aggregates)' = Joined(i, aggregates')
         /\ Completed(aggregates)' = Completed(aggregates')
         /\ Completed(x)' = Completed(x)
<1>1. /\ \A i : Neighbors(i)' = Neighbors(i)
      /\ \A i : Weights(i)' = Weights(i)
      /\ \A i : Coupled(i)' = Coupled(i)
  BY SameOperators
<1>2. /\ \A i : Waits(i, began)' <=> Waits(i, began')
      /\ \A i : Waits(i, aggregates)' <=> Waits(i, aggregates')
      /\ \A i : Waits(i, x)' <=> Waits(i, x)
  BY <1>1 DEF Waits
<1>3. \A i : Prefers(i, began)' = Prefers(i, began')
  BY <1>1 DEF Prefers
<1>4. /\ \A i : Joined(i, began)' = Joined(i, began')
      /\ \A i : Joined(i, aggregates)' = Joined(i, aggregates')
      /\ \A i : Joined(i, x)' = Joined(i, x)
  BY <1>1 DEF Joined
<1>5. /\ Alike(began, x)' <=> Alike(began', x)
      /\ Alike(aggregates, x)' <=> Alike(aggregates', x)
  BY <1>2 DEF Alike
<1>6. \A i : Outcome(i, began, aggregates[i], hands[1][i])'
               <=> Outcome(i, began', aggregates'[i], hands'[1][i])
  BY <1>1, <1>2, <1>3, <1>4 DEF Outcome
<1>7. /\ Completed(aggregates)' = Completed(aggregates')
      /\ Completed(x)' = Completed(x)
  BY <1>4 DEF Completed
<1> QED
  BY <1>4, <1>5, <1>6, <1>7

\* What of this holds, seen from the next state.
LEMMA KeepsUpNext ==
  ASSUME input' = input, NEW x, IsSnapshot(x), Reached(Ended', x),
         kernel' \in {"find", "match"} =>
           /\ Alike(began', x.agg)
           /\ \A i \in Free(began') \ threads' :
                Outcome(i, began', aggregates'[i], hands'[1][i]),
         kernel' = "count" => Alike(aggregates', x.agg),
         kernel' \in {"left", "merge", "singletons", "done"} =>
           Completed(aggregates') = Completed(x.agg),
         kernel' \in {"left", "merge"} => input.merge_singletons,
         kernel' = "singletons" => ~input.merge_singletons,
         kernel' = "merge" =>
           /\ began' = aggregates'
           /\ \A i \in Free(aggregates') \ threads' : candidates'[i] = Joined(i, aggregates')
  PROVE  TimingInv'
<1>1. IsSnapshot(x)' /\ Reached(Ended', x)
  BY SameOperators
<1>2. Reached(Ended, x)'
  BY SameOperators DEF Reached
<1>3. InRounds(x)' /\ AfterRound(x)' /\ AfterRounds(x)'
  BY Primed DEF InRounds, AfterRound, AfterRounds
<1> QED
  BY <1>1, <1>2, <1>3 DEF TimingInv, KeepsUp

\* The steps of one phase that do not change the aggregates, or change
\* nothing that lasts.
LEMMA FindTiming ==
  ASSUME IInv, Deterministic, NEW x, KeepsUp(x),
         NEW phase \in 1..2, NEW i \in Rows, FindStrongestNeighbour(phase, i)
  PROVE  TimingInv'
<1>1. Types /\ Kernels /\ ZerosHarmless /\ ~input.two_phase
  BY DEF IInv, Deterministic
<1>2. /\ kernel = "find" /\ phase = 1 /\ kernel' = "find" /\ input' = input
      /\ began' = began /\ icount' = icount /\ i \in threads /\ threads' = threads \ {i}
      /\ aggregates[i] = -1
      /\ \A j \in Rows \ {i} : /\ aggregates'[j] = aggregates[j]
                               /\ \A p \in 1..2 : hands'[p][j] = hands[p][j]
  BY <1>1, FindFacts DEF Kernels, Find
<1>3. /\ Alike(began, x.agg)
      /\ \A j \in Free(began) \ threads : Outcome(j, began, aggregates[j], hands[1][j])
      /\ IsSnapshot(x) /\ Reached(Ended, x)
  BY <1>2 DEF KeepsUp, InRounds
<1> DEFINE found(view) == Found(1, i, view, hands[1])
<1>4. PICK view \in Views(i) :
        /\ aggregates' = [aggregates EXCEPT ![i] = found(view).aggregate]
        /\ hands' = IF found(view).aggregate # -1 THEN hands
                    ELSE [hands EXCEPT ![phase][i] = found(view).hand]
  BY <1>2 DEF FindStrongestNeighbour
<1>5. /\ \A j \in Rows : began[j] \in Labels
      /\ \A j \in Rows : began[j] # -1 => aggregates[j] = began[j]
      /\ threads \subseteq Free(aggregates)
      /\ aggregates \in [Rows -> Labels] /\ hands \in [1..2 -> [Rows -> Labels]]
  BY <1>1, <1>2 DEF Types, Kernels
<1>6. \A j \in Rows : view[j] = began[j] \/ view[j] = aggregates[j]
  BY DEF Views
<1>7. \A j \in Rows : /\ view[j] \in Labels
                      /\ aggregates[j] = -1 => view[j] = -1
                      /\ began[j] # -1 => view[j] = began[j]
  BY <1>1, <1>5, <1>6, ViewFacts
<1>8. began[i] = -1
  BY <1>2, <1>5
\* A free row that may answer sees this row free, and has none.
<1>9. ASSUME NEW j \in Coupled(i), began[j] = -1
      PROVE  view[j] = -1
  <2>1. j \in Rows /\ i \in Coupled(j)
    BY <1>1, CoupledFacts
  <2>2. aggregates[j] = -1
    <3>1. CASE j \in threads
      BY <1>5, <3>1 DEF Free
    <3>2. CASE j \notin threads
      <4>1. Waits(j, began)
        BY <1>8, <2>1 DEF Waits, Free
      <4>2. Outcome(j, began, aggregates[j], hands[1][j])
        BY <1>3, <1>9, <2>1, <3>2 DEF Free
      <4> QED
        BY <4>1, <4>2 DEF Outcome
    <3> QED
      BY <3>1, <3>2
  <2> QED
    BY <1>7, <2>1, <2>2
<1>10. Outcome(i, began, found(view).aggregate, found(view).hand)
  BY <1>1, <1>5, <1>7, <1>9, ThreadOutcome
<1> DEFINE a == found(view).aggregate
           h == found(view).hand
<1>11. /\ aggregates' = [aggregates EXCEPT ![i] = a]
       /\ hands' = IF a # -1 THEN hands ELSE [hands EXCEPT ![1][i] = h]
       /\ Outcome(i, began, a, h)
  BY <1>2, <1>4, <1>10
<1> HIDE DEF a, h
<1>12. aggregates'[i] = a /\ (a = -1 => hands'[1][i] = h)
  BY <1>5, <1>11
<1>13. Outcome(i, began, aggregates'[i], hands'[1][i])
  <2>1. CASE a = -1
    BY <1>11, <1>12, <2>1
  <2>2. CASE a # -1
    <3> DEFINE b == began
               g == hands'[1][i]
    <3>1. Outcome(i, b, a, h)
      BY <1>11
    <3> HIDE DEF b, g
    <3>2. Outcome(i, b, a, g)
      BY <2>2, <3>1 DEF Outcome
    <3> QED
      BY <1>12, <3>2 DEF b, g
  <2> QED
    BY <2>1, <2>2
<1>14. ASSUME NEW j \in Free(began') \ threads'
       PROVE  Outcome(j, began', aggregates'[j], hands'[1][j])
  <2>1. CASE j = i
    BY <1>2, <1>13, <2>1
  <2>2. CASE j # i
    <3>1. j \in Free(began) \ threads /\ j \in Rows
      BY <1>2, <1>14, <2>2 DEF Free
    <3>2. aggregates'[j] = aggregates[j] /\ hands'[1][j] = hands[1][j]
      BY <1>2, <2>2, <3>1
    <3> QED
      BY <1>2, <1>3, <3>1, <3>2
  <2> QED
    BY <2>1, <2>2
<1>15. Ended' = Ended
  BY <1>2 DEF Ended
<1> QED
  BY <1>2, <1>3, <1>14, <1>15, KeepsUpNext

LEMMA EndFindTiming ==
  ASSUME IInv, Deterministic, NEW x, KeepsUp(x), NEW phase \in 1..2, EndFind(phase)
  PROVE  TimingInv'
<1>1. /\ kernel = "find" /\ kernel' = "match" /\ threads' = threads /\ began' = began
      /\ input' = input /\ aggregates' = aggregates /\ hands' = hands /\ icount' = icount
  <2>1. kernel = Find(phase) /\ ~input.two_phase /\ kernel # "find2"
    BY DEF EndFind, IInv, Kernels, Deterministic
  <2> QED
    BY <2>1 DEF EndFind, Goto, state, host, Find
<1>2. /\ Alike(began, x.agg)
      /\ \A j \in Free(began) \ threads : Outcome(j, began, aggregates[j], hands[1][j])
      /\ IsSnapshot(x) /\ Reached(Ended, x)
  BY <1>1 DEF KeepsUp, InRounds
<1>3. Ended' = Ended
  BY <1>1 DEF Ended
<1> QED
  BY <1>1, <1>2, <1>3, KeepsUpNext

LEMMA MatchTiming ==
  ASSUME IInv, Deterministic, NEW x, KeepsUp(x), MatchEdges
  PROVE  TimingInv'
<1>1. Types /\ Kernels /\ ZerosHarmless /\ ~input.two_phase
  BY DEF IInv, Deterministic
<1>2. /\ kernel = "match" /\ kernel' = "count" /\ threads = {} /\ icount' = icount
      /\ input' = input /\ strongest_neighbour = hands[1]
      /\ aggregates' = [i \in Rows |-> IF aggregates[i] # -1 THEN aggregates[i]
                                       ELSE Match(i, strongest_neighbour)]
  BY <1>1 DEF MatchEdges, Goto, host, Kernels, strongest_neighbour
<1>3. /\ Alike(began, x.agg)
      /\ \A j \in Free(began) : Outcome(j, began, aggregates[j], hands[1][j])
      /\ IsSnapshot(x) /\ Reached(icount, x)
  BY <1>2 DEF KeepsUp, InRounds, Ended
<1>4. RoundOf(began, aggregates')
  <2>1. /\ \A j \in Rows : began[j] \in Labels
        /\ \A j \in Rows : began[j] # -1 => aggregates[j] = began[j]
    BY <1>1 DEF Types, Kernels
  <2>2. HandsOK(hands[1])
    BY DEF IInv, Hands, HandsOK
  <2>3. \A j \in Rows : aggregates'[j] = IF aggregates[j] # -1 THEN aggregates[j]
                                         ELSE Match(j, hands[1])
    BY <1>2
  <2> QED
    BY <1>1, <1>3, <2>1, <2>2, <2>3, MatchOutcome
<1> DEFINE y == StepOf(x)
<1>5. IsSnapshot(y) /\ RoundOf(x.agg, y.agg)
  BY <1>1, <1>3, StepOfFacts
<1>6. Reached(icount + 1, y)
  BY <1>1, <1>3, ReachedStep DEF Types
<1> HIDE DEF y
<1>7. IsAggregates(aggregates') /\ IsAggregates(y.agg)
  BY <1>5, MatchKeeps DEF IsAggregates, IsSnapshot, Snapshots
<1>8. Alike(aggregates', y.agg)
  BY <1>1, <1>3, <1>4, <1>5, <1>7, AlikeKept
<1>9. Reached(Ended', y)
  <2>1. Ended' = icount + 1
    BY <1>2 DEF Ended
  <2> QED
    BY <1>6, <2>1
<1> QED
  BY <1>2, <1>5, <1>8, <1>9, KeepsUpNext

LEMMA StartCountTiming ==
  ASSUME IInv, Deterministic, NEW x, KeepsUp(x), StartCount
  PROVE  TimingInv'
<1>1. /\ kernel = "count" /\ kernel' = "find" /\ threads' = Free(aggregates')
      /\ began' = aggregates' /\ input' = input /\ aggregates' = aggregates
      /\ icount' = icount + 1
  BY DEF StartCount, Launch
<1>2. Alike(aggregates, x.agg) /\ IsSnapshot(x) /\ Reached(Ended, x)
  BY <1>1 DEF KeepsUp, AfterRound
<1>3. Ended' = Ended
  BY <1>1 DEF Ended
<1>4. Free(began') \ threads' = {} /\ Alike(began', x.agg)
  BY <1>1, <1>2
<1> QED
  BY <1>1, <1>2, <1>3, <1>4, KeepsUpNext

LEMMA ReadCountTiming ==
  ASSUME IInv, Deterministic, NEW x, KeepsUp(x), ReadCount
  PROVE  TimingInv'
<1>1. /\ kernel = "count" /\ input' = input /\ aggregates' = aggregates
      /\ icount' = icount + 1
  BY DEF ReadCount
<1>2. \/ /\ kernel' = "find" /\ threads' = Free(aggregates') /\ began' = aggregates'
      \/ kernel' = "left" /\ input.merge_singletons
      \/ kernel' = "singletons" /\ ~input.merge_singletons
  BY DEF ReadCount, Launch, Goto
<1>3. Alike(aggregates, x.agg) /\ IsSnapshot(x) /\ Reached(Ended, x)
  BY <1>1 DEF KeepsUp, AfterRound
<1>4. Ended' = Ended
  BY <1>1, <1>2 DEF Ended
<1>5. Completed(aggregates) = Completed(x.agg)
  BY <1>3, AlikeCompleted DEF IInv
<1>6. CASE kernel' = "find" /\ threads' = Free(aggregates') /\ began' = aggregates'
  <2>1. Free(began') \ threads' = {} /\ Alike(began', x.agg)
    BY <1>1, <1>3, <1>6
  <2> QED
    BY <1>1, <1>3, <1>4, <1>6, <2>1, KeepsUpNext
<1>7. CASE kernel' = "left" /\ input.merge_singletons
  BY <1>1, <1>3, <1>4, <1>5, <1>7, KeepsUpNext
<1>8. CASE kernel' = "singletons" /\ ~input.merge_singletons
  BY <1>1, <1>3, <1>4, <1>5, <1>8, KeepsUpNext
<1> QED
  BY <1>2, <1>6, <1>7, <1>8

\* The rows that are left see each other free, and stay so for each other.
LEMMA MergingTiming ==
  ASSUME IInv, Deterministic, NEW x, KeepsUp(x),
         \/ LaunchMerge \/ EndMerge \/ EndMerging \/ AggregateSingletons
         \/ \E i \in Rows : Merge(i)
  PROVE  TimingInv'
<1>1. Types /\ Kernels /\ input.deterministic
  BY DEF IInv, Deterministic
<1>2. /\ input' = input /\ icount' = icount
      /\ kernel \in {"left", "merge", "singletons"}
      /\ kernel' \in {"left", "merge", "done"}
  BY DEF LaunchMerge, EndMerge, EndMerging, AggregateSingletons, Merge, Launch, Goto, host, state
<1>3. /\ Completed(aggregates) = Completed(x.agg)
      /\ kernel \in {"left", "merge"} => input.merge_singletons
      /\ kernel = "singletons" => ~input.merge_singletons
      /\ kernel = "merge" =>
           /\ began = aggregates
           /\ \A i \in Free(aggregates) \ threads : candidates[i] = Joined(i, aggregates)
      /\ IsSnapshot(x) /\ Reached(Ended, x)
  BY <1>2 DEF KeepsUp, AfterRounds
<1>4. Reached(Ended', x)
  <2>1. Ended' = Ended
    BY <1>2 DEF Ended
  <2> QED
    BY <1>3, <2>1
<1>5. IsAggregates(aggregates)
  BY <1>1 DEF Types, IsAggregates
<1>6. ASSUME aggregates' = Completed(aggregates)
      PROVE  Completed(aggregates') = Completed(x.agg)
  BY <1>1, <1>3, <1>5, <1>6, CompletedFacts
<1>7. CASE LaunchMerge
  <2>1. /\ kernel = "left" /\ kernel' = "merge" /\ threads' = Free(aggregates')
        /\ began' = aggregates' /\ aggregates' = aggregates
    BY <1>7 DEF LaunchMerge, Launch, state
  <2> QED
    BY <1>2, <1>3, <1>4, <2>1, KeepsUpNext
<1>8. CASE EndMerge
  <2>1. /\ kernel = "merge" /\ threads = {} /\ kernel' = "left"
        /\ aggregates' = [i \in Rows |-> IF input.deterministic /\ aggregates[i] = -1
                                         THEN candidates[i] ELSE aggregates[i]]
    BY <1>8 DEF EndMerge, Goto
  <2>2. \A i \in Rows : aggregates[i] = -1 => candidates[i] = Joined(i, aggregates)
    BY <1>3, <2>1 DEF Free
  <2>3. aggregates' = Completed(aggregates)
    BY <1>1, <1>3, <2>1, <2>2 DEF Completed
  <2> QED
    BY <1>2, <1>3, <1>4, <1>6, <2>1, <2>3, KeepsUpNext
<1>9. CASE EndMerging
  <2>1. kernel' = "done" /\ aggregates' = aggregates
    BY <1>9 DEF EndMerging, Goto, state
  <2> QED
    BY <1>2, <1>3, <1>4, <2>1, KeepsUpNext
<1>10. CASE AggregateSingletons
  <2>1. /\ kernel = "singletons" /\ kernel' = "done"
        /\ aggregates' = [i \in Rows |-> IF aggregates[i] = -1 THEN i ELSE aggregates[i]]
    BY <1>10 DEF AggregateSingletons, Goto
  <2>2. aggregates' = Completed(aggregates)
    BY <1>3, <2>1 DEF Completed
  <2> QED
    BY <1>2, <1>4, <1>3, <1>6, <2>1, <2>2, KeepsUpNext
<1>11. ASSUME NEW i \in Rows, Merge(i)
       PROVE  TimingInv'
  <2>1. /\ kernel = "merge" /\ kernel' = "merge" /\ i \in threads
        /\ threads' = threads \ {i} /\ began' = began
    BY <1>11 DEF Merge
  <2>2. PICK view \in Views(i) :
          aggregates' = aggregates /\ candidates' = [candidates EXCEPT ![i] = Joined(i, view)]
    BY <1>1, <1>11 DEF Merge
  <2>3. view = aggregates
    <3>1. began = aggregates
      BY <1>3, <2>1
    <3>2. view = [j \in Rows |-> aggregates[j]]
      BY <3>1 DEF Views
    <3> QED
      BY <1>1, <3>2 DEF Types
  <2>4. ASSUME NEW j \in Free(aggregates') \ threads'
        PROVE  candidates'[j] = Joined(j, aggregates')
    <3>1. j \in Rows /\ candidates \in [Rows -> Labels]
      BY <1>1 DEF Free, Types
    <3>2. CASE j = i
      BY <2>2, <2>3, <3>1, <3>2
    <3>3. CASE j # i
      <4>1. j \in Free(aggregates) \ threads
        BY <2>1, <2>2, <2>4, <3>3
      <4>2. candidates'[j] = candidates[j]
        BY <2>2, <3>1, <3>3
      <4> QED
        BY <1>3, <2>1, <2>2, <4>1, <4>2
    <3> QED
      BY <3>2, <3>3
  <2> QED
    BY <1>2, <1>3, <1>4, <2>1, <2>2, <2>4, KeepsUpNext
<1> QED
  BY <1>7, <1>8, <1>9, <1>10, <1>11

LEMMA StutterTiming ==
  ASSUME NEW x, KeepsUp(x), UNCHANGED vars
  PROVE  TimingInv'
<1>1. /\ input' = input /\ kernel' = kernel /\ threads' = threads /\ began' = began
      /\ aggregates' = aggregates /\ hands' = hands /\ candidates' = candidates
      /\ icount' = icount
  BY DEF vars, state, host
<1>2. Ended' = Ended
  BY <1>1 DEF Ended
<1> QED
  BY <1>1, <1>2, KeepsUpNext DEF KeepsUp, InRounds, AfterRound, AfterRounds

LEMMA InitTiming ==
  ASSUME Init
  PROVE  TimingInv
<1>1. /\ kernel = "find" /\ threads = Rows /\ began = Nobody /\ icount = 0 /\ Types
  BY InitInv DEF Init, IInv
<1>2. IsSnapshot(Start) /\ Reached(Ended, Start)
  <2>1. Ended = 0
    BY <1>1 DEF Ended
  <2> QED
    BY <1>1, <2>1, StartFacts, ReachedStart
<1>3. Start.agg = Nobody
  BY DEF Start
<1>4. Alike(began, Start.agg)
  BY <1>1, <1>3 DEF Alike
<1>5. Free(began) \ threads = {}
  BY <1>1 DEF Free
<1>6. KeepsUp(Start)
  BY <1>1, <1>2, <1>4, <1>5 DEF KeepsUp, InRounds, AfterRound, AfterRounds
<1> QED
  BY <1>6 DEF TimingInv

\* With determinism_flag, one phase and no harmful entry of weight 0, the
\* aggregates are a function of the matrix and the parameters: what the
\* threads of a kernel see of each other leaves no trace.
THEOREM TimingDoesNotMatter == Spec => []TimingIrrelevant
<1>1. Init => TimingInv
  BY InitTiming
<1>2. IInv /\ TimingInv /\ [Next]_vars => TimingInv'
  <2>1. SUFFICES ASSUME IInv, TimingInv, [Next]_vars, Deterministic'
                 PROVE  TimingInv'
    BY DEF TimingInv
  <2>2. input' = input
    BY <2>1 DEF Next, Step, vars, FindStrongestNeighbour, Merge, EndFind, MatchEdges,
      StartCount, ReadCount, LaunchMerge, EndMerge, EndMerging, AggregateSingletons
  <2>3. Deterministic
    BY <2>1, <2>2, SameOperators
  <2>4. PICK x : KeepsUp(x)
    BY <2>1, <2>3 DEF TimingInv
  <2>5. ASSUME NEW i \in Rows, NEW phase \in 1..2, FindStrongestNeighbour(phase, i)
        PROVE  TimingInv'
    BY <2>1, <2>3, <2>4, <2>5, FindTiming
  <2>6. ASSUME NEW phase \in 1..2, EndFind(phase)
        PROVE  TimingInv'
    BY <2>1, <2>3, <2>4, <2>6, EndFindTiming
  <2>7. CASE MatchEdges
    BY <2>1, <2>3, <2>4, <2>7, MatchTiming
  <2>8. CASE StartCount
    BY <2>1, <2>3, <2>4, <2>8, StartCountTiming
  <2>9. CASE ReadCount
    BY <2>1, <2>3, <2>4, <2>9, ReadCountTiming
  <2>10. CASE \/ LaunchMerge \/ EndMerge \/ EndMerging \/ AggregateSingletons
              \/ \E i \in Rows : Merge(i)
    BY <2>1, <2>3, <2>4, <2>10, MergingTiming
  <2>11. CASE UNCHANGED vars
    BY <2>4, <2>11, StutterTiming
  <2> QED
    BY <2>1, <2>5, <2>6, <2>7, <2>8, <2>9, <2>10, <2>11 DEF Next, Step
<1>3. IInv /\ TimingInv => TimingIrrelevant
  <2>1. SUFFICES ASSUME IInv, kernel = "done", Deterministic, NEW x, KeepsUp(x)
                 PROVE  aggregates = InStep
    BY DEF TimingIrrelevant, Deterministic, TimingInv
  <2>2. Types /\ ZerosHarmless /\ Free(aggregates) = {} /\ IsAggregates(aggregates)
    BY <2>1 DEF IInv, Counts, Deterministic, Types, IsAggregates
  <2>3. Completed(aggregates) = Completed(x.agg) /\ Reached(icount, x)
    BY <2>1 DEF KeepsUp, AfterRounds, Ended
  <2>4. Completed(aggregates) = aggregates
    BY <2>2, CompletedFacts
  <2>5. InStep = Completed(x.agg)
    BY <2>2, <2>3, InStepIs
  <2> QED
    BY <2>3, <2>4, <2>5
<1> QED
  BY <1>1, <1>2, <1>3, SelectorInvariant, PTL DEF Spec
=============================================================================
