----------------------------- MODULE PmisProofs -----------------------------
(***************************************************************************)
(* Proofs about Pmis, for any finite matrix, partition, strength and       *)
(* hashes: the coarse points of a pass are a maximal independent set, the  *)
(* halos agree when a round begins, the rounds end, and the ranks together *)
(* choose what one rank with the whole matrix would.                       *)
(*                                                                         *)
(* The first half is about that one rank: the sequence of its maps, round  *)
(* by round.  The second half is the inductive invariant of the ranks: all *)
(* that a rank has and all it ever sent is a part of that sequence, cut to *)
(* what the rank sees, wherever each rank is.                              *)
(***************************************************************************)
EXTENDS Pmis, SequenceTheorems, FiniteSetTheorems, WellFoundedInduction, TLAPS

-----------------------------------------------------------------------------
(* Induction over the rounds. *)

\* The least element of a set of naturals.
LEMMA LeastNat ==
  ASSUME NEW S, S \subseteq Nat, S # {}
  PROVE  \E n \in S : \A m \in S : n <= m
<1>1. PICK n \in S : \A m \in S : ~ (<<m, n>> \in OpToRel(<, Nat))
  BY NatLessThanWellFounded, WFMin
<1>2. ASSUME NEW m \in S
      PROVE  n <= m
  <2>1. ~ (m < n)
    BY <1>1 DEF OpToRel
  <2>2. m \in Nat /\ n \in Nat
    OBVIOUS
  <2> QED
    BY <2>1, <2>2
<1> QED
  BY <1>2

\* Induction for a set, in place of an operator.
LEMMA SetInduction ==
  ASSUME NEW S, 0 \in S, \A n \in Nat : n \in S => n + 1 \in S
  PROVE  Nat \subseteq S
<1>1. SUFFICES ASSUME Nat \ S # {}
               PROVE  FALSE
  OBVIOUS
<1>2. PICK n \in Nat \ S : \A m \in Nat \ S : n <= m
  <2>1. Nat \ S \subseteq Nat
    OBVIOUS
  <2> QED
    BY <1>1, <2>1, LeastNat
<1>3. n # 0 /\ n \in Nat
  OBVIOUS
<1>4. n - 1 \in Nat /\ (n - 1) + 1 = n /\ ~ (n <= n - 1)
  BY <1>3
<1>5. n - 1 \in S
  BY <1>2, <1>4
<1>6. n \in S
  BY <1>4, <1>5
<1> QED
  BY <1>6

\* Of finitely many, one has the greatest number.
LEMMA GreatestOf ==
  ASSUME NEW S, IsFiniteSet(S), S # {}, NEW w, \A s \in S : w[s] \in Nat
  PROVE  \E s \in S : \A t \in S : w[t] <= w[s]
<1> DEFINE Above(s) == {t \in S : w[t] > w[s]}
           C == {Cardinality(Above(s)) : s \in S}
<1>1. \A s \in S : IsFiniteSet(Above(s)) /\ Cardinality(Above(s)) \in Nat
  <2>1. SUFFICES ASSUME NEW s \in S
                 PROVE  IsFiniteSet(Above(s)) /\ Cardinality(Above(s)) \in Nat
    OBVIOUS
  <2>2. Above(s) \in SUBSET S
    OBVIOUS
  <2> HIDE DEF Above
  <2> QED
    BY <2>2, FS_Subset, FS_CardinalityType
<1>2. C \subseteq Nat /\ C # {}
  BY <1>1
<1>3. PICK c \in C : \A d \in C : c <= d
  <2> HIDE DEF C
  <2> QED
    BY <1>2, LeastNat
<1>4. PICK s \in S : c = Cardinality(Above(s))
  OBVIOUS
<1>5. ASSUME NEW t \in S, w[t] > w[s]
      PROVE  FALSE
  <2>1. Above(t) \in SUBSET Above(s) /\ t \in Above(s) /\ t \notin Above(t)
    BY <1>5
  <2>2. c <= Cardinality(Above(t))
    BY <1>3
  <2> HIDE DEF C, Above
  <2>3. Cardinality(Above(t)) <= Cardinality(Above(s)) /\ Above(t) # Above(s)
    BY <1>1, <2>1, FS_Subset
  <2>4. Cardinality(Above(t)) # Cardinality(Above(s))
    BY <1>1, <2>1, <2>3, FS_Subset
  <2> QED
    BY <1>1, <1>4, <2>2, <2>3, <2>4
<1> HIDE DEF C, Above
<1> QED
  BY <1>5

\* h is what f makes of m, a step at a time.
Iterates(M, m, f, h) ==
    h \in [Nat -> M] /\ h[0] = m /\ \A k \in Nat : h[k+1] = f[k][h[k]]

\* Steps that can be iterated from m.
Iterable(M, m, f) == m \in M /\ f \in [Nat -> [M -> M]]

\* What a step at a time makes of a value: the sequence exists.
LEMMA IterationExists ==
  ASSUME NEW M, NEW m, NEW f, Iterable(M, m, f)
  PROVE  \E h : Iterates(M, m, f, h)
<1>0. m \in M /\ f \in [Nat -> [M -> M]]
  BY DEF Iterable
<1> DEFINE Begins(g, n) == /\ g \in [0..n -> M] /\ g[0] = m
                           /\ \A k \in 0..(n-1) : g[k+1] = f[k][g[k]]
           S == {n \in Nat : \E g \in [0..n -> M] : Begins(g, n)}
           pick[n \in Nat] == CHOOSE g \in [0..n -> M] : Begins(g, n)
<1>1. Nat \subseteq S
  <2>1. 0 \in S
    <3>1. Begins([k \in 0..0 |-> m], 0)
      BY <1>0
    <3> QED
      BY <3>1
  <2>2. ASSUME NEW n \in Nat, n \in S
        PROVE  n + 1 \in S
    <3>1. PICK g \in [0..n -> M] : Begins(g, n)
      BY <2>2
    <3> DEFINE e == [k \in 0..(n+1) |-> IF k = n + 1 THEN f[n][g[n]] ELSE g[k]]
    <3>2. n \in 0..n /\ 0 \in 0..n
      OBVIOUS
    <3>3. f[n][g[n]] \in M
      BY <1>0, <3>2
    <3>4. e \in [0..(n+1) -> M]
      <4>1. ASSUME NEW k \in 0..(n+1)
            PROVE  e[k] \in M
        BY <3>3
      <4> QED
        BY <4>1
    <3>5. e[0] = m
      BY <3>1
    <3>6. ASSUME NEW k \in 0..n
          PROVE  e[k+1] = f[k][e[k]]
      <4>1. e[k] = g[k] /\ k + 1 \in 0..(n+1)
        OBVIOUS
      <4>2. CASE k = n
        BY <4>1, <4>2
      <4>3. CASE k # n
        <5>1. k \in 0..(n-1) /\ k + 1 # n + 1
          BY <4>3
        <5> QED
          BY <3>1, <4>1, <5>1
      <4> QED
        BY <4>2, <4>3
    <3>7. (n + 1) - 1 = n
      OBVIOUS
    <3>8. Begins(e, n + 1)
      <4> HIDE DEF e
      <4> QED
        BY <3>4, <3>5, <3>6, <3>7
    <3> HIDE DEF Begins
    <3> QED
      BY <3>4, <3>8
  <2> HIDE DEF S
  <2> QED
    BY <2>1, <2>2, SetInduction
<1>2. ASSUME NEW n \in Nat
      PROVE  Begins(pick[n], n)
  <2>1. \E g \in [0..n -> M] : Begins(g, n)
    BY <1>1
  <2>2. pick[n] = CHOOSE g \in [0..n -> M] : Begins(g, n)
    OBVIOUS
  <2> HIDE DEF Begins, pick
  <2> QED
    BY <2>1, <2>2
<1> HIDE DEF pick
\* Two beginnings agree.
<1>3. ASSUME NEW n \in Nat
      PROVE  \A k \in 0..n : pick[n][k] = pick[n+1][k]
  <2> DEFINE T == {k \in Nat : k <= n => pick[n][k] = pick[n+1][k]}
  <2>0. n + 1 \in Nat
    OBVIOUS
  <2>1. Begins(pick[n], n) /\ Begins(pick[n+1], n+1)
    BY <1>2, <2>0
  <2>2. 0 \in T
    BY <2>1
  <2>3. ASSUME NEW k \in Nat, k \in T
        PROVE  k + 1 \in T
    <3>1. CASE k + 1 <= n
      <4>1. k <= n /\ k \in 0..(n-1) /\ k \in 0..((n+1)-1)
        BY <3>1
      <4>2. pick[n][k] = pick[n+1][k]
        BY <2>3, <4>1
      <4>3. pick[n][k+1] = f[k][pick[n][k]] /\ pick[n+1][k+1] = f[k][pick[n+1][k]]
        BY <2>1, <4>1
      <4> QED
        BY <4>2, <4>3
    <3>2. CASE ~ (k + 1 <= n)
      BY <3>2
    <3> QED
      BY <3>1, <3>2
  <2>4. Nat \subseteq T
    <3> HIDE DEF T
    <3> QED
      BY <2>2, <2>3, SetInduction
  <2> QED
    BY <2>4
<1> DEFINE h == [n \in Nat |-> pick[n][n]]
<1>4. h \in [Nat -> M]
  <2>1. ASSUME NEW n \in Nat
        PROVE  pick[n][n] \in M
    <3>1. pick[n] \in [0..n -> M] /\ n \in 0..n
      BY <1>2
    <3> QED
      BY <3>1
  <2> QED
    BY <2>1
<1>5. h[0] = m
  BY <1>2
<1>6. ASSUME NEW k \in Nat
      PROVE  h[k+1] = f[k][h[k]]
  <2>1. k + 1 \in Nat /\ k \in 0..((k+1)-1) /\ k \in 0..k
    OBVIOUS
  <2>2. pick[k+1][k+1] = f[k][pick[k+1][k]]
    BY <1>2, <2>1
  <2>3. pick[k+1][k] = pick[k][k]
    BY <1>3, <2>1
  <2> QED
    BY <2>1, <2>2, <2>3
<1> HIDE DEF h
<1>7. Iterates(M, m, f, h)
  BY <1>4, <1>5, <1>6 DEF Iterates
<1> QED
  BY <1>7

-----------------------------------------------------------------------------
(* One rank with the whole matrix.  A problem is the matrix of a pass. *)

WeightIn(P, i) ==
    Unit * Cardinality({j \in P.points : <<j, i>> \in P.edges}) + P.hash[i]

MarksOf(P) == [P.points -> Marks]

Initially(P) ==
    [i \in P.points |->
       IF \A j \in P.points : <<i, j>> \notin P.edges THEN P.isolated
       ELSE IF WeightIn(P, i) < Unit THEN FINE ELSE UNASSIGNED]

\* j keeps i from being coarse.
Beats(P, m, j, i) ==
    /\ m[j] = UNASSIGNED
    /\ <<i, j>> \in P.edges \/ <<j, i>> \in P.edges
    /\ ~ (WeightIn(P, j) <= WeightIn(P, i))

Coarsened(P, m) ==
    [i \in P.points |->
       IF /\ m[i] = UNASSIGNED
          /\ WeightIn(P, i) > Unit
          /\ \A j \in P.points : ~ Beats(P, m, j, i)
       THEN COARSE ELSE m[i]]

Refined(P, m) ==
    [i \in P.points |->
       IF /\ m[i] = UNASSIGNED
          /\ \E j \in P.points : <<i, j>> \in P.edges /\ m[j] = COARSE
       THEN FINE ELSE m[i]]

\* The marks of round k; the second pass begins with its isolated points.
MarkedIn(P, k, m) == IF P.pass = 2 /\ k = 0 THEN m ELSE Coarsened(P, m)

\* The maps before each round.
Before(P) ==
    LET h[k \in Nat] == IF k = 0 THEN Initially(P)
                        ELSE Refined(P, MarkedIn(P, k - 1, h[k - 1]))
    IN h

Marking(P, k) == MarkedIn(P, k, Before(P)[k])

IsProblem(P) ==
    /\ P.pass \in 1..2
    /\ IsFiniteSet(P.points)
    /\ P.edges \subseteq P.points \X P.points
    /\ \A i \in P.points : P.hash[i] \in 0..Unit
    /\ P.isolated = IF P.pass = 1 THEN STRONG_FINE ELSE COARSE

LEMMA UnitFacts ==
  Unit \in Nat /\ Unit > 0
BY PmisAssumption

LEMMA MarksFacts ==
  /\ COARSE \in Marks /\ FINE \in Marks /\ STRONG_FINE \in Marks /\ UNASSIGNED \in Marks
  /\ COARSE # FINE /\ COARSE # STRONG_FINE /\ COARSE # UNASSIGNED
  /\ FINE # STRONG_FINE /\ FINE # UNASSIGNED /\ STRONG_FINE # UNASSIGNED
BY DEF Marks, COARSE, FINE, STRONG_FINE, UNASSIGNED

\* A point that others depend on weighs at least 1.0; only a hash of 0.0 or of
\* 1.0 makes a weight of exactly that.
LEMMA WeightFacts ==
  ASSUME NEW P, IsProblem(P), NEW i \in P.points
  PROVE  /\ WeightIn(P, i) \in Nat
         /\ P.hash[i] \notin {0, Unit} => WeightIn(P, i) # Unit
<1> DEFINE D == {j \in P.points : <<j, i>> \in P.edges}
           c == Cardinality(D)
<1>1. c \in Nat
  <2>1. D \in SUBSET P.points /\ IsFiniteSet(P.points)
    BY DEF IsProblem
  <2> HIDE DEF D
  <2> QED
    BY <2>1, FS_Subset, FS_CardinalityType
<1>2. P.hash[i] \in 0..Unit
  BY DEF IsProblem
<1>3. WeightIn(P, i) = Unit * c + P.hash[i]
  BY DEF WeightIn
<1> HIDE DEF c, D
<1>4. Unit * c \in Nat
  BY <1>1, UnitFacts
<1>5. WeightIn(P, i) \in Nat
  BY <1>2, <1>3, <1>4, UnitFacts
<1>6. ASSUME P.hash[i] \notin {0, Unit}, WeightIn(P, i) = Unit
      PROVE  FALSE
  <2> DEFINE h == P.hash[i]
  <2>1. h \in Nat /\ h > 0 /\ h < Unit
    BY <1>2, <1>6, UnitFacts
  <2>2. Unit * c + h = Unit
    BY <1>3, <1>6
  <2>3. CASE c = 0
    <3>1. Unit * c = 0
      BY <2>3, UnitFacts
    <3> HIDE DEF h
    <3> QED
      BY <2>1, <2>2, <3>1, UnitFacts
  <2>4. CASE c # 0
    <3>1. c >= 1
      BY <1>1, <2>4
    <3>2. Unit * c >= Unit
      <4> HIDE DEF h
      <4> QED
        BY <1>1, <3>1, UnitFacts
    <3> HIDE DEF h
    <3> QED
      BY <1>4, <2>1, <2>2, <3>2, UnitFacts
  <2> QED
    BY <2>3, <2>4
<1> QED
  BY <1>5, <1>6

LEMMA InitiallyFacts ==
  ASSUME NEW P, IsProblem(P)
  PROVE  /\ Initially(P) \in MarksOf(P)
         /\ \A i \in P.points :
              Initially(P)[i] = IF \A j \in P.points : <<i, j>> \notin P.edges
                                THEN P.isolated
                                ELSE IF WeightIn(P, i) < Unit THEN FINE ELSE UNASSIGNED
<1>1. P.isolated \in Marks
  BY MarksFacts DEF IsProblem
<1> QED
  BY <1>1, MarksFacts DEF Initially, MarksOf

LEMMA CoarsenedFacts ==
  ASSUME NEW P, NEW m \in MarksOf(P)
  PROVE  /\ Coarsened(P, m) \in MarksOf(P)
         /\ \A i \in P.points :
              Coarsened(P, m)[i] = IF /\ m[i] = UNASSIGNED
                                      /\ WeightIn(P, i) > Unit
                                      /\ \A j \in P.points : ~ Beats(P, m, j, i)
                                   THEN COARSE ELSE m[i]
BY MarksFacts DEF Coarsened, MarksOf

LEMMA RefinedFacts ==
  ASSUME NEW P, NEW m \in MarksOf(P)
  PROVE  /\ Refined(P, m) \in MarksOf(P)
         /\ \A i \in P.points :
              Refined(P, m)[i] = IF /\ m[i] = UNASSIGNED
                                    /\ \E j \in P.points : <<i, j>> \in P.edges /\ m[j] = COARSE
                                 THEN FINE ELSE m[i]
BY MarksFacts DEF Refined, MarksOf

LEMMA MarkedInFacts ==
  ASSUME NEW P, NEW k \in Nat, NEW m \in MarksOf(P)
  PROVE  MarkedIn(P, k, m) \in MarksOf(P)
BY CoarsenedFacts DEF MarkedIn

\* The maps before each round, and the marks in it.
LEMMA BeforeFacts ==
  ASSUME NEW P, IsProblem(P)
  PROVE  /\ Before(P)[0] = Initially(P)
         /\ \A k \in Nat : Before(P)[k+1] = Refined(P, Marking(P, k))
         /\ \A k \in Nat : Before(P)[k] \in MarksOf(P) /\ Marking(P, k) \in MarksOf(P)
<1> DEFINE M == MarksOf(P)
           f == [k \in Nat |-> [m \in M |-> Refined(P, MarkedIn(P, k, m))]]
           Is(h) == h = [k \in Nat |-> IF k = 0 THEN Initially(P)
                                       ELSE Refined(P, MarkedIn(P, k - 1, h[k - 1]))]
<1>1. f \in [Nat -> [M -> M]]
  BY MarkedInFacts, RefinedFacts
<1>2a. PICK h : Iterates(M, Initially(P), f, h)
  <2>1. Iterable(M, Initially(P), f)
    BY <1>1, InitiallyFacts DEF Iterable
  <2> HIDE DEF f, M
  <2> QED
    BY <2>1, IterationExists
<1>2. h \in [Nat -> M] /\ h[0] = Initially(P) /\ \A k \in Nat : h[k+1] = f[k][h[k]]
  BY <1>2a DEF Iterates
<1>3. \A k \in Nat : h[k+1] = Refined(P, MarkedIn(P, k, h[k]))
  BY <1>2
<1>4. Is(h)
  <2>1. ASSUME NEW k \in Nat
        PROVE  h[k] = IF k = 0 THEN Initially(P)
                      ELSE Refined(P, MarkedIn(P, k - 1, h[k - 1]))
    <3>1. CASE k = 0
      BY <1>2, <3>1
    <3>2. CASE k # 0
      <4>1. k - 1 \in Nat /\ (k - 1) + 1 = k
        BY <3>2
      <4>2. h[(k - 1) + 1] = Refined(P, MarkedIn(P, k - 1, h[k - 1]))
        BY <1>3, <4>1
      <4> QED
        BY <3>2, <4>1, <4>2
    <3> QED
      BY <3>1, <3>2
  <2> QED
    BY <1>2, <2>1
<1>5. Before(P) = CHOOSE g : Is(g)
  BY DEF Before
<1> DEFINE b == Before(P)
<1>6. Is(b)
  <2> HIDE DEF Is
  <2> QED
    BY <1>4, <1>5
<1>7. b[0] = Initially(P)
  <2> HIDE DEF b
  <2> QED
    BY <1>6
<1>8. ASSUME NEW k \in Nat
      PROVE  b[k+1] = Refined(P, MarkedIn(P, k, b[k]))
  <2>1. k + 1 \in Nat /\ k + 1 # 0 /\ (k + 1) - 1 = k
    OBVIOUS
  <2> HIDE DEF b
  <2>2. b[k+1] = IF k + 1 = 0 THEN Initially(P)
                 ELSE Refined(P, MarkedIn(P, (k + 1) - 1, b[(k + 1) - 1]))
    BY <1>6, <2>1
  <2> QED
    BY <2>1, <2>2
<1>9. \A k \in Nat : b[k] \in M
  <2> DEFINE S == {k \in Nat : b[k] \in M}
  <2>1. 0 \in S
    BY <1>7, InitiallyFacts
  <2>2. \A k \in Nat : k \in S => k + 1 \in S
    <3> HIDE DEF b
    <3> QED
      BY <1>8, MarkedInFacts, RefinedFacts
  <2> HIDE DEF b, M
  <2>3. Nat \subseteq S
    <3> HIDE DEF S
    <3> QED
      BY <2>1, <2>2, SetInduction
  <2> QED
    BY <2>3
<1> QED
  BY <1>7, <1>8, <1>9, MarkedInFacts DEF Marking

-----------------------------------------------------------------------------
(* What the rounds of one rank keep. *)

\* A round only decides about unassigned points.
LEMMA RoundFacts ==
  ASSUME NEW P, IsProblem(P), NEW k \in Nat
  PROVE  /\ k + 1 \in Nat
         /\ Before(P)[k] \in MarksOf(P) /\ Marking(P, k) \in MarksOf(P)
         /\ Before(P)[k+1] \in MarksOf(P)
         /\ \A i \in P.points :
              /\ Before(P)[k][i] # UNASSIGNED => Marking(P, k)[i] = Before(P)[k][i]
              /\ Marking(P, k)[i] \in {COARSE, Before(P)[k][i]}
              /\ Marking(P, k)[i] # UNASSIGNED => Before(P)[k+1][i] = Marking(P, k)[i]
              /\ Before(P)[k+1][i] \in {FINE, Marking(P, k)[i]}
<1> DEFINE b == Before(P)[k]
           m == Marking(P, k)
           a == Before(P)[k+1]
<1>1. k + 1 \in Nat /\ b \in MarksOf(P) /\ m \in MarksOf(P) /\ a = Refined(P, m)
  BY BeforeFacts
<1>2. m = MarkedIn(P, k, b)
  BY DEF Marking
<1> HIDE DEF b, m, a
<1>3. m = b \/ m = Coarsened(P, b)
  BY <1>2 DEF MarkedIn
<1>4. \A i \in P.points : (b[i] # UNASSIGNED => m[i] = b[i]) /\ m[i] \in {COARSE, b[i]}
  BY <1>1, <1>3, CoarsenedFacts
<1>5. \A i \in P.points : (m[i] # UNASSIGNED => a[i] = m[i]) /\ a[i] \in {FINE, m[i]}
  BY <1>1, RefinedFacts
<1>6. a \in MarksOf(P)
  BY <1>1, RefinedFacts
<1> QED
  BY <1>1, <1>4, <1>5, <1>6 DEF b, m, a

\* What is decided stays.
LEMMA DecidedStays ==
  ASSUME NEW P, IsProblem(P), NEW k \in Nat, NEW n \in Nat, k <= n, NEW i \in P.points,
         Before(P)[k][i] # UNASSIGNED
  PROVE  Before(P)[n][i] = Before(P)[k][i]
<1> DEFINE S == {d \in Nat : Before(P)[k+d][i] = Before(P)[k][i]}
<1>1. 0 \in S
  <2>1. k + 0 = k
    OBVIOUS
  <2> QED
    BY <2>1
<1>2. ASSUME NEW d \in Nat, d \in S
      PROVE  d + 1 \in S
  <2>1. k + d \in Nat /\ k + (d + 1) = (k + d) + 1 /\ d + 1 \in Nat
    OBVIOUS
  <2>2. Before(P)[k+d][i] = Before(P)[k][i]
    BY <1>2
  <2>3. Before(P)[(k+d)+1][i] = Before(P)[k+d][i]
    BY <2>1, <2>2, RoundFacts
  <2> QED
    BY <2>1, <2>2, <2>3
<1>3. Nat \subseteq S
  <2> HIDE DEF S
  <2> QED
    BY <1>1, <1>2, SetInduction
<1>4. n - k \in Nat /\ k + (n - k) = n
  OBVIOUS
<1> QED
  BY <1>3, <1>4

\* Coarse points that depend on each other weigh the same.
ApartIn(P, m) ==
    \A i, j \in P.points :
      (/\ i # j
       /\ <<i, j>> \in P.edges /\ <<j, i>> \in P.edges
       /\ WeightIn(P, i) # WeightIn(P, j))
          => ~ (m[i] = COARSE /\ m[j] = COARSE)

\* No unassigned point depends on a coarse one.
ClosedIn(P, m) ==
    \A i, j \in P.points :
      m[i] = UNASSIGNED /\ <<i, j>> \in P.edges => m[j] # COARSE

LEMMA BeginsApart ==
  ASSUME NEW P, IsProblem(P)
  PROVE  ApartIn(P, Initially(P)) /\ (P.pass = 1 => ClosedIn(P, Initially(P)))
<1>1. ASSUME NEW i \in P.points, Initially(P)[i] = COARSE
      PROVE  P.isolated = COARSE /\ \A j \in P.points : <<i, j>> \notin P.edges
  BY <1>1, InitiallyFacts, MarksFacts
<1>2. P.pass = 1 => P.isolated # COARSE
  BY MarksFacts DEF IsProblem
<1> QED
  BY <1>1, <1>2 DEF ApartIn, ClosedIn

LEMMA MarkingKeepsApart ==
  ASSUME NEW P, IsProblem(P), NEW m \in MarksOf(P), ApartIn(P, m), ClosedIn(P, m)
  PROVE  ApartIn(P, Coarsened(P, m))
<1> DEFINE c == Coarsened(P, m)
<1>1. \A i \in P.points :
        c[i] = IF /\ m[i] = UNASSIGNED
                  /\ WeightIn(P, i) > Unit
                  /\ \A j \in P.points : ~ Beats(P, m, j, i)
               THEN COARSE ELSE m[i]
  BY CoarsenedFacts
<1> HIDE DEF c
<1>2. SUFFICES ASSUME NEW i \in P.points, NEW j \in P.points, i # j,
                      <<i, j>> \in P.edges, <<j, i>> \in P.edges,
                      WeightIn(P, i) # WeightIn(P, j),
                      c[i] = COARSE, c[j] = COARSE
               PROVE  FALSE
  BY DEF ApartIn, c
<1>3. /\ m[i] \in {COARSE, UNASSIGNED} /\ m[j] \in {COARSE, UNASSIGNED}
      /\ m[i] = UNASSIGNED => \A l \in P.points : ~ Beats(P, m, l, i)
      /\ m[j] = UNASSIGNED => \A l \in P.points : ~ Beats(P, m, l, j)
  BY <1>1, <1>2, MarksFacts
<1>4. CASE m[i] = COARSE /\ m[j] = COARSE
  BY <1>2, <1>4 DEF ApartIn
<1>5. CASE m[i] = UNASSIGNED /\ m[j] = COARSE
  BY <1>2, <1>5 DEF ClosedIn
<1>6. CASE m[i] = COARSE /\ m[j] = UNASSIGNED
  BY <1>2, <1>6 DEF ClosedIn
<1>7. CASE m[i] = UNASSIGNED /\ m[j] = UNASSIGNED
  <2>1. ~ Beats(P, m, j, i) /\ ~ Beats(P, m, i, j)
    BY <1>3, <1>7
  <2>2. WeightIn(P, j) <= WeightIn(P, i) /\ WeightIn(P, i) <= WeightIn(P, j)
    BY <1>2, <1>7, <2>1 DEF Beats
  <2> QED
    BY <1>2, <2>2, WeightFacts
<1> QED
  BY <1>3, <1>4, <1>5, <1>6, <1>7

LEMMA RefinedIsClosed ==
  ASSUME NEW P, NEW m \in MarksOf(P), ApartIn(P, m)
  PROVE  ApartIn(P, Refined(P, m)) /\ ClosedIn(P, Refined(P, m))
<1> DEFINE c == Refined(P, m)
<1>1. \A i \in P.points :
        c[i] = IF /\ m[i] = UNASSIGNED
                  /\ \E j \in P.points : <<i, j>> \in P.edges /\ m[j] = COARSE
               THEN FINE ELSE m[i]
  BY RefinedFacts
<1> HIDE DEF c
<1>2. \A i \in P.points : c[i] = COARSE => m[i] = COARSE
  BY <1>1, MarksFacts
<1>3. \A i \in P.points : c[i] = UNASSIGNED =>
        m[i] = UNASSIGNED /\ ~ \E j \in P.points : <<i, j>> \in P.edges /\ m[j] = COARSE
  BY <1>1, MarksFacts
<1> QED
  BY <1>2, <1>3 DEF ApartIn, ClosedIn, c

\* In every round.
LEMMA AlwaysApart ==
  ASSUME NEW P, IsProblem(P)
  PROVE  \A k \in Nat : ApartIn(P, Before(P)[k])
<1> DEFINE S == {k \in Nat : /\ ApartIn(P, Before(P)[k])
                             /\ P.pass = 1 \/ k # 0 => ClosedIn(P, Before(P)[k])}
<1>1. 0 \in S
  BY BeginsApart, BeforeFacts
<1>2. ASSUME NEW k \in Nat, k \in S
      PROVE  k + 1 \in S
  <2>1. /\ Before(P)[k] \in MarksOf(P) /\ Marking(P, k) \in MarksOf(P)
        /\ Before(P)[k+1] = Refined(P, Marking(P, k))
    BY BeforeFacts
  <2>2. ApartIn(P, Marking(P, k))
    <3>1. CASE P.pass = 2 /\ k = 0
      BY <1>2, <3>1 DEF Marking, MarkedIn
    <3>2. CASE ~ (P.pass = 2 /\ k = 0)
      <4>1. P.pass = 1 \/ k # 0
        BY <3>2 DEF IsProblem
      <4>2. ApartIn(P, Before(P)[k]) /\ ClosedIn(P, Before(P)[k])
        BY <1>2, <4>1
      <4>3. Marking(P, k) = Coarsened(P, Before(P)[k])
        BY <3>2 DEF Marking, MarkedIn
      <4> QED
        BY <2>1, <4>2, <4>3, MarkingKeepsApart
    <3> QED
      BY <3>1, <3>2
  <2>3. ApartIn(P, Before(P)[k+1]) /\ ClosedIn(P, Before(P)[k+1])
    BY <2>1, <2>2, RefinedIsClosed
  <2> QED
    BY <2>3
<1>3. Nat \subseteq S
  <2> HIDE DEF S
  <2> QED
    BY <1>1, <1>2, SetInduction
<1> QED
  BY <1>3

\* A point that the rounds made fine depends on a coarse one.
LEMMA AlwaysCovered ==
  ASSUME NEW P, IsProblem(P), NEW i \in P.points, Initially(P)[i] = UNASSIGNED
  PROVE  \A k \in Nat : Before(P)[k][i] = FINE =>
           \E j \in P.points : <<i, j>> \in P.edges /\ Before(P)[k][j] = COARSE
<1> DEFINE Covered(k) == \E j \in P.points : <<i, j>> \in P.edges /\ Before(P)[k][j] = COARSE
           S == {k \in Nat : Before(P)[k][i] = FINE => Covered(k)}
<1>1. 0 \in S
  BY BeforeFacts, MarksFacts
<1>2. ASSUME NEW k \in Nat, k \in S
      PROVE  k + 1 \in S
  <2>1. SUFFICES ASSUME Before(P)[k+1][i] = FINE
                 PROVE  Covered(k+1)
    OBVIOUS
  <2>2. \A j \in P.points :
          /\ Before(P)[k][j] = COARSE => Before(P)[k+1][j] = COARSE
          /\ Marking(P, k)[j] = COARSE => Before(P)[k+1][j] = COARSE
    BY RoundFacts, MarksFacts
  <2>3. CASE Before(P)[k][i] = FINE
    BY <1>2, <2>2, <2>3
  <2>4. CASE Before(P)[k][i] # FINE
    <3>1. Marking(P, k) \in MarksOf(P) /\ Before(P)[k+1] = Refined(P, Marking(P, k))
      BY BeforeFacts
    <3>2. Marking(P, k)[i] # FINE
      BY <2>4, RoundFacts, MarksFacts
    <3>3. \E j \in P.points : <<i, j>> \in P.edges /\ Marking(P, k)[j] = COARSE
      BY <2>1, <3>1, <3>2, RefinedFacts
    <3> QED
      BY <2>2, <3>3
  <2> QED
    BY <2>3, <2>4
<1>3. Nat \subseteq S
  <2> HIDE DEF S
  <2> QED
    BY <1>1, <1>2, SetInduction
<1> QED
  BY <1>3

\* Points not decided before round k, and whether round k leaves any.
Undecided(P, k) == {i \in P.points : Before(P)[k][i] = UNASSIGNED}
Open(P, k) == \E i \in P.points : Before(P)[k+1][i] = UNASSIGNED

\* The number of rounds of the pass that only take the initial marks.
Skipped(P) == IF P.pass = 1 THEN 0 ELSE 1

LEMMA SkippedFacts ==
  ASSUME NEW P, IsProblem(P)
  PROVE  /\ Skipped(P) \in Nat
         /\ \A k \in Nat : k + Skipped(P) \in Nat /\ (k + 1) + Skipped(P) = (k + Skipped(P)) + 1
         /\ \A k \in Nat : Marking(P, k + Skipped(P)) = Coarsened(P, Before(P)[k + Skipped(P)])
<1>1. P.pass = 1 \/ P.pass = 2
  BY DEF IsProblem
<1>2. ASSUME NEW k \in Nat
      PROVE  ~ (P.pass = 2 /\ k + Skipped(P) = 0)
  BY <1>1 DEF Skipped
<1> QED
  BY <1>2 DEF Skipped, Marking, MarkedIn

LEMMA UndecidedFacts ==
  ASSUME NEW P, IsProblem(P), NEW k \in Nat
  PROVE  /\ IsFiniteSet(Undecided(P, k)) /\ Cardinality(Undecided(P, k)) \in Nat
         /\ Cardinality(Undecided(P, k)) <= Cardinality(P.points)
         /\ Cardinality(P.points) \in Nat
         /\ Undecided(P, k+1) \subseteq Undecided(P, k)
<1>1. Undecided(P, k) \in SUBSET P.points /\ IsFiniteSet(P.points)
  BY DEF Undecided, IsProblem
<1>2. Undecided(P, k+1) \subseteq Undecided(P, k)
  <2>1. \A i \in P.points : Before(P)[k][i] # UNASSIGNED => Before(P)[k+1][i] # UNASSIGNED
    BY RoundFacts
  <2> QED
    BY <2>1 DEF Undecided
<1> QED
  BY <1>1, <1>2, FS_Subset, FS_CardinalityType

\* A round that decides nothing changes nothing.
LEMMA DecidesOrStops ==
  ASSUME NEW P, IsProblem(P), NEW k \in Nat, Undecided(P, k+1) = Undecided(P, k)
  PROVE  Before(P)[k+1] = Before(P)[k]
<1>1. Before(P)[k] \in MarksOf(P) /\ Before(P)[k+1] \in MarksOf(P)
  BY RoundFacts
<1>2. ASSUME NEW i \in P.points
      PROVE  Before(P)[k+1][i] = Before(P)[k][i]
  <2>1. CASE Before(P)[k][i] # UNASSIGNED
    BY <2>1, RoundFacts
  <2>2. CASE Before(P)[k][i] = UNASSIGNED
    BY <2>2 DEF Undecided
  <2> QED
    BY <2>1, <2>2
<1> QED
  BY <1>1, <1>2 DEF MarksOf

\* A round that decides something decides one point at least.
LEMMA DecidesOne ==
  ASSUME NEW P, IsProblem(P), NEW k \in Nat, Undecided(P, k+1) # Undecided(P, k)
  PROVE  Cardinality(Undecided(P, k+1)) < Cardinality(Undecided(P, k))
<1> DEFINE U == Undecided(P, k)
           V == Undecided(P, k+1)
<1>1. /\ IsFiniteSet(U) /\ Cardinality(U) \in Nat /\ V \subseteq U
      /\ Cardinality(V) \in Nat
  BY UndecidedFacts
<1>2. V \in SUBSET U /\ V # U
  BY <1>1
<1> HIDE DEF U, V
<1>3. Cardinality(V) <= Cardinality(U) /\ (Cardinality(U) = Cardinality(V) => U = V)
  BY <1>1, <1>2, FS_Subset
<1>4. Cardinality(V) < Cardinality(U)
  BY <1>1, <1>2, <1>3
<1> QED
  BY <1>4 DEF U, V

\* A map that a round does not change, no later round changes.
LEMMA StaysStopped ==
  ASSUME NEW P, IsProblem(P), NEW k \in Nat,
         Before(P)[(k + Skipped(P)) + 1] = Before(P)[k + Skipped(P)]
  PROVE  \A n \in Nat : k + Skipped(P) <= n => Before(P)[n] = Before(P)[k + Skipped(P)]
<1> DEFINE s == k + Skipped(P)
           S == {d \in Nat : Before(P)[s + d] = Before(P)[s]}
<1>0. s \in Nat
  BY SkippedFacts
<1>1. 0 \in S
  <2>1. s + 0 = s
    BY <1>0
  <2> QED
    BY <2>1
<1>2. ASSUME NEW d \in Nat, d \in S
      PROVE  d + 1 \in S
  <2>1. /\ k + d \in Nat /\ (k + d) + Skipped(P) = s + d /\ s + (d + 1) = (s + d) + 1
        /\ s + d \in Nat /\ d + 1 \in Nat
    BY SkippedFacts
  <2>2. Before(P)[s + d] = Before(P)[s]
    BY <1>2
  <2>3. Marking(P, s) = Coarsened(P, Before(P)[s])
    BY SkippedFacts
  <2>4. Marking(P, s + d) = Coarsened(P, Before(P)[s + d])
    <3>1. Marking(P, (k + d) + Skipped(P)) = Coarsened(P, Before(P)[(k + d) + Skipped(P)])
      BY <2>1, SkippedFacts
    <3> QED
      BY <2>1, <3>1
  <2> HIDE DEF s
  <2>5. Before(P)[s + 1] = Refined(P, Marking(P, s))
        /\ Before(P)[(s + d) + 1] = Refined(P, Marking(P, s + d))
    BY <1>0, <2>1, BeforeFacts
  <2>6. Before(P)[(s + d) + 1] = Before(P)[s + 1]
    BY <2>2, <2>3, <2>4, <2>5
  <2>7. Before(P)[s + 1] = Before(P)[s]
    BY DEF s
  <2> QED
    BY <2>1, <2>6, <2>7
<1>3. Nat \subseteq S
  <2> HIDE DEF S
  <2> QED
    BY <1>1, <1>2, SetInduction
<1>4. ASSUME NEW n \in Nat, s <= n
      PROVE  Before(P)[n] = Before(P)[s]
  <2> HIDE DEF s
  <2>1. n - s \in Nat /\ s + (n - s) = n
    BY <1>0, <1>4
  <2> QED
    BY <1>3, <2>1
<1> QED
  BY <1>4

\* Each round decides a point or none of them will: as many rounds as points.
LEMMA RoundsDecide ==
  ASSUME NEW P, IsProblem(P), NEW k \in Nat
  PROVE  \/ Before(P)[(k + Skipped(P)) + 1] = Before(P)[k + Skipped(P)]
         \/ Cardinality(Undecided(P, k + Skipped(P))) + k <= Cardinality(P.points)
<1> DEFINE N == Cardinality(P.points)
           U(n) == Cardinality(Undecided(P, n + Skipped(P)))
           Stops(n) == Before(P)[(n + Skipped(P)) + 1] = Before(P)[n + Skipped(P)]
           S == {n \in Nat : Stops(n) \/ U(n) + n <= N}
<1>0. \A n \in Nat : U(n) \in Nat /\ U(n) <= N /\ N \in Nat
  BY SkippedFacts, UndecidedFacts
<1>1. 0 \in S
  BY <1>0
<1>2. ASSUME NEW n \in Nat, n \in S
      PROVE  n + 1 \in S
  <2>0. /\ n + Skipped(P) \in Nat /\ (n + 1) + Skipped(P) = (n + Skipped(P)) + 1
        /\ n + 1 \in Nat /\ ((n + 1) + Skipped(P)) + 1 \in Nat
        /\ (n + 1) + Skipped(P) \in Nat
        /\ n + Skipped(P) <= (n + 1) + Skipped(P)
        /\ n + Skipped(P) <= ((n + 1) + Skipped(P)) + 1
    BY SkippedFacts
  <2>1. CASE Stops(n)
    <3>1. /\ Before(P)[(n + 1) + Skipped(P)] = Before(P)[n + Skipped(P)]
          /\ Before(P)[((n + 1) + Skipped(P)) + 1] = Before(P)[n + Skipped(P)]
      BY <2>0, <2>1, StaysStopped
    <3> QED
      BY <2>0, <3>1
  <2>2. CASE ~ Stops(n) /\ U(n) + n <= N
    <3>1. Undecided(P, (n + Skipped(P)) + 1) # Undecided(P, n + Skipped(P))
      BY <2>0, <2>2, DecidesOrStops
    <3>2. U(n+1) < U(n)
      BY <2>0, <3>1, DecidesOne
    <3>3. U(n+1) \in Nat /\ U(n) \in Nat /\ N \in Nat
      BY <1>0, <2>0
    <3> HIDE DEF U, N
    <3> QED
      BY <2>0, <2>2, <3>2, <3>3
  <2> QED
    BY <1>2, <2>1, <2>2
<1>3. Nat \subseteq S
  <2> HIDE DEF S
  <2> QED
    BY <1>1, <1>2, SetInduction
<1>4. k \in S
  BY <1>3
<1> QED
  BY <1>4

\* The map when no point is left is the one after as many rounds as points.
LEMMA LastMap ==
  ASSUME NEW P, IsProblem(P), NEW k \in Nat, ~ Open(P, k)
  PROVE  Before(P)[k+1] = Before(P)[Cardinality(P.points) + Skipped(P)]
<1> DEFINE N == Cardinality(P.points)
           e == N + Skipped(P)
<1>0. N \in Nat /\ e \in Nat /\ e + 1 \in Nat /\ k + 1 \in Nat
  BY UndecidedFacts, SkippedFacts
<1>1. \A i \in P.points : Before(P)[k+1][i] # UNASSIGNED
  BY DEF Open
<1>2. ASSUME NEW n \in Nat, k + 1 <= n
      PROVE  Before(P)[n] = Before(P)[k+1]
  <2>1. Before(P)[n] \in MarksOf(P) /\ Before(P)[k+1] \in MarksOf(P)
    BY <1>0, BeforeFacts
  <2>2. \A i \in P.points : Before(P)[n][i] = Before(P)[k+1][i]
    BY <1>0, <1>1, <1>2, DecidedStays
  <2> QED
    BY <2>1, <2>2 DEF MarksOf
<1>3. CASE k + 1 <= e
  BY <1>0, <1>2, <1>3
<1>4. CASE e <= k + 1
  <2>1. Before(P)[e + 1] = Before(P)[e]
    <3>1. CASE Before(P)[e + 1] = Before(P)[e]
      BY <3>1
    <3>2. CASE Before(P)[e + 1] # Before(P)[e]
      <4>1. Cardinality(Undecided(P, e)) + N <= N
        BY <1>0, <3>2, RoundsDecide
      <4>2. Cardinality(Undecided(P, e)) = 0
        <5> HIDE DEF N, e
        <5>1. Cardinality(Undecided(P, e)) \in Nat
          BY <1>0, UndecidedFacts
        <5> QED
          BY <1>0, <4>1, <5>1
      <4>3. Undecided(P, e) = {} /\ Undecided(P, e + 1) \subseteq Undecided(P, e)
        BY <1>0, <4>2, UndecidedFacts, FS_EmptySet
      <4> QED
        BY <1>0, <4>3, DecidesOrStops
    <3> QED
      BY <3>1, <3>2
  <2>2. Before(P)[k+1] = Before(P)[e]
    BY <1>0, <1>4, <2>1, StaysStopped
  <2> QED
    BY <2>2
<1>5. k + 1 <= e \/ e <= k + 1
  <2> HIDE DEF e
  <2> QED
    BY <1>0
<1> QED
  BY <1>3, <1>4, <1>5

\* Where no weight is exactly 1.0 each round decides a point while one is left.
LEMMA LeftDecreases ==
  ASSUME NEW P, IsProblem(P), \A i \in P.points : P.hash[i] \notin {0, Unit},
         NEW k \in Nat, Undecided(P, k + Skipped(P)) # {}
  PROVE  Cardinality(Undecided(P, k + Skipped(P))) + k <= Cardinality(P.points)
<1> DEFINE s == k + Skipped(P)
           m == Before(P)[s]
           U == Undecided(P, s)
           w == [i \in P.points |-> WeightIn(P, i)]
<1>0. s \in Nat /\ m \in MarksOf(P) /\ Marking(P, s) = Coarsened(P, m)
      /\ IsFiniteSet(U) /\ U # {} /\ U \subseteq P.points
  BY SkippedFacts, UndecidedFacts, BeforeFacts DEF Undecided
<1>1. PICK i \in U : \A j \in U : w[j] <= w[i]
  <2>1. \A j \in U : w[j] \in Nat
    BY <1>0, WeightFacts
  <2> HIDE DEF U, w, s
  <2> QED
    BY <1>0, <2>1, GreatestOf
<1>2. i \in P.points /\ m[i] = UNASSIGNED
  BY <1>0, <1>1 DEF Undecided
<1>3. \A j \in P.points : ~ Beats(P, m, j, i)
  <2>1. SUFFICES ASSUME NEW j \in P.points, m[j] = UNASSIGNED
                 PROVE  WeightIn(P, j) <= WeightIn(P, i)
    BY DEF Beats
  <2>2. j \in U
    BY <2>1 DEF Undecided
  <2> QED
    BY <1>1, <1>2, <2>2
<1>4. WeightIn(P, i) > Unit
  <2>1. Initially(P)[i] = UNASSIGNED
    <3>1. SUFFICES ASSUME Initially(P)[i] # UNASSIGNED
                   PROVE  FALSE
      OBVIOUS
    <3>2. Before(P)[0][i] # UNASSIGNED
      BY <3>1, BeforeFacts
    <3>3. 0 \in Nat /\ 0 <= s
      BY <1>0
    <3>4. m[i] # UNASSIGNED
      BY <1>0, <1>2, <3>2, <3>3, DecidedStays
    <3> QED
      BY <1>2, <3>4
  <2>2. ~ (WeightIn(P, i) < Unit)
    <3>1. P.isolated # UNASSIGNED
      BY MarksFacts DEF IsProblem
    <3> QED
      BY <1>2, <2>1, <3>1, InitiallyFacts, MarksFacts
  <2> QED
    BY <1>2, <2>2, WeightFacts, UnitFacts
<1>5. Marking(P, s)[i] = COARSE
  BY <1>0, <1>2, <1>3, <1>4, CoarsenedFacts
<1>6. Before(P)[s+1][i] = COARSE
  BY <1>0, <1>2, <1>5, RoundFacts, MarksFacts
<1>7. Before(P)[s+1] # Before(P)[s]
  BY <1>2, <1>6, MarksFacts
<1> QED
  BY <1>7, RoundsDecide

\* The sequential PMIS of the model is that sequence of maps.
LEMMA PmisOfFacts ==
  ASSUME NEW P, IsProblem(P)
  PROVE  PmisOf(P.points, P.edges, P.hash, P.isolated)
           = Before(P)[Cardinality(P.points) + Skipped(P)]
<1> DEFINE points == P.points
           edges == P.edges
           hash == P.hash
           isolated == P.isolated
           N == Cardinality(points)
           w(i) == Unit * Cardinality({j \in points : <<j, i>> \in edges}) + hash[i]
           joined(i, j) == <<i, j>> \in edges \/ <<j, i>> \in edges
           initial == [i \in points |->
                      IF \A j \in points : <<i, j>> \notin edges THEN isolated
                      ELSE IF w(i) < Unit THEN FINE ELSE UNASSIGNED]
           fine == [m \in [points -> Marks] |->
             [i \in points |->
                IF m[i] = UNASSIGNED
                   /\ \E j \in points : <<i, j>> \in edges /\ m[j] = COARSE
                THEN FINE ELSE m[i]]]
           coarse == [m \in [points -> Marks] |->
             [i \in points |->
                IF /\ m[i] = UNASSIGNED
                   /\ w(i) > Unit
                   /\ \A j \in points :
                        m[j] = UNASSIGNED /\ joined(i, j) => w(j) <= w(i)
                THEN COARSE ELSE m[i]]]
           Is(r) == r = [k \in 0..N |-> IF k = 0 THEN fine[initial]
                                        ELSE fine[coarse[r[k - 1]]]]
           round == CHOOSE r : Is(r)
<1>1. PmisOf(P.points, P.edges, P.hash, P.isolated) = round[N]
  BY DEF PmisOf
<1>2. initial = Initially(P)
  BY DEF Initially, WeightIn
<1>3. ASSUME NEW m \in MarksOf(P)
      PROVE  fine[m] = Refined(P, m)
  BY DEF MarksOf, Refined
<1>4. ASSUME NEW m \in MarksOf(P)
      PROVE  coarse[m] = Coarsened(P, m)
  <2>1. \A i \in points : w(i) = WeightIn(P, i)
    BY DEF WeightIn
  <2> DEFINE ww(i) == w(i)
  <2>2. coarse[m] = [i \in points |->
                IF /\ m[i] = UNASSIGNED
                   /\ w(i) > Unit
                   /\ \A j \in points :
                        m[j] = UNASSIGNED /\ joined(i, j) => w(j) <= w(i)
                THEN COARSE ELSE m[i]]
    BY DEF MarksOf
  <2> HIDE DEF coarse, w
  <2>3. ASSUME NEW i \in points
        PROVE  (\A j \in points : m[j] = UNASSIGNED /\ joined(i, j) => w(j) <= w(i))
                 <=> (\A j \in P.points : ~ Beats(P, m, j, i))
    BY <2>1 DEF Beats
  <2> QED
    BY <2>1, <2>2, <2>3 DEF Coarsened
<1> HIDE DEF initial, fine, coarse
<1> DEFINE g == [k \in 0..N |-> Before(P)[k + Skipped(P)]]
<1>5. N \in Nat
  BY UndecidedFacts
<1>6. Before(P)[0 + Skipped(P)] = fine[initial]
  <2>1. Before(P)[0] = Initially(P) /\ Initially(P) \in MarksOf(P)
    BY BeforeFacts, InitiallyFacts
  <2>2. CASE P.pass = 1
    <3>1. \A i \in P.points : Initially(P)[i] # COARSE
      BY <2>2, InitiallyFacts, MarksFacts DEF IsProblem
    <3>2. Refined(P, Initially(P)) = Initially(P)
      <4>1. \A i \in P.points : Refined(P, Initially(P))[i] = Initially(P)[i]
        BY <2>1, <3>1, RefinedFacts
      <4> QED
        BY <2>1, <4>1, RefinedFacts DEF MarksOf
    <3>3. 0 + Skipped(P) = 0
      BY <2>2 DEF Skipped
    <3> QED
      BY <1>2, <1>3, <2>1, <3>2, <3>3
  <2>3. CASE P.pass # 1
    <3>1. P.pass = 2 /\ 0 + Skipped(P) = 0 + 1
      BY <2>3 DEF Skipped, IsProblem
    <3>2. Marking(P, 0) = Initially(P)
      BY <2>1, <3>1 DEF Marking, MarkedIn
    <3>3. Before(P)[0 + 1] = Refined(P, Marking(P, 0))
      BY BeforeFacts
    <3> QED
      BY <1>2, <1>3, <2>1, <3>1, <3>2, <3>3
  <2> QED
    BY <2>2, <2>3
<1>7. ASSUME NEW k \in Nat
      PROVE  Before(P)[(k + 1) + Skipped(P)] = fine[coarse[Before(P)[k + Skipped(P)]]]
  <2>1. /\ k + Skipped(P) \in Nat /\ (k + 1) + Skipped(P) = (k + Skipped(P)) + 1
        /\ Marking(P, k + Skipped(P)) = Coarsened(P, Before(P)[k + Skipped(P)])
    BY SkippedFacts
  <2>2. /\ Before(P)[k + Skipped(P)] \in MarksOf(P) /\ Marking(P, k + Skipped(P)) \in MarksOf(P)
        /\ Before(P)[(k + Skipped(P)) + 1] = Refined(P, Marking(P, k + Skipped(P)))
    BY <2>1, BeforeFacts
  <2> QED
    BY <1>3, <1>4, <2>1, <2>2
<1>8. Is(g)
  <2>1. ASSUME NEW k \in 0..N
        PROVE  g[k] = IF k = 0 THEN fine[initial] ELSE fine[coarse[g[k - 1]]]
    <3>1. CASE k = 0
      BY <1>6, <3>1
    <3>2. CASE k # 0
      <4>1. k - 1 \in Nat /\ k - 1 \in 0..N /\ (k - 1) + 1 = k
        BY <1>5, <3>2
      <4>2. Before(P)[((k - 1) + 1) + Skipped(P)] = fine[coarse[Before(P)[(k - 1) + Skipped(P)]]]
        BY <1>7, <4>1
      <4> QED
        BY <3>2, <4>1, <4>2
    <3> QED
      BY <3>1, <3>2
  <2> QED
    BY <2>1
<1>9. Is(round)
  <2> HIDE DEF Is, g
  <2> QED
    BY <1>8
<1> HIDE DEF round
<1>10. round[N] = Before(P)[N + Skipped(P)]
  <2> DEFINE S == {k \in Nat : k <= N => round[k] = Before(P)[k + Skipped(P)]}
  <2>0. \A k \in 0..N : round[k] = IF k = 0 THEN fine[initial] ELSE fine[coarse[round[k - 1]]]
    <3> HIDE DEF N
    <3> QED
      BY <1>9
  <2> HIDE DEF N
  <2>1. 0 \in S
    BY <1>5, <1>6, <2>0
  <2>2. ASSUME NEW k \in Nat, k \in S
        PROVE  k + 1 \in S
    <3>1. SUFFICES ASSUME k + 1 <= N
                   PROVE  round[k+1] = Before(P)[(k+1) + Skipped(P)]
      OBVIOUS
    <3>2. k + 1 \in 0..N /\ k + 1 # 0 /\ (k + 1) - 1 = k /\ k <= N
      BY <1>5, <3>1
    <3>3. round[k+1] = fine[coarse[round[k]]]
      BY <2>0, <3>2
    <3> QED
      BY <1>7, <2>2, <3>2, <3>3
  <2>3. Nat \subseteq S
    <3> HIDE DEF S
    <3> QED
      BY <2>1, <2>2, SetInduction
  <2> QED
    BY <1>5, <2>3
<1> QED
  BY <1>1, <1>10

-----------------------------------------------------------------------------
(* The ranks: what each of them has, and what it has sent. *)

\* The problems of the two passes.  The first ends with the first round that
\* leaves no point, and the second is about the coarse points it has then.
FirstProblem(in) ==
    [pass |-> 1, points |-> Points, edges |-> in.strong, entries |-> Adjacent,
     hash |-> in.hash[1], isolated |-> STRONG_FINE]
FirstEnds(in) == \E k \in Nat : ~ Open(FirstProblem(in), k)
LastOf(in) ==
    CHOOSE k \in Nat : /\ ~ Open(FirstProblem(in), k)
                       /\ \A j \in 0..(k-1) : Open(FirstProblem(in), j)
CoarseAfter(in) ==
    {i \in Points : Before(FirstProblem(in))[LastOf(in) + 1][i] = COARSE}
JoinedIn(in) ==
    {e \in CoarseAfter(in) \X CoarseAfter(in) :
         /\ e[1] # e[2]
         /\ \/ e \in in.strong
            \/ \E k \in Points : <<e[1], k>> \in in.strong /\ <<k, e[2]>> \in in.strong}
SecondProblem(in) ==
    [pass |-> 2, points |-> CoarseAfter(in), edges |-> JoinedIn(in),
     entries |-> JoinedIn(in), hash |-> in.hash[2], isolated |-> COARSE]
ProblemAt(in, p) == IF p = 1 THEN FirstProblem(in) ELSE SecondProblem(in)

RowsIn(in, P, r) == {i \in P.points : in.owner[i] = r}
HaloIn(in, P, r) == {j \in Points : in.owner[j] # r
                                      /\ \E i \in RowsIn(in, P, r) : <<i, j>> \in P.entries}
RingIn(in, P, r) == RowsIn(in, P, r) \cup HaloIn(in, P, r)
NeighborsIn(in, P, r) ==
    {n \in Ranks \ {r} : \E j \in Points : \/ in.owner[j] = n /\ j \in HaloIn(in, P, r)
                                           \/ in.owner[j] = r /\ j \in HaloIn(in, P, n)}

\* A part of a map.
Cut(m, S) == [i \in S |-> m[i]]

\* A row of rank r, i or its rival j, keeps i from being coarse.
Yields(in, P, m, r, i) ==
    \E j \in P.points :
      /\ m[j] = UNASSIGNED
      /\ ~ (WeightIn(P, j) <= WeightIn(P, i))
      /\ \/ in.owner[i] = r /\ <<i, j>> \in P.edges
         \/ in.owner[j] = r /\ <<j, i>> \in P.edges

\* What rank r marks in round k, what it has once it has the minimum for its
\* rows, and what it makes of the marks.
LocalMarks(in, P, k, r) ==
    [i \in RingIn(in, P, r) |->
       IF /\ ~ (P.pass = 2 /\ k = 0)
          /\ Before(P)[k][i] = UNASSIGNED
          /\ WeightIn(P, i) > Unit
          /\ ~ Yields(in, P, Before(P)[k], r, i)
       THEN COARSE ELSE Before(P)[k][i]]
FoldedMarks(in, P, k, r) ==
    [i \in RingIn(in, P, r) |->
       IF in.owner[i] = r THEN Marking(P, k)[i] ELSE LocalMarks(in, P, k, r)[i]]
RoundOf(in, P, k, r) ==
    [i \in RingIn(in, P, r) |->
       IF in.owner[i] = r THEN Before(P)[k+1][i] ELSE Before(P)[k][i]]

\* Own rows that round n leaves.
LeftIn(in, P, r, n) ==
    Cardinality({i \in RowsIn(in, P, r) : Before(P)[n+1][i] = UNASSIGNED})

\* What rank r sends in the l-th exchange of a pass.
MessageIs(in, P, r, l, v) ==
    /\ l = 1 => v = Cut(Before(P)[0], RowsIn(in, P, r))
    /\ \A n \in Nat : /\ l = 3*n + 2 => v = LocalMarks(in, P, n, r)
                      /\ l = 3*n + 3 => v = FoldedMarks(in, P, n, r)
                      /\ l = 3*n + 4 => v = RoundOf(in, P, n, r)

\* Exchanges and reductions before the second pass.
Sent1(in) == 3 * LastOf(in) + 4
Reduced1(in) == LastOf(in) + 1
SentBefore(in, p) == IF p = 1 THEN 0 ELSE Sent1(in)
ReducedBefore(in, p) == IF p = 1 THEN 0 ELSE Reduced1(in)

MessagesAre(in, r, p, sent) ==
    \A l \in 1..Len(sent) :
      /\ p = 1 \/ l <= Sent1(in) => MessageIs(in, FirstProblem(in), r, l, sent[l])
      /\ p = 2 /\ l > Sent1(in) =>
           MessageIs(in, SecondProblem(in), r, l - Sent1(in), sent[l])

ReductionsAre(in, r, p, given) ==
    \A l \in 1..Len(given) :
      /\ p = 1 \/ l <= Reduced1(in) => given[l] = LeftIn(in, FirstProblem(in), r, l - 1)
      /\ p = 2 /\ l > Reduced1(in) =>
           given[l] = LeftIn(in, SecondProblem(in), r, (l - Reduced1(in)) - 1)

\* Exchanges a rank has entered in its round, and reductions.
SentAt == [start |-> 0, exchange |-> 1, mark |-> 1, fold |-> 2, marks |-> 3,
           exchangeCf |-> 4, reduce |-> 4, done |-> 4]
GivenAt == [start |-> 0, exchange |-> 0, mark |-> 0, fold |-> 0, marks |-> 0,
            exchangeCf |-> 0, reduce |-> 1, done |-> 1]
Labels == {"start", "exchange", "mark", "fold", "marks", "exchangeCf", "reduce", "done"}

\* What a rank has in round k.
RoundIs(in, P, r, label, k, map_, marks) ==
    /\ label \in {"start", "exchange"} => k = 0
    /\ label = "exchange" => map_ = Cut(Before(P)[0], RowsIn(in, P, r))
    /\ label \in {"mark", "fold", "marks"} => map_ = Cut(Before(P)[k], RingIn(in, P, r))
    /\ label = "fold" => marks = LocalMarks(in, P, k, r)
    /\ label = "marks" => marks = FoldedMarks(in, P, k, r)
    /\ label = "exchangeCf" => map_ = RoundOf(in, P, k, r)
    /\ label \in {"reduce", "done"} => map_ = Cut(Before(P)[k+1], RingIn(in, P, r))
    /\ \A j \in 0..(k-1) : Open(P, j)
    /\ label = "done" => ~ Open(P, k)

\* What it has of the first pass, and what it returns.
PassIs(in, r, label, p, first, second, returned) ==
    /\ p = 2 => /\ in.aggressive /\ FirstEnds(in)
                /\ first = Cut(Before(FirstProblem(in))[LastOf(in) + 1],
                               RingIn(in, FirstProblem(in), r))
    /\ label = "done" /\ p = 1 =>
         /\ returned = first
         /\ in.aggressive => RowsIn(in, SecondProblem(in), r) = {}
    /\ label = "done" /\ p = 2 => returned = Corrected(first, second)

\* Whatever a rank sends.
Values == UNION {[S -> Marks] : S \in SUBSET Points}

CountsAre(in, label, p, k, sent, given) ==
    /\ sent \in Seq(Values) /\ given \in Seq(Nat)
    /\ Len(sent) = SentBefore(in, p) + 3*k + SentAt[label]
    /\ Len(given) = ReducedBefore(in, p) + k + GivenAt[label]

RankIs(in, r, label, p, k, first, second, marks, sent, given, returned) ==
    /\ label \in Labels /\ p \in 1..2 /\ k \in Nat
    /\ RoundIs(in, ProblemAt(in, p), r, label, k, IF p = 1 THEN first ELSE second, marks)
    /\ PassIs(in, r, label, p, first, second, returned)
    /\ CountsAre(in, label, p, k, sent, given)
    /\ MessagesAre(in, r, p, sent)
    /\ ReductionsAre(in, r, p, given)

Rank(r) == RankIs(input, r, pc[r], pass[r], iter[r], cf_map[1][r], cf_map[2][r],
                  scratch[r], mailbox[r], reductions[r], result[r])

Shape ==
    /\ input \in Inputs
    /\ DOMAIN pc = Ranks /\ DOMAIN pass = Ranks /\ DOMAIN iter = Ranks
    /\ DOMAIN cf_map = 1..2 /\ DOMAIN cf_map[1] = Ranks /\ DOMAIN cf_map[2] = Ranks
    /\ DOMAIN scratch = Ranks /\ DOMAIN mailbox = Ranks
    /\ DOMAIN reductions = Ranks /\ DOMAIN result = Ranks

\* Reductions a rank has left.
LeftBehind(r) == ReducedBefore(input, pass[r]) + iter[r] + (IF pc[r] = "done" THEN 1 ELSE 0)

\* All are in the reductions that one has left.
Skew == \A r, s \in Ranks : Len(reductions[s]) >= LeftBehind(r)

\* The inductive invariant.
IInv == Shape /\ (\A r \in Ranks : Rank(r)) /\ Skew

LEMMA InputFacts ==
  ASSUME NEW in \in Inputs
  PROVE  /\ in.owner \in [Points -> Ranks] /\ in.strong \subseteq Adjacent
         /\ Adjacent \subseteq Points \X Points
         /\ \A p \in 1..2 : \A i \in Points : in.hash[p][i] \in 0..Unit
         /\ IsFiniteSet(Points) /\ IsFiniteSet(Ranks)
<1>1. in \in [owner : [Points -> Ranks], strong : SUBSET Adjacent,
              hash : [1..2 -> [Points -> 0..Unit]], aggressive : BOOLEAN]
  BY PmisAssumption
<1> QED
  BY <1>1, PmisAssumption

LEMMA ProblemFacts ==
  ASSUME NEW in \in Inputs, NEW p \in 1..2
  PROVE  /\ IsProblem(ProblemAt(in, p))
         /\ ProblemAt(in, p).pass = p
         /\ ProblemAt(in, p).points \subseteq Points
         /\ ProblemAt(in, p).edges \subseteq ProblemAt(in, p).entries
         /\ ProblemAt(in, p).entries
              \subseteq ProblemAt(in, p).points \X ProblemAt(in, p).points
         /\ ProblemAt(in, p).hash = in.hash[p]
<1>1. CASE p = 1
  <2>1. ProblemAt(in, p) = FirstProblem(in)
    BY <1>1 DEF ProblemAt
  <2>2. /\ FirstProblem(in).pass = 1 /\ FirstProblem(in).points = Points
        /\ FirstProblem(in).edges = in.strong /\ FirstProblem(in).entries = Adjacent
        /\ FirstProblem(in).hash = in.hash[1] /\ FirstProblem(in).isolated = STRONG_FINE
    BY DEF FirstProblem
  <2> QED
    BY <1>1, <2>1, <2>2, InputFacts DEF IsProblem
<1>2. CASE p = 2
  <2>1. ProblemAt(in, p) = SecondProblem(in)
    BY <1>2 DEF ProblemAt
  <2>2. /\ SecondProblem(in).pass = 2 /\ SecondProblem(in).points = CoarseAfter(in)
        /\ SecondProblem(in).edges = JoinedIn(in) /\ SecondProblem(in).entries = JoinedIn(in)
        /\ SecondProblem(in).hash = in.hash[2] /\ SecondProblem(in).isolated = COARSE
    BY DEF SecondProblem
  <2>3. CoarseAfter(in) \in SUBSET Points /\ JoinedIn(in) \subseteq CoarseAfter(in) \X CoarseAfter(in)
    BY DEF CoarseAfter, JoinedIn
  <2>4. IsFiniteSet(CoarseAfter(in))
    BY <2>3, InputFacts, FS_Subset
  <2> QED
    BY <1>2, <2>1, <2>2, <2>3, <2>4, InputFacts DEF IsProblem
<1> QED
  BY <1>1, <1>2

\* What a rank sees: its rows, and all that they depend on.
LEMMA RingFacts ==
  ASSUME NEW in \in Inputs, NEW p \in 1..2, NEW P, P = ProblemAt(in, p), NEW r \in Ranks
  PROVE  /\ RowsIn(in, P, r) = {i \in P.points : in.owner[i] = r}
         /\ RowsIn(in, P, r) \subseteq RingIn(in, P, r)
         /\ RingIn(in, P, r) \subseteq P.points /\ P.points \subseteq Points
         /\ \A i \in RingIn(in, P, r) : in.owner[i] = r => i \in RowsIn(in, P, r)
         /\ \A i \in RowsIn(in, P, r), j \in P.points :
              <<i, j>> \in P.edges => j \in RingIn(in, P, r)
         /\ \A i \in RingIn(in, P, r) : in.owner[i] # r =>
              /\ in.owner[i] \in NeighborsIn(in, P, r)
              /\ r \in NeighborsIn(in, P, in.owner[i])
              /\ in.owner[i] \in Ranks
              /\ i \in RowsIn(in, P, in.owner[i])
<1>1. /\ P.points \subseteq Points /\ P.edges \subseteq P.entries
      /\ P.entries \subseteq P.points \X P.points
  BY ProblemFacts
<1>2. HaloIn(in, P, r) \subseteq P.points
  BY <1>1 DEF HaloIn
<1>3. \A i \in P.points : in.owner[i] \in Ranks
  BY <1>1, InputFacts
<1>4. ASSUME NEW i \in RowsIn(in, P, r), NEW j \in P.points, <<i, j>> \in P.edges
      PROVE  j \in RingIn(in, P, r)
  BY <1>1, <1>4 DEF RingIn, HaloIn, RowsIn
<1>5. ASSUME NEW i \in RingIn(in, P, r), in.owner[i] # r
      PROVE  /\ in.owner[i] \in NeighborsIn(in, P, r)
             /\ r \in NeighborsIn(in, P, in.owner[i])
             /\ in.owner[i] \in Ranks
             /\ i \in RowsIn(in, P, in.owner[i])
  <2>1. i \in HaloIn(in, P, r) /\ i \in Points /\ i \in P.points
    BY <1>1, <1>2, <1>5 DEF RingIn, RowsIn
  <2> QED
    BY <1>3, <1>5, <2>1 DEF NeighborsIn, RowsIn
<1> QED
  BY <1>1, <1>2, <1>4, <1>5 DEF RingIn, RowsIn

\* The matrices that the ranks find are those of the problems.
Found(p) == p = 1 \/ FirstCoarse = CoarseAfter(input)

LEMMA MatricesFound ==
  ASSUME input \in Inputs, NEW p \in 1..2, Found(p), NEW P, P = ProblemAt(input, p)
  PROVE  /\ Strong(p) = P.edges /\ Entries(p) = P.entries
         /\ \A i : Weight(p, i) = WeightIn(P, i)
         /\ \A r : /\ Rows(p, r) = RowsIn(input, P, r)
                   /\ Halo(p, r) = HaloIn(input, P, r)
                   /\ OneRing(p, r) = RingIn(input, P, r)
                   /\ Neighbors(p, r) = NeighborsIn(input, P, r)
<1>1. /\ P.points = IF p = 1 THEN Points ELSE CoarseAfter(input)
      /\ P.edges = IF p = 1 THEN input.strong ELSE JoinedIn(input)
      /\ P.entries = IF p = 1 THEN Adjacent ELSE JoinedIn(input)
      /\ P.hash = input.hash[p]
  BY DEF ProblemAt, FirstProblem, SecondProblem
<1>2. p = 2 => FirstCoarse = CoarseAfter(input) /\ S2 = JoinedIn(input)
  BY DEF Found, S2, JoinedIn, strong
<1>3. Strong(p) = P.edges /\ Entries(p) = P.entries
  BY <1>1, <1>2 DEF Strong, Entries, strong
<1>4. P.points \subseteq Points /\ P.edges \subseteq P.points \X P.points
  BY ProblemFacts
<1>5. ASSUME NEW i
      PROVE  Weight(p, i) = WeightIn(P, i)
  <2>1. {j \in Points : <<j, i>> \in Strong(p)} = {j \in P.points : <<j, i>> \in P.edges}
    BY <1>3, <1>4
  <2> QED
    BY <1>1, <2>1 DEF Weight, WeightIn
<1>6. \A r : Rows(p, r) = RowsIn(input, P, r)
  BY <1>1, <1>2 DEF Rows, RowsIn, owner
<1>7. \A r : Halo(p, r) = HaloIn(input, P, r)
  BY <1>3, <1>6 DEF Halo, HaloIn, owner
<1>8. \A r : OneRing(p, r) = RingIn(input, P, r)
  BY <1>6, <1>7 DEF OneRing, RingIn
<1>9. \A r : Neighbors(p, r) = NeighborsIn(input, P, r)
  BY <1>7 DEF Neighbors, NeighborsIn, owner
<1> QED
  BY <1>3, <1>5, <1>6, <1>7, <1>8, <1>9

\* The last round of the first pass.
LEMMA LastFacts ==
  ASSUME NEW in \in Inputs, FirstEnds(in)
  PROVE  /\ LastOf(in) \in Nat /\ ~ Open(FirstProblem(in), LastOf(in))
         /\ \A j \in 0..(LastOf(in) - 1) : Open(FirstProblem(in), j)
         /\ \A k \in Nat : (\A j \in 0..(k-1) : Open(FirstProblem(in), j)) => k <= LastOf(in)
<1> DEFINE P == FirstProblem(in)
           C == {k \in Nat : ~ Open(P, k)}
           Is(k) == ~ Open(P, k) /\ \A j \in 0..(k-1) : Open(P, j)
<1>1. PICK k \in C : \A j \in C : k <= j
  <2>1. C \subseteq Nat /\ C # {}
    BY DEF FirstEnds
  <2> HIDE DEF C
  <2> QED
    BY <2>1, LeastNat
<1>2. k \in Nat /\ Is(k)
  <2>1. ASSUME NEW j \in 0..(k-1), ~ Open(P, j)
        PROVE  FALSE
    <3>1. j \in C /\ j < k
      BY <2>1
    <3> QED
      BY <1>1, <3>1
  <2> QED
    BY <1>1, <2>1
<1>3. LastOf(in) = CHOOSE n \in Nat : Is(n)
  BY DEF LastOf
<1>4. LastOf(in) \in Nat /\ Is(LastOf(in))
  <2> HIDE DEF Is
  <2> QED
    BY <1>2, <1>3
<1>5. ASSUME NEW n \in Nat, \A j \in 0..(n-1) : Open(P, j), ~ (n <= LastOf(in))
      PROVE  FALSE
  <2>1. LastOf(in) \in 0..(n-1)
    BY <1>4, <1>5
  <2> QED
    BY <1>4, <1>5, <2>1
<1> QED
  BY <1>4, <1>5

-----------------------------------------------------------------------------
(* What each operator of the model computes, on a part of the maps. *)

\* InitialMark() is about the matrix the rank found.
LEMMA InitialIs ==
  ASSUME input \in Inputs, NEW p \in 1..2, Found(p), NEW P, P = ProblemAt(input, p),
         NEW r \in Ranks
  PROVE  [i \in Rows(p, r) |-> InitialMark(p, i)] = Cut(Before(P)[0], RowsIn(input, P, r))
<1>1. IsProblem(P) /\ P.pass = p /\ P.points \subseteq Points
  BY ProblemFacts
<1>2. P.edges \subseteq P.points \X P.points /\ P.isolated = (IF p = 1 THEN STRONG_FINE ELSE COARSE)
  BY <1>1 DEF IsProblem
<1>3. Strong(p) = P.edges /\ (\A i : Weight(p, i) = WeightIn(P, i))
      /\ Rows(p, r) = RowsIn(input, P, r)
  BY MatricesFound
<1>4. RowsIn(input, P, r) \subseteq P.points
  BY DEF RowsIn
<1>5. ASSUME NEW i \in RowsIn(input, P, r)
      PROVE  InitialMark(p, i) = Before(P)[0][i]
  <2>1. (\A j \in Points : <<i, j>> \notin Strong(p)) <=> (\A j \in P.points : <<i, j>> \notin P.edges)
    BY <1>1, <1>2, <1>3
  <2>2. i \in P.points /\ Before(P)[0] = Initially(P)
    BY <1>1, <1>4, BeforeFacts
  <2>3. Initially(P)[i] = IF \A j \in P.points : <<i, j>> \notin P.edges
                          THEN P.isolated
                          ELSE IF WeightIn(P, i) < Unit THEN FINE ELSE UNASSIGNED
    BY <1>1, <2>2, InitiallyFacts
  <2> QED
    BY <1>2, <1>3, <2>1, <2>2, <2>3 DEF InitialMark
<1> QED
  BY <1>3, <1>5 DEF Cut

\* A row's thread unmarks what the rank yields.
LEMMA UnmarkedIs ==
  ASSUME input \in Inputs, NEW p \in 1..2, Found(p), NEW P, P = ProblemAt(input, p),
         NEW r \in Ranks, NEW m \in MarksOf(P),
         NEW i \in RingIn(input, P, r), m[i] = UNASSIGNED, WeightIn(P, i) > Unit
  PROVE  LET map_ == Cut(m, RingIn(input, P, r))
         IN  (\E k \in Rows(p, r) : map_[k] = UNASSIGNED /\ i \in UnmarkedBy(p, map_, k))
               <=> Yields(input, P, m, r, i)
<1> DEFINE R == RingIn(input, P, r)
           map_ == Cut(m, R)
<1>1. /\ Strong(p) = P.edges /\ (\A j : Weight(p, j) = WeightIn(P, j))
      /\ Rows(p, r) = RowsIn(input, P, r)
  BY MatricesFound
<1>2. /\ RowsIn(input, P, r) = {j \in P.points : input.owner[j] = r}
      /\ RowsIn(input, P, r) \subseteq R
      /\ R \subseteq P.points
      /\ \A j \in RowsIn(input, P, r), l \in P.points : <<j, l>> \in P.edges => l \in R
  BY RingFacts
<1>3. DOMAIN map_ = R /\ \A j \in R : map_[j] = m[j]
  BY DEF Cut
<1> HIDE DEF map_, R
<1>4. \A j \in P.points : WeightIn(P, j) \in Nat
  BY ProblemFacts, WeightFacts
<1>5. ASSUME NEW k \in Rows(p, r)
      PROVE  i \in UnmarkedBy(p, map_, k) <=>
               \/ /\ <<k, i>> \in P.edges /\ WeightIn(P, k) > WeightIn(P, i)
               \/ /\ i = k
                  /\ \E j \in R : /\ <<k, j>> \in P.edges /\ m[j] = UNASSIGNED
                                  /\ WeightIn(P, j) > Unit
                                  /\ WeightIn(P, j) > WeightIn(P, k)
  <2>1. i \in R
    BY DEF R
  <2> QED
    BY <1>1, <1>3, <2>1 DEF UnmarkedBy
<1>6. ASSUME NEW k \in Rows(p, r), map_[k] = UNASSIGNED, i \in UnmarkedBy(p, map_, k)
      PROVE  Yields(input, P, m, r, i)
  <2>1. k \in P.points /\ input.owner[k] = r /\ m[k] = UNASSIGNED /\ i \in P.points
    BY <1>1, <1>2, <1>3, <1>6 DEF R
  <2>2. CASE <<k, i>> \in P.edges /\ WeightIn(P, k) > WeightIn(P, i)
    BY <1>4, <2>1, <2>2 DEF Yields
  <2>3. ASSUME i = k, NEW j \in R, <<k, j>> \in P.edges, m[j] = UNASSIGNED,
               WeightIn(P, j) > WeightIn(P, k)
        PROVE  Yields(input, P, m, r, i)
    BY <1>2, <1>4, <2>1, <2>3 DEF Yields
  <2> QED
    BY <1>5, <1>6, <2>2, <2>3
<1>7. ASSUME Yields(input, P, m, r, i)
      PROVE  \E k \in Rows(p, r) : map_[k] = UNASSIGNED /\ i \in UnmarkedBy(p, map_, k)
  <2>1. PICK j \in P.points :
          /\ m[j] = UNASSIGNED
          /\ ~ (WeightIn(P, j) <= WeightIn(P, i))
          /\ \/ input.owner[i] = r /\ <<i, j>> \in P.edges
             \/ input.owner[j] = r /\ <<j, i>> \in P.edges
    BY <1>7 DEF Yields
  <2>2. i \in R /\ i \in P.points
    BY <1>2 DEF R
  <2>3. WeightIn(P, j) > WeightIn(P, i) /\ WeightIn(P, j) > Unit
    BY <1>4, <2>1, <2>2, UnitFacts
  <2>4. CASE input.owner[i] = r /\ <<i, j>> \in P.edges
    <3>1. i \in Rows(p, r) /\ j \in R /\ map_[i] = UNASSIGNED
      BY <1>1, <1>2, <1>3, <2>2, <2>4
    <3> QED
      BY <1>5, <2>1, <2>3, <2>4, <3>1
  <2>5. CASE input.owner[j] = r /\ <<j, i>> \in P.edges
    <3>1. j \in Rows(p, r) /\ map_[j] = UNASSIGNED
      BY <1>1, <1>2, <1>3, <2>1, <2>5
    <3> QED
      BY <1>5, <2>3, <2>5, <3>1
  <2> QED
    BY <2>1, <2>4, <2>5
<1> QED
  BY <1>6, <1>7 DEF map_, R

\* The marks of a rank.
LEMMA MarksAre ==
  ASSUME input \in Inputs, NEW p \in 1..2, Found(p), NEW P, P = ProblemAt(input, p),
         NEW r \in Ranks, NEW k \in Nat
  PROVE  LET map_ == Cut(Before(P)[k], RingIn(input, P, r))
         IN  (IF p = 2 /\ k = 0 THEN map_ ELSE Marked(p, map_, Rows(p, r)))
               = LocalMarks(input, P, k, r)
<1> DEFINE R == RingIn(input, P, r)
           m == Before(P)[k]
           map_ == Cut(m, R)
           yields(i) == \E j \in Rows(p, r) : map_[j] = UNASSIGNED /\ i \in UnmarkedBy(p, map_, j)
<1>1. P.pass = p /\ m \in MarksOf(P)
  BY ProblemFacts, BeforeFacts
<1>2. \A i : Weight(p, i) = WeightIn(P, i)
  BY MatricesFound
<1>3. DOMAIN map_ = R /\ \A j \in R : map_[j] = m[j]
  BY DEF Cut
<1>4. Rows(p, r) \subseteq R
  BY MatricesFound, RingFacts
<1>5. CASE p = 2 /\ k = 0
  BY <1>1, <1>5 DEF LocalMarks, Cut
<1>6. CASE ~ (p = 2 /\ k = 0)
  <2>1. ASSUME NEW i \in R, m[i] = UNASSIGNED, WeightIn(P, i) > Unit
        PROVE  yields(i) <=> Yields(input, P, m, r, i)
    <3> HIDE DEF m
    <3> QED
      BY <1>1, <2>1, UnmarkedIs
  <2>2. Marked(p, map_, Rows(p, r)) =
          [i \in R |-> IF map_[i] = UNASSIGNED /\ Weight(p, i) > Unit /\ ~ yields(i)
                       THEN COARSE ELSE map_[i]]
    <3> HIDE DEF map_, R
    <3>1. ASSUME NEW i
          PROVE  i \in UNION {UnmarkedBy(p, map_, l) : l \in {j \in Rows(p, r) : map_[j] = UNASSIGNED}}
                   <=> yields(i)
      OBVIOUS
    <3> HIDE DEF yields
    <3> QED
      BY <1>3, <3>1 DEF Marked
  <2>3. LocalMarks(input, P, k, r) =
          [i \in R |-> IF m[i] = UNASSIGNED /\ WeightIn(P, i) > Unit
                          /\ ~ Yields(input, P, m, r, i)
                       THEN COARSE ELSE m[i]]
    BY <1>1, <1>6 DEF LocalMarks
  <2> HIDE DEF m, R, map_, yields
  <2>4. ASSUME NEW i \in R
        PROVE  (IF map_[i] = UNASSIGNED /\ Weight(p, i) > Unit /\ ~ yields(i)
                THEN COARSE ELSE map_[i])
                 = (IF m[i] = UNASSIGNED /\ WeightIn(P, i) > Unit
                       /\ ~ Yields(input, P, m, r, i)
                    THEN COARSE ELSE m[i])
    BY <1>2, <1>3, <2>1
  <2>5. Marked(p, map_, Rows(p, r)) = LocalMarks(input, P, k, r)
    BY <2>2, <2>3, <2>4
  <2> QED
    BY <1>6, <2>5 DEF m, R, map_
<1> QED
  BY <1>5, <1>6

\* The minimum of marks: unassigned prevails.
LEMMA MinOfMarks ==
  ASSUME NEW S, S \subseteq Marks
  PROVE  /\ UNASSIGNED \in S => Min(S) = UNASSIGNED
         /\ \A c \in Marks : S = {c} => Min(S) = c
<1>1. \A c \in Marks : c \in Int /\ UNASSIGNED <= c
  BY DEF Marks, COARSE, FINE, STRONG_FINE, UNASSIGNED
<1>2. ASSUME UNASSIGNED \in S
      PROVE  Min(S) = UNASSIGNED
  <2>1. \A y \in S : UNASSIGNED <= y
    BY <1>1
  <2>2. Min(S) \in S /\ \A y \in S : Min(S) <= y
    BY <1>2, <2>1 DEF Min
  <2>3. Min(S) <= UNASSIGNED /\ UNASSIGNED <= Min(S) /\ Min(S) \in Int /\ UNASSIGNED \in Int
    BY <1>1, <1>2, <2>1, <2>2
  <2> QED
    BY <2>3
<1>3. ASSUME NEW c \in Marks, S = {c}
      PROVE  Min(S) = c
  <2>1. \A y \in S : c <= y
    BY <1>1, <1>3
  <2> QED
    BY <1>3, <2>1 DEF Min
<1> QED
  BY <1>2, <1>3

\* The marks of the ranks that see a point make up its mark.
LEMMA MarksAgree ==
  ASSUME NEW in \in Inputs, NEW p \in 1..2, NEW P, P = ProblemAt(in, p), NEW k \in Nat,
         NEW r \in Ranks, NEW i \in RowsIn(in, P, r)
  PROVE  /\ i \in P.points /\ in.owner[i] = r /\ i \in RingIn(in, P, r)
         /\ Marking(P, k)[i] \in Marks
         /\ Marking(P, k)[i] # UNASSIGNED =>
              \A n \in Ranks : i \in RingIn(in, P, n) => LocalMarks(in, P, k, n)[i] = Marking(P, k)[i]
         /\ Marking(P, k)[i] = UNASSIGNED =>
              /\ \A n \in Ranks : i \in RingIn(in, P, n) => LocalMarks(in, P, k, n)[i] \in Marks
              /\ \E n \in Ranks : i \in RingIn(in, P, n) /\ LocalMarks(in, P, k, n)[i] = UNASSIGNED
<1> DEFINE m == Before(P)[k]
<1>0. /\ IsProblem(P) /\ P.pass = p /\ m \in MarksOf(P) /\ Marking(P, k) \in MarksOf(P)
      /\ i \in P.points /\ in.owner[i] = r /\ i \in RingIn(in, P, r)
  BY ProblemFacts, BeforeFacts, RingFacts
<1>1. ASSUME NEW n \in Ranks, i \in RingIn(in, P, n)
      PROVE  LocalMarks(in, P, k, n)[i] =
               IF /\ ~ (P.pass = 2 /\ k = 0) /\ m[i] = UNASSIGNED
                  /\ WeightIn(P, i) > Unit /\ ~ Yields(in, P, m, n, i)
               THEN COARSE ELSE m[i]
  BY <1>1 DEF LocalMarks
<1>2. CASE P.pass = 2 /\ k = 0
  <2>1. Marking(P, k) = m
    BY <1>2 DEF Marking, MarkedIn
  <2> HIDE DEF m
  <2>2. \A n \in Ranks : i \in RingIn(in, P, n) => LocalMarks(in, P, k, n)[i] = m[i]
    BY <1>1, <1>2
  <2> QED
    BY <1>0, <2>1, <2>2, MarksFacts DEF MarksOf
<1>3. CASE ~ (P.pass = 2 /\ k = 0)
  <2>1. Marking(P, k) = Coarsened(P, m)
    BY <1>3 DEF Marking, MarkedIn
  <2> HIDE DEF m
  <2>2. Marking(P, k)[i] = IF /\ m[i] = UNASSIGNED
                              /\ WeightIn(P, i) > Unit
                              /\ \A j \in P.points : ~ Beats(P, m, j, i)
                           THEN COARSE ELSE m[i]
    BY <1>0, <2>1, CoarsenedFacts
  <2>3. \A n \in Ranks : Yields(in, P, m, n, i) => \E j \in P.points : Beats(P, m, j, i)
    BY DEF Yields, Beats
  <2>4. ASSUME Marking(P, k)[i] # UNASSIGNED, NEW n \in Ranks, i \in RingIn(in, P, n)
        PROVE  LocalMarks(in, P, k, n)[i] = Marking(P, k)[i]
    BY <1>1, <1>3, <2>2, <2>3, <2>4
  <2>5. ASSUME NEW n \in Ranks, i \in RingIn(in, P, n)
        PROVE  LocalMarks(in, P, k, n)[i] \in Marks
    BY <1>0, <1>1, <2>5, MarksFacts DEF MarksOf
  <2>6. ASSUME Marking(P, k)[i] = UNASSIGNED
        PROVE  \E n \in Ranks : i \in RingIn(in, P, n) /\ LocalMarks(in, P, k, n)[i] = UNASSIGNED
    <3>1. m[i] = UNASSIGNED
      BY <2>2, <2>6, MarksFacts
    <3>2. CASE ~ (WeightIn(P, i) > Unit)
      BY <1>0, <1>1, <3>1, <3>2
    <3>3. CASE WeightIn(P, i) > Unit
      <4>1. PICK j \in P.points : Beats(P, m, j, i)
        BY <2>2, <2>6, <3>1, <3>3, MarksFacts
      <4>2. CASE <<i, j>> \in P.edges
        <5>1. Yields(in, P, m, r, i)
          BY <1>0, <4>1, <4>2 DEF Yields, Beats
        <5> QED
          BY <1>0, <1>1, <3>1, <5>1
      <4>3. CASE <<j, i>> \in P.edges
        <5>1. in.owner[j] \in Ranks /\ j \in RowsIn(in, P, in.owner[j])
          BY InputFacts, ProblemFacts DEF RowsIn
        <5>2. i \in RingIn(in, P, in.owner[j])
          BY <1>0, <4>3, <5>1, RingFacts
        <5>3. Yields(in, P, m, in.owner[j], i)
          BY <4>1, <4>3 DEF Yields, Beats
        <5> QED
          BY <1>1, <3>1, <5>1, <5>2, <5>3
      <4> QED
        BY <4>1, <4>2, <4>3 DEF Beats
    <3> QED
      BY <3>2, <3>3
  <2> QED
    BY <1>0, <2>4, <2>5, <2>6 DEF MarksOf
<1> QED
  BY <1>2, <1>3

\* min_from_halo() finds the mark of the round.
LEMMA FoldIs ==
  ASSUME input \in Inputs, NEW r \in Ranks, NEW p \in 1..2, pass[r] = p, Found(p),
         NEW P, P = ProblemAt(input, p), NEW k \in Nat,
         \A n \in NeighborsIn(input, P, r) : Received(r, n) = LocalMarks(input, P, k, n)
  PROVE  MinTaken(r, LocalMarks(input, P, k, r)) = FoldedMarks(input, P, k, r)
<1> DEFINE v == LocalMarks(input, P, k, r)
           heard(i) == {Received(r, n)[i] : n \in {n \in Neighbors(pass[r], r) :
                                                     i \in DOMAIN Received(r, n)}}
<1>1. Neighbors(pass[r], r) = NeighborsIn(input, P, r) /\ NeighborsIn(input, P, r) \subseteq Ranks \ {r}
  BY MatricesFound DEF NeighborsIn
<1>2. DOMAIN v = RingIn(input, P, r)
  BY DEF LocalMarks
<1>3. \A n \in NeighborsIn(input, P, r) : DOMAIN Received(r, n) = RingIn(input, P, n)
  BY DEF LocalMarks
<1>4. ASSUME NEW i \in RingIn(input, P, r), owner[i] = r
      PROVE  Min({v[i]} \cup heard(i)) = Marking(P, k)[i]
  <2>1. i \in RowsIn(input, P, r)
    BY <1>4, RingFacts DEF owner
  <2>2. /\ i \in P.points /\ input.owner[i] = r /\ Marking(P, k)[i] \in Marks
        /\ Marking(P, k)[i] # UNASSIGNED =>
             \A n \in Ranks : i \in RingIn(input, P, n) =>
                LocalMarks(input, P, k, n)[i] = Marking(P, k)[i]
        /\ Marking(P, k)[i] = UNASSIGNED =>
             /\ \A n \in Ranks : i \in RingIn(input, P, n) => LocalMarks(input, P, k, n)[i] \in Marks
             /\ \E n \in Ranks : i \in RingIn(input, P, n) /\ LocalMarks(input, P, k, n)[i] = UNASSIGNED
    BY <2>1, MarksAgree
  <2>3. heard(i) = {LocalMarks(input, P, k, n)[i] :
                      n \in {l \in NeighborsIn(input, P, r) : i \in RingIn(input, P, l)}}
    BY <1>1, <1>3
  <2> DEFINE S == {v[i]} \cup heard(i)
  <2>4. CASE Marking(P, k)[i] # UNASSIGNED
    <3>1. v[i] = Marking(P, k)[i] /\ \A x \in heard(i) : x = Marking(P, k)[i]
      BY <1>1, <2>2, <2>3, <2>4
    <3> HIDE DEF v, heard
    <3>2. S = {Marking(P, k)[i]} /\ S \subseteq Marks
      BY <2>2, <3>1
    <3> HIDE DEF S
    <3>3. Min(S) = Marking(P, k)[i]
      BY <2>2, <3>2, MinOfMarks
    <3> QED
      BY <3>3 DEF S
  <2>5. CASE Marking(P, k)[i] = UNASSIGNED
    <3>1. v[i] \in Marks /\ \A x \in heard(i) : x \in Marks
      BY <1>1, <2>2, <2>3, <2>5
    <3>2. UNASSIGNED \in S
      <4>1. PICK n \in Ranks : i \in RingIn(input, P, n) /\ LocalMarks(input, P, k, n)[i] = UNASSIGNED
        BY <2>2, <2>5
      <4>2. CASE n = r
        BY <4>1, <4>2
      <4>3. CASE n # r
        <5>1. n \in NeighborsIn(input, P, r)
          BY <2>2, <4>1, <4>3, RingFacts
        <5>2. UNASSIGNED \in heard(i)
          BY <2>3, <4>1, <5>1
        <5> QED
          BY <5>2
      <4> QED
        BY <4>2, <4>3
    <3> HIDE DEF v, heard
    <3>3. S \subseteq Marks
      BY <3>1
    <3> HIDE DEF S
    <3>4. Min(S) = UNASSIGNED
      BY <3>2, <3>3, MinOfMarks
    <3> QED
      BY <2>5, <3>4 DEF S
  <2> QED
    BY <2>4, <2>5
<1>5. MinTaken(r, v) =
        [i \in RingIn(input, P, r) |-> IF owner[i] # r THEN v[i] ELSE Min({v[i]} \cup heard(i))]
  <2> HIDE DEF v
  <2> QED
    BY <1>2 DEF MinTaken
<1> HIDE DEF heard
<1>6. \A i \in RingIn(input, P, r) :
        (IF owner[i] # r THEN v[i] ELSE Min({v[i]} \cup heard(i)))
          = (IF input.owner[i] = r THEN Marking(P, k)[i] ELSE v[i])
  <2> HIDE DEF v
  <2> QED
    BY <1>4 DEF owner
<1> QED
  BY <1>5, <1>6 DEF FoldedMarks

\* exchange_halo() fills the ring where the owners have the values of a map.
LEMMA ExchangeIs ==
  ASSUME input \in Inputs, NEW r \in Ranks, NEW p \in 1..2, pass[r] = p, Found(p),
         NEW P, P = ProblemAt(input, p), NEW m, NEW values,
         \A i \in RowsIn(input, P, r) : values[i] = m[i],
         \A n \in NeighborsIn(input, P, r) :
            \A i \in RowsIn(input, P, n) : Received(r, n)[i] = m[i]
  PROVE  HaloFilled(r, values) = Cut(m, RingIn(input, P, r))
<1>1. OneRing(pass[r], r) = RingIn(input, P, r)
  BY MatricesFound
<1>2. ASSUME NEW i \in RingIn(input, P, r)
      PROVE  (IF owner[i] = r THEN values[i] ELSE Received(r, owner[i])[i]) = m[i]
  <2>1. CASE input.owner[i] = r
    <3>1. i \in RowsIn(input, P, r)
      BY <2>1, RingFacts
    <3> QED
      BY <2>1, <3>1 DEF owner
  <2>2. CASE input.owner[i] # r
    <3>1. input.owner[i] \in NeighborsIn(input, P, r) /\ i \in RowsIn(input, P, input.owner[i])
      BY <2>2, RingFacts
    <3> QED
      BY <2>2, <3>1 DEF owner
  <2> QED
    BY <2>1, <2>2
<1> QED
  BY <1>1, <1>2 DEF HaloFilled, Cut

\* Own rows settle as those of the whole matrix.
LEMMA SettleIs ==
  ASSUME input \in Inputs, NEW r \in Ranks, NEW p \in 1..2, pass[r] = p, Found(p),
         NEW P, P = ProblemAt(input, p), NEW k \in Nat,
         NEW marks, marks = Cut(Marking(P, k), RingIn(input, P, r)),
         map(r) = Cut(Before(P)[k], RingIn(input, P, r))
  PROVE  [i \in DOMAIN marks |-> IF i \in Rows(pass[r], r)
                                 THEN Settled(pass[r], marks, i) ELSE map(r)[i]]
           = RoundOf(input, P, k, r)
<1> DEFINE R == RingIn(input, P, r)
           mk == Marking(P, k)
<1>1. /\ IsProblem(P) /\ mk \in MarksOf(P) /\ Before(P)[k+1] = Refined(P, mk)
  BY ProblemFacts, BeforeFacts
<1>2. Strong(p) = P.edges /\ Rows(p, r) = RowsIn(input, P, r)
  BY MatricesFound
<1>3. /\ RowsIn(input, P, r) = {i \in P.points : input.owner[i] = r}
      /\ RowsIn(input, P, r) \subseteq R /\ R \subseteq P.points
      /\ \A i \in R : input.owner[i] = r => i \in RowsIn(input, P, r)
      /\ \A i \in RowsIn(input, P, r), j \in P.points : <<i, j>> \in P.edges => j \in R
  BY RingFacts
<1>4. DOMAIN marks = R /\ \A j \in R : marks[j] = mk[j]
  BY DEF Cut
<1>5. \A j \in R : map(r)[j] = Before(P)[k][j]
  BY DEF Cut
<1> HIDE DEF R, mk
<1>6. ASSUME NEW i \in RowsIn(input, P, r)
      PROVE  Settled(p, marks, i) = Before(P)[k+1][i]
  <2>1. (\E j \in R : <<i, j>> \in P.edges /\ mk[j] = COARSE)
          <=> (\E j \in P.points : <<i, j>> \in P.edges /\ mk[j] = COARSE)
    BY <1>3
  <2>2. Refined(P, mk)[i] = IF /\ mk[i] = UNASSIGNED
                               /\ \E j \in P.points : <<i, j>> \in P.edges /\ mk[j] = COARSE
                            THEN FINE ELSE mk[i]
    BY <1>1, <1>3, RefinedFacts
  <2>3. (\E j \in DOMAIN marks : <<i, j>> \in Strong(p) /\ marks[j] = COARSE)
          <=> (\E j \in R : <<i, j>> \in P.edges /\ mk[j] = COARSE)
    BY <1>2, <1>4
  <2>4. marks[i] = mk[i]
    BY <1>3, <1>4
  <2> QED
    BY <1>1, <2>1, <2>2, <2>3, <2>4 DEF Settled
<1>7. \A i \in R : (IF i \in Rows(pass[r], r) THEN Settled(pass[r], marks, i) ELSE map(r)[i])
                     = (IF input.owner[i] = r THEN Before(P)[k+1][i] ELSE Before(P)[k][i])
  BY <1>2, <1>3, <1>5, <1>6
<1> QED
  BY <1>4, <1>7 DEF RoundOf, R

\* The rank counts the rows that the round left.
LEMMA LeftIs ==
  ASSUME input \in Inputs, NEW r \in Ranks, NEW p \in 1..2, pass[r] = p, Found(p),
         NEW P, P = ProblemAt(input, p), NEW k \in Nat,
         map(r) = RoundOf(input, P, k, r)
  PROVE  Cardinality(Unassigned(r)) = LeftIn(input, P, r, k)
<1>1. Rows(p, r) = RowsIn(input, P, r)
  BY MatricesFound
<1>2. \A i \in RowsIn(input, P, r) : i \in RingIn(input, P, r) /\ input.owner[i] = r
  BY RingFacts
<1>3. \A i \in RowsIn(input, P, r) : map(r)[i] = Before(P)[k+1][i]
  BY <1>2 DEF RoundOf
<1>4. Unassigned(r) = {i \in RowsIn(input, P, r) : Before(P)[k+1][i] = UNASSIGNED}
  BY <1>1, <1>3 DEF Unassigned
<1> QED
  BY <1>4 DEF LeftIn

-----------------------------------------------------------------------------
(* What is sent and received. *)

\* Each exchange has its place in a round.
LEMMA MessagePlaces ==
  ASSUME NEW in, NEW P, NEW r, NEW k \in Nat, NEW v
  PROVE  /\ MessageIs(in, P, r, 1, v) <=> v = Cut(Before(P)[0], RowsIn(in, P, r))
         /\ MessageIs(in, P, r, 3*k + 2, v) <=> v = LocalMarks(in, P, k, r)
         /\ MessageIs(in, P, r, 3*k + 3, v) <=> v = FoldedMarks(in, P, k, r)
         /\ MessageIs(in, P, r, 3*k + 4, v) <=> v = RoundOf(in, P, k, r)
<1>1. \A n \in Nat : 1 # 3*n + 2 /\ 1 # 3*n + 3 /\ 1 # 3*n + 4
  OBVIOUS
<1>2. \A n \in Nat : /\ 3*k + 2 = 3*n + 2 => n = k
                     /\ 3*k + 2 # 3*n + 3 /\ 3*k + 2 # 3*n + 4
  OBVIOUS
<1>3. \A n \in Nat : /\ 3*k + 3 = 3*n + 3 => n = k
                     /\ 3*k + 3 # 3*n + 2 /\ 3*k + 3 # 3*n + 4
  OBVIOUS
<1>4. \A n \in Nat : /\ 3*k + 4 = 3*n + 4 => n = k
                     /\ 3*k + 4 # 3*n + 2 /\ 3*k + 4 # 3*n + 3
  OBVIOUS
<1>5. 3*k + 2 # 1 /\ 3*k + 3 # 1 /\ 3*k + 4 # 1
  OBVIOUS
<1>6. MessageIs(in, P, r, 1, v) <=> v = Cut(Before(P)[0], RowsIn(in, P, r))
  BY <1>1 DEF MessageIs
<1> DEFINE a == 3*k + 2
           b == 3*k + 3
           c == 3*k + 4
<1>7. MessageIs(in, P, r, a, v) <=> v = LocalMarks(in, P, k, r)
  <2>1. a = 3*k + 2 /\ a # 1 /\ \A n \in Nat : (a = 3*n + 2 => n = k) /\ a # 3*n + 3 /\ a # 3*n + 4
    BY <1>2, <1>5
  <2> HIDE DEF a
  <2> QED
    BY <2>1 DEF MessageIs
<1>8. MessageIs(in, P, r, b, v) <=> v = FoldedMarks(in, P, k, r)
  <2>1. b = 3*k + 3 /\ b # 1 /\ \A n \in Nat : (b = 3*n + 3 => n = k) /\ b # 3*n + 2 /\ b # 3*n + 4
    BY <1>3, <1>5
  <2> HIDE DEF b
  <2> QED
    BY <2>1 DEF MessageIs
<1>9. MessageIs(in, P, r, c, v) <=> v = RoundOf(in, P, k, r)
  <2>1. c = 3*k + 4 /\ c # 1 /\ \A n \in Nat : (c = 3*n + 4 => n = k) /\ c # 3*n + 2 /\ c # 3*n + 3
    BY <1>4, <1>5
  <2> HIDE DEF c
  <2> QED
    BY <2>1 DEF MessageIs
<1> QED
  BY <1>6, <1>7, <1>8, <1>9

LEMMA FoundAtPlace ==
  ASSUME NEW in, NEW P, NEW r, NEW k \in Nat, NEW v, NEW l, MessageIs(in, P, r, l, v)
  PROVE  /\ l = 3*k + 2 => v = LocalMarks(in, P, k, r)
         /\ l = 3*k + 3 => v = FoldedMarks(in, P, k, r)
         /\ l = 3*k + 4 => v = RoundOf(in, P, k, r)
BY DEF MessageIs

\* All of it is a map of points.
LEMMA MessageTypes ==
  ASSUME NEW in \in Inputs, NEW p \in 1..2, NEW P, P = ProblemAt(in, p),
         NEW k \in Nat, NEW r \in Ranks
  PROVE  /\ Cut(Before(P)[0], RowsIn(in, P, r)) \in Values
         /\ LocalMarks(in, P, k, r) \in Values
         /\ FoldedMarks(in, P, k, r) \in Values
         /\ RoundOf(in, P, k, r) \in Values
<1> DEFINE R == RingIn(in, P, r)
           W == RowsIn(in, P, r)
<1>1. W \subseteq R /\ R \subseteq P.points /\ R \subseteq Points
  BY RingFacts
<1>2. /\ Before(P)[0] \in MarksOf(P) /\ Before(P)[k] \in MarksOf(P)
      /\ Before(P)[k+1] \in MarksOf(P) /\ Marking(P, k) \in MarksOf(P)
  BY ProblemFacts, BeforeFacts
<1> HIDE DEF R, W
<1>3. \A i \in R : /\ Before(P)[k][i] \in Marks /\ Before(P)[k+1][i] \in Marks
                   /\ Marking(P, k)[i] \in Marks /\ Before(P)[0][i] \in Marks
  BY <1>1, <1>2 DEF MarksOf
<1>4. ASSUME NEW S, S \subseteq Points, NEW f \in [S -> Marks]
      PROVE  f \in Values
  BY <1>4 DEF Values
<1>5. Cut(Before(P)[0], W) \in [W -> Marks]
  BY <1>1, <1>3 DEF Cut
<1>6. LocalMarks(in, P, k, r) \in [R -> Marks]
  <2>1. ASSUME NEW i \in R, NEW A
        PROVE  (IF A THEN COARSE ELSE Before(P)[k][i]) \in Marks
    BY <1>3, MarksFacts
  <2> QED
    BY <1>3, MarksFacts DEF LocalMarks, R
<1>7. FoldedMarks(in, P, k, r) \in [R -> Marks]
  BY <1>3, <1>6 DEF FoldedMarks, R
<1>8. RoundOf(in, P, k, r) \in [R -> Marks]
  BY <1>3 DEF RoundOf, R
<1> QED
  BY <1>1, <1>4, <1>5, <1>6, <1>7, <1>8 DEF W

\* A rank that sends keeps the order of what it sent.
LEMMA SendKeeps ==
  ASSUME NEW in, NEW r, NEW p \in 1..2, NEW sent \in Seq(Values), NEW v \in Values,
         MessagesAre(in, r, p, sent), Len(sent) >= SentBefore(in, p), SentBefore(in, p) \in Nat,
         MessageIs(in, ProblemAt(in, p), r, (Len(sent) + 1) - SentBefore(in, p), v)
  PROVE  /\ Append(sent, v) \in Seq(Values)
         /\ Len(Append(sent, v)) = Len(sent) + 1
         /\ MessagesAre(in, r, p, Append(sent, v))
<1> DEFINE t == Append(sent, v)
<1>1. /\ t \in Seq(Values) /\ Len(t) = Len(sent) + 1 /\ Len(sent) \in Nat
      /\ \A l \in 1..Len(sent) : t[l] = sent[l]
      /\ t[Len(sent) + 1] = v
  BY AppendProperties
<1> HIDE DEF t
<1>2. ASSUME NEW l \in 1..Len(t)
      PROVE  /\ p = 1 \/ l <= Sent1(in) => MessageIs(in, FirstProblem(in), r, l, t[l])
             /\ p = 2 /\ l > Sent1(in) =>
                  MessageIs(in, SecondProblem(in), r, l - Sent1(in), t[l])
  <2>1. CASE l \in 1..Len(sent)
    BY <1>1, <2>1 DEF MessagesAre
  <2>2. CASE l = Len(sent) + 1
    <3>1. CASE p = 1
      <4>1. SentBefore(in, p) = 0 /\ ProblemAt(in, p) = FirstProblem(in)
        BY <3>1 DEF SentBefore, ProblemAt
      <4>2. (Len(sent) + 1) - SentBefore(in, p) = l /\ t[l] = v
        BY <1>1, <2>2, <4>1
      <4> QED
        BY <3>1, <4>1, <4>2
    <3>2. CASE p = 2
      <4>1. SentBefore(in, p) = Sent1(in) /\ ProblemAt(in, p) = SecondProblem(in)
        BY <3>2 DEF SentBefore, ProblemAt
      <4>2. (Len(sent) + 1) - SentBefore(in, p) = l - Sent1(in) /\ t[l] = v /\ ~ (l <= Sent1(in))
        BY <1>1, <2>2, <4>1
      <4> QED
        BY <3>2, <4>1, <4>2
    <3> QED
      BY <3>1, <3>2
  <2> QED
    BY <1>1, <2>1, <2>2
<1> QED
  BY <1>1, <1>2 DEF MessagesAre, t

\* The same for what it gives to a reduction.
LEMMA GiveKeeps ==
  ASSUME NEW in, NEW r, NEW p \in 1..2, NEW given \in Seq(Nat), NEW c \in Nat,
         NEW k \in Nat,
         ReductionsAre(in, r, p, given), ReducedBefore(in, p) \in Nat,
         Len(given) = ReducedBefore(in, p) + k,
         c = LeftIn(in, ProblemAt(in, p), r, k)
  PROVE  /\ Append(given, c) \in Seq(Nat)
         /\ Len(Append(given, c)) = Len(given) + 1
         /\ ReductionsAre(in, r, p, Append(given, c))
<1> DEFINE t == Append(given, c)
<1>1. /\ t \in Seq(Nat) /\ Len(t) = Len(given) + 1 /\ Len(given) \in Nat
      /\ \A l \in 1..Len(given) : t[l] = given[l]
      /\ t[Len(given) + 1] = c
  BY AppendProperties
<1> HIDE DEF t
<1>2. ASSUME NEW l \in 1..Len(t)
      PROVE  /\ p = 1 \/ l <= Reduced1(in) => t[l] = LeftIn(in, FirstProblem(in), r, l - 1)
             /\ p = 2 /\ l > Reduced1(in) =>
                  t[l] = LeftIn(in, SecondProblem(in), r, (l - Reduced1(in)) - 1)
  <2>1. CASE l \in 1..Len(given)
    BY <1>1, <2>1 DEF ReductionsAre
  <2>2. CASE l = Len(given) + 1
    <3>1. CASE p = 1
      <4>1. ReducedBefore(in, p) = 0 /\ ProblemAt(in, p) = FirstProblem(in)
        BY <3>1 DEF ReducedBefore, ProblemAt
      <4>2. l - 1 = k /\ t[l] = c
        BY <1>1, <2>2, <4>1
      <4> QED
        BY <3>1, <4>1, <4>2
    <3>2. CASE p = 2
      <4>1. ReducedBefore(in, p) = Reduced1(in) /\ ProblemAt(in, p) = SecondProblem(in)
        BY <3>2 DEF ReducedBefore, ProblemAt
      <4>2. Reduced1(in) \in Nat /\ Len(given) = Reduced1(in) + k
        BY <4>1
      <4>3. (l - Reduced1(in)) - 1 = k /\ ~ (l <= Reduced1(in))
        BY <2>2, <4>2
      <4> QED
        BY <1>1, <2>2, <3>2, <4>1, <4>3
    <3> QED
      BY <3>1, <3>2
  <2> QED
    BY <1>1, <2>1, <2>2
<1> QED
  BY <1>1, <1>2 DEF ReductionsAre, t

-----------------------------------------------------------------------------
(* Ranks in different rounds and passes. *)

LEMMA LabelFacts ==
  /\ \A label \in Labels : SentAt[label] \in 0..4 /\ GivenAt[label] \in 0..1
  /\ \A label \in Labels : GivenAt[label] = 1 => label \in {"reduce", "done"}
  /\ SentAt["start"] = 0 /\ SentAt["exchange"] = 1 /\ SentAt["mark"] = 1
  /\ SentAt["fold"] = 2 /\ SentAt["marks"] = 3 /\ SentAt["exchangeCf"] = 4
  /\ SentAt["reduce"] = 4 /\ SentAt["done"] = 4
  /\ GivenAt["start"] = 0 /\ GivenAt["exchange"] = 0 /\ GivenAt["mark"] = 0
  /\ GivenAt["fold"] = 0 /\ GivenAt["marks"] = 0 /\ GivenAt["exchangeCf"] = 0
  /\ GivenAt["reduce"] = 1 /\ GivenAt["done"] = 1
BY DEF SentAt, GivenAt, Labels

\* The parts of the invariant about one rank.
LEMMA RankParts ==
  ASSUME IInv, NEW r \in Ranks
  PROVE  /\ input \in Inputs /\ pc[r] \in Labels /\ pass[r] \in 1..2 /\ iter[r] \in Nat
         /\ RoundIs(input, ProblemAt(input, pass[r]), r, pc[r], iter[r],
                    cf_map[pass[r]][r], scratch[r])
         /\ PassIs(input, r, pc[r], pass[r], cf_map[1][r], cf_map[2][r], result[r])
         /\ CountsAre(input, pc[r], pass[r], iter[r], mailbox[r], reductions[r])
         /\ MessagesAre(input, r, pass[r], mailbox[r])
         /\ ReductionsAre(input, r, pass[r], reductions[r])
<1>1. Rank(r) /\ input \in Inputs
  BY DEF IInv, Shape
<1>2. /\ pc[r] \in Labels /\ pass[r] \in 1..2 /\ iter[r] \in Nat
      /\ RoundIs(input, ProblemAt(input, pass[r]), r, pc[r], iter[r],
                 IF pass[r] = 1 THEN cf_map[1][r] ELSE cf_map[2][r], scratch[r])
      /\ PassIs(input, r, pc[r], pass[r], cf_map[1][r], cf_map[2][r], result[r])
      /\ CountsAre(input, pc[r], pass[r], iter[r], mailbox[r], reductions[r])
      /\ MessagesAre(input, r, pass[r], mailbox[r])
      /\ ReductionsAre(input, r, pass[r], reductions[r])
  BY <1>1 DEF Rank, RankIs
<1>3. (IF pass[r] = 1 THEN cf_map[1][r] ELSE cf_map[2][r]) = cf_map[pass[r]][r]
  BY <1>2
<1> QED
  BY <1>1, <1>2, <1>3

\* The counts of a rank, once the number of rounds of the first pass is known.
LEMMA RankCounts ==
  ASSUME IInv, NEW r \in Ranks
  PROVE  /\ pass[r] = 2 => input.aggressive /\ FirstEnds(input)
         /\ SentBefore(input, pass[r]) \in Nat /\ ReducedBefore(input, pass[r]) \in Nat
         /\ mailbox[r] \in Seq(Values) /\ reductions[r] \in Seq(Nat)
         /\ Len(mailbox[r]) = SentBefore(input, pass[r]) + 3*iter[r] + SentAt[pc[r]]
         /\ Len(reductions[r]) = ReducedBefore(input, pass[r]) + iter[r] + GivenAt[pc[r]]
         /\ pass[r] = 1 => SentBefore(input, pass[r]) = 0 /\ ReducedBefore(input, pass[r]) = 0
         /\ pass[r] = 2 => /\ SentBefore(input, pass[r]) = Sent1(input)
                           /\ ReducedBefore(input, pass[r]) = Reduced1(input)
         /\ FirstEnds(input) =>
              /\ Sent1(input) = 3 * LastOf(input) + 4 /\ Reduced1(input) = LastOf(input) + 1
              /\ LastOf(input) \in Nat /\ Sent1(input) \in Nat /\ Reduced1(input) \in Nat
              /\ pass[r] = 1 => iter[r] <= LastOf(input)
<1>1. /\ input \in Inputs /\ pass[r] \in 1..2 /\ iter[r] \in Nat
      /\ RoundIs(input, ProblemAt(input, pass[r]), r, pc[r], iter[r],
                 cf_map[pass[r]][r], scratch[r])
      /\ PassIs(input, r, pc[r], pass[r], cf_map[1][r], cf_map[2][r], result[r])
      /\ CountsAre(input, pc[r], pass[r], iter[r], mailbox[r], reductions[r])
  BY RankParts
<1>2. pass[r] = 2 => input.aggressive /\ FirstEnds(input)
  BY <1>1 DEF PassIs
<1>3. ASSUME FirstEnds(input)
      PROVE  /\ Sent1(input) = 3 * LastOf(input) + 4 /\ Reduced1(input) = LastOf(input) + 1
             /\ LastOf(input) \in Nat /\ Sent1(input) \in Nat /\ Reduced1(input) \in Nat
  <2>1. LastOf(input) \in Nat
    BY <1>1, <1>3, LastFacts
  <2> QED
    BY <2>1 DEF Sent1, Reduced1
<1>4. ASSUME FirstEnds(input), pass[r] = 1
      PROVE  iter[r] <= LastOf(input)
  <2>1. \A j \in 0..(iter[r] - 1) : Open(FirstProblem(input), j)
    BY <1>1, <1>4 DEF RoundIs, ProblemAt
  <2> QED
    BY <1>1, <1>4, <2>1, LastFacts
<1>5. /\ pass[r] = 1 => SentBefore(input, pass[r]) = 0 /\ ReducedBefore(input, pass[r]) = 0
      /\ pass[r] = 2 => /\ SentBefore(input, pass[r]) = Sent1(input)
                        /\ ReducedBefore(input, pass[r]) = Reduced1(input)
  BY DEF SentBefore, ReducedBefore
<1>6. SentBefore(input, pass[r]) \in Nat /\ ReducedBefore(input, pass[r]) \in Nat
  BY <1>1, <1>2, <1>3, <1>5
<1>7. /\ mailbox[r] \in Seq(Values) /\ reductions[r] \in Seq(Nat)
      /\ Len(mailbox[r]) = SentBefore(input, pass[r]) + 3*iter[r] + SentAt[pc[r]]
      /\ Len(reductions[r]) = ReducedBefore(input, pass[r]) + iter[r] + GivenAt[pc[r]]
  BY <1>1 DEF CountsAre
<1> QED
  BY <1>2, <1>3, <1>4, <1>5, <1>6, <1>7

\* What a rank finds in an exchange its neighbor entered was sent in the same
\* exchange of the same round and pass.
LEMMA SameExchange ==
  ASSUME IInv, NEW r \in Ranks, NEW n \in Ranks, SentAt[pc[r]] > 0,
         Len(mailbox[n]) >= Len(mailbox[r])
  PROVE  MessageIs(input, ProblemAt(input, pass[r]), n, 3*iter[r] + SentAt[pc[r]],
                   Received(r, n))
<1> DEFINE l == Len(mailbox[r])
           a == SentAt[pc[r]]
<1>1. /\ input \in Inputs /\ pc[r] \in Labels /\ pc[n] \in Labels /\ pass[r] \in 1..2
      /\ pass[n] \in 1..2 /\ iter[r] \in Nat /\ iter[n] \in Nat
      /\ MessagesAre(input, n, pass[n], mailbox[n])
  BY RankParts
<1>2. /\ a \in 1..4 /\ SentAt[pc[n]] \in 0..4
      /\ Len(mailbox[n]) \in Nat /\ l \in Nat /\ Len(mailbox[n]) >= l
  <2>1. mailbox[n] \in Seq(Values) /\ mailbox[r] \in Seq(Values)
    BY RankCounts
  <2> QED
    BY <1>1, <2>1, LabelFacts
<1>3. /\ l = SentBefore(input, pass[r]) + 3*iter[r] + a
      /\ Len(mailbox[n]) = SentBefore(input, pass[n]) + 3*iter[n] + SentAt[pc[n]]
      /\ Received(r, n) = mailbox[n][l]
  BY RankCounts DEF Received
<1>4. /\ pass[r] = 2 => FirstEnds(input) /\ SentBefore(input, pass[r]) = Sent1(input)
      /\ pass[n] = 2 => FirstEnds(input) /\ SentBefore(input, pass[n]) = Sent1(input)
      /\ pass[r] = 1 => SentBefore(input, pass[r]) = 0
      /\ pass[n] = 1 => SentBefore(input, pass[n]) = 0
      /\ FirstEnds(input) =>
            /\ Sent1(input) = 3 * LastOf(input) + 4 /\ LastOf(input) \in Nat
            /\ pass[r] = 1 => iter[r] <= LastOf(input)
            /\ pass[n] = 1 => iter[n] <= LastOf(input)
  BY RankCounts
<1> HIDE DEF l, a
<1>5. CASE pass[r] = 1
  <2>1. l = 3*iter[r] + a /\ l \in 1..Len(mailbox[n])
    <3>1. l = 3*iter[r] + a
      BY <1>1, <1>2, <1>3, <1>4, <1>5
    <3> QED
      BY <1>1, <1>2, <3>1
  <2>2. pass[n] = 1 \/ l <= Sent1(input)
    BY <1>1, <1>2, <1>4, <1>5, <2>1
  <2>3. MessageIs(input, FirstProblem(input), n, l, mailbox[n][l])
    BY <1>1, <2>1, <2>2 DEF MessagesAre
  <2> QED
    BY <1>3, <1>5, <2>1, <2>3 DEF ProblemAt, a
<1>6. CASE pass[r] = 2
  <2>1. l = Sent1(input) + 3*iter[r] + a /\ FirstEnds(input)
    BY <1>3, <1>4, <1>6
  <2>2. Sent1(input) \in Nat /\ Sent1(input) = 3 * LastOf(input) + 4 /\ LastOf(input) \in Nat
    BY <1>4, <2>1
  <2>3. l > Sent1(input) /\ l - Sent1(input) = 3*iter[r] + a /\ l \in 1..Len(mailbox[n])
    <3>1. iter[r] \in Nat
      BY <1>1
    <3> DEFINE b == Sent1(input)
               c == 3*iter[r]
    <3>0. b \in Nat /\ c \in Nat /\ a \in Nat /\ a > 0 /\ l = b + c + a
      BY <1>2, <2>1, <2>2, <3>1
    <3> HIDE DEF b, c
    <3>a. l > b /\ l - b = c + a /\ l >= 1
      BY <3>0
    <3>2. l > Sent1(input) /\ l - Sent1(input) = 3*iter[r] + a /\ l >= 1
      BY <3>a DEF b, c
    <3> QED
      BY <1>2, <3>2
  <2>4. pass[n] = 2
    <3>1. CASE pass[n] = 1
      <4>1. Len(mailbox[n]) = 3*iter[n] + SentAt[pc[n]] /\ iter[n] <= LastOf(input)
        BY <1>1, <1>2, <1>3, <1>4, <2>1, <3>1
      <4>2. iter[n] \in Nat /\ SentAt[pc[n]] \in 0..4
        BY <1>1, <1>2
      <4>3. 3*iter[n] <= 3*LastOf(input)
        BY <2>2, <4>1, <4>2
      <4>4. Len(mailbox[n]) <= Sent1(input)
        BY <2>2, <4>1, <4>2, <4>3
      <4> QED
        BY <1>2, <2>2, <2>3, <4>4
    <3> QED
      BY <1>1, <3>1
  <2>5. MessageIs(input, SecondProblem(input), n, l - Sent1(input), mailbox[n][l])
    BY <1>1, <2>3, <2>4 DEF MessagesAre
  <2> QED
    BY <1>3, <1>6, <2>3, <2>5 DEF ProblemAt, a
<1> QED
  BY <1>1, <1>5, <1>6

\* Once all are in the last reduction of the first pass, its map is settled.
LEMMA FirstSettled ==
  ASSUME IInv, FirstEnds(input), \A s \in Ranks : Len(reductions[s]) >= Reduced1(input)
  PROVE  /\ \A s \in Ranks : cf_map[1][s] = Cut(Before(FirstProblem(input))[LastOf(input) + 1],
                                                RingIn(input, FirstProblem(input), s))
         /\ \A i \in Points : cf_map[1][owner[i]][i] =
                                Before(FirstProblem(input))[LastOf(input) + 1][i]
         /\ FirstCoarse = CoarseAfter(input)
<1>0. input \in Inputs
  BY DEF IInv, Shape
<1>1. ASSUME NEW s \in Ranks
      PROVE  cf_map[1][s] = Cut(Before(FirstProblem(input))[LastOf(input) + 1],
                                RingIn(input, FirstProblem(input), s))
  <2>1. /\ pc[s] \in Labels /\ pass[s] \in 1..2 /\ iter[s] \in Nat
        /\ RoundIs(input, ProblemAt(input, pass[s]), s, pc[s], iter[s],
                   cf_map[pass[s]][s], scratch[s])
        /\ PassIs(input, s, pc[s], pass[s], cf_map[1][s], cf_map[2][s], result[s])
    BY RankParts
  <2>2. CASE pass[s] = 2
    BY <2>1, <2>2 DEF PassIs
  <2>3. CASE pass[s] = 1
    <3>1. /\ Len(reductions[s]) = iter[s] + GivenAt[pc[s]]
          /\ iter[s] <= LastOf(input) /\ LastOf(input) \in Nat
          /\ Reduced1(input) = LastOf(input) + 1 /\ GivenAt[pc[s]] \in 0..1
      <4>1. Len(reductions[s]) = ReducedBefore(input, pass[s]) + iter[s] + GivenAt[pc[s]]
            /\ ReducedBefore(input, pass[s]) = 0
        BY <2>3, RankCounts
      <4>2. GivenAt[pc[s]] \in 0..1
        BY <2>1, LabelFacts
      <4>3. iter[s] <= LastOf(input) /\ LastOf(input) \in Nat /\ Reduced1(input) = LastOf(input) + 1
        BY <2>3, RankCounts
      <4> QED
        BY <2>1, <4>1, <4>2, <4>3
    <3>2. iter[s] = LastOf(input) /\ GivenAt[pc[s]] = 1
      BY <2>1, <3>1
    <3>3. pc[s] \in {"reduce", "done"}
      BY <2>1, <3>2, LabelFacts
    <3>4. ProblemAt(input, pass[s]) = FirstProblem(input) /\ cf_map[pass[s]][s] = cf_map[1][s]
      BY <2>3 DEF ProblemAt
    <3> QED
      BY <2>1, <3>2, <3>3, <3>4 DEF RoundIs
  <2> QED
    BY <2>1, <2>2, <2>3
<1>2. ASSUME NEW i \in Points
      PROVE  cf_map[1][owner[i]][i] = Before(FirstProblem(input))[LastOf(input) + 1][i]
  <2>1. input.owner[i] \in Ranks
    BY <1>0, InputFacts
  <2>2. FirstProblem(input) = ProblemAt(input, 1) /\ FirstProblem(input).points = Points
    BY DEF ProblemAt, FirstProblem
  <2>3. i \in RingIn(input, FirstProblem(input), input.owner[i])
    BY <1>0, <2>1, <2>2, RingFacts
  <2>4. Cut(Before(FirstProblem(input))[LastOf(input) + 1],
            RingIn(input, FirstProblem(input), input.owner[i]))[i]
          = Before(FirstProblem(input))[LastOf(input) + 1][i]
    BY <2>3 DEF Cut
  <2> QED
    BY <1>1, <2>1, <2>4 DEF owner
<1>3. FirstCoarse = CoarseAfter(input)
  BY <1>2 DEF FirstCoarse, CoarseAfter
<1> QED
  BY <1>1, <1>2, <1>3

\* So a rank in the second pass finds the matrix that all others will.
LEMMA MatrixFound ==
  ASSUME IInv, NEW r \in Ranks
  PROVE  /\ Found(pass[r])
         /\ pass[r] = 2 => /\ FirstEnds(input) /\ FirstCoarse = CoarseAfter(input)
                           /\ \A s \in Ranks : Len(reductions[s]) >= Reduced1(input)
<1>1. pass[r] \in 1..2 /\ iter[r] \in Nat
  BY RankParts
<1>2. ASSUME pass[r] = 2
      PROVE  /\ FirstEnds(input) /\ FirstCoarse = CoarseAfter(input)
             /\ \A s \in Ranks : Len(reductions[s]) >= Reduced1(input)
  <2>1. FirstEnds(input) /\ Reduced1(input) \in Nat /\ ReducedBefore(input, pass[r]) = Reduced1(input)
    BY <1>2, RankCounts
  <2>2. ASSUME NEW s \in Ranks
        PROVE  Len(reductions[s]) >= Reduced1(input)
    <3>1. Len(reductions[s]) >= LeftBehind(r)
      BY DEF IInv, Skew
    <3>2. LeftBehind(r) \in Nat /\ LeftBehind(r) >= Reduced1(input)
      BY <1>1, <2>1 DEF LeftBehind
    <3>3. Len(reductions[s]) \in Nat
      BY RankCounts
    <3> QED
      BY <2>1, <3>1, <3>2, <3>3
  <2> QED
    BY <2>1, <2>2, FirstSettled
<1> QED
  BY <1>1, <1>2 DEF Found

-----------------------------------------------------------------------------
(* The invariant is inductive. *)

\* g is f with v for r.
Writes(f, g, r, v) == DOMAIN g = DOMAIN f /\ g[r] = v /\ \A s \in Ranks \ {r} : g[s] = f[s]

LEMMA WritesFacts ==
  ASSUME NEW f, DOMAIN f = Ranks, NEW r \in Ranks
  PROVE  /\ Writes(f, f, r, f[r])
         /\ \A v : Writes(f, [f EXCEPT ![r] = v], r, v)
BY DEF Writes

\* What a step of one rank leaves to show.
LEMMA FrameKeeps ==
  ASSUME IInv, NEW r \in Ranks, NEW label, NEW p, NEW k, NEW first, NEW second, NEW marks,
         NEW sent, NEW given, NEW returned,
         RankIs(input, r, label, p, k, first, second, marks, sent, given, returned),
         input' = input, Writes(pc, pc', r, label), Writes(pass, pass', r, p),
         Writes(iter, iter', r, k), DOMAIN cf_map' = 1..2,
         Writes(cf_map[1], cf_map'[1], r, first), Writes(cf_map[2], cf_map'[2], r, second),
         Writes(scratch, scratch', r, marks), Writes(mailbox, mailbox', r, sent),
         Writes(reductions, reductions', r, given), Writes(result, result', r, returned),
         Len(given) >= Len(reductions[r]),
         \A s \in Ranks : Len(reductions[s]) >=
            ReducedBefore(input, p) + k + (IF label = "done" THEN 1 ELSE 0)
  PROVE  IInv'
<1>1. Shape'
  BY DEF IInv, Shape, Writes
<1>2. ASSUME NEW s \in Ranks
      PROVE  Rank(s)'
  <2>1. CASE s = r
    BY <2>1 DEF Rank, Writes
  <2>2. CASE s # r
    <3>1. Rank(s)
      BY DEF IInv
    <3>2. /\ pc'[s] = pc[s] /\ pass'[s] = pass[s] /\ iter'[s] = iter[s]
          /\ cf_map'[1][s] = cf_map[1][s] /\ cf_map'[2][s] = cf_map[2][s]
          /\ scratch'[s] = scratch[s] /\ mailbox'[s] = mailbox[s]
          /\ reductions'[s] = reductions[s] /\ result'[s] = result[s]
      BY <2>2 DEF Writes
    <3> QED
      BY <3>1, <3>2 DEF Rank
  <2> QED
    BY <2>1, <2>2
<1>3. ASSUME NEW q \in Ranks, NEW s \in Ranks
      PROVE  Len(reductions'[s]) >= LeftBehind(q)'
  <2>1. Len(reductions'[s]) >= Len(reductions[s])
    <3>1. CASE s = r
      BY <3>1 DEF Writes
    <3>2. CASE s # r
      <4>1. reductions'[s] = reductions[s] /\ Len(reductions[s]) \in Nat
        BY <3>2, RankCounts DEF Writes
      <4> QED
        BY <4>1
    <3> QED
      BY <3>1, <3>2
  <2>2. Len(reductions'[s]) \in Nat /\ Len(reductions[s]) \in Nat
    <3>1. reductions'[s] \in Seq(Nat)
      BY <1>2 DEF Rank, RankIs, CountsAre
    <3>2. reductions[s] \in Seq(Nat)
      BY RankCounts
    <3> QED
      BY <3>1, <3>2
  <2>3. Len(reductions[s]) >= LeftBehind(q)' /\ LeftBehind(q)' \in Nat
    <3>1. CASE q = r
      <4>1. LeftBehind(q)' = ReducedBefore(input, p) + k + (IF label = "done" THEN 1 ELSE 0)
        BY <3>1 DEF LeftBehind, Writes
      <4>2. ReducedBefore(input, p) + k + (IF label = "done" THEN 1 ELSE 0) \in Nat
        <5>1. k \in Nat /\ p \in 1..2 /\ PassIs(input, r, label, p, first, second, returned)
          BY DEF RankIs
        <5>2. ReducedBefore(input, p) \in Nat
          <6>1. CASE p = 1
            BY <6>1 DEF ReducedBefore
          <6>2. CASE p = 2
            <7>1. FirstEnds(input)
              BY <5>1, <6>2 DEF PassIs
            <7>2. Reduced1(input) \in Nat
              BY <7>1, RankCounts
            <7> QED
              BY <6>2, <7>2 DEF ReducedBefore
          <6> QED
            BY <5>1, <6>1, <6>2
        <5> QED
          BY <5>1, <5>2
      <4> QED
        BY <4>1, <4>2
    <3>2. CASE q # r
      <4>1. LeftBehind(q)' = LeftBehind(q)
        BY <3>2 DEF LeftBehind, Writes
      <4>2. Len(reductions[s]) >= LeftBehind(q)
        BY DEF IInv, Skew
      <4>3. LeftBehind(q) \in Nat
        <5>1. iter[q] \in Nat /\ ReducedBefore(input, pass[q]) \in Nat
          BY RankParts, RankCounts
        <5> QED
          BY <5>1 DEF LeftBehind
      <4> QED
        BY <4>1, <4>2, <4>3
    <3> QED
      BY <3>1, <3>2
  <2> QED
    BY <2>1, <2>2, <2>3
<1>4. Skew'
  BY <1>3 DEF Skew
<1> QED
  BY <1>1, <1>2, <1>4 DEF IInv

\* A step within a pass.
LEMMA PassKeeps ==
  ASSUME IInv, NEW r \in Ranks, NEW label \in Labels \ {"done"}, NEW k \in Nat, NEW v,
         NEW marks, NEW sent, NEW given,
         RoundIs(input, ProblemAt(input, pass[r]), r, label, k, v, marks),
         CountsAre(input, label, pass[r], k, sent, given),
         MessagesAre(input, r, pass[r], sent), ReductionsAre(input, r, pass[r], given),
         input' = input, Writes(pc, pc', r, label), pass' = pass,
         Writes(iter, iter', r, k), DOMAIN cf_map' = 1..2,
         Writes(cf_map[pass[r]], cf_map'[pass[r]], r, v),
         \A q \in 1..2 : q # pass[r] => cf_map'[q] = cf_map[q],
         Writes(scratch, scratch', r, marks), Writes(mailbox, mailbox', r, sent),
         Writes(reductions, reductions', r, given), result' = result,
         Len(given) >= Len(reductions[r]),
         k = iter[r] \/ \A s \in Ranks : Len(reductions[s]) >= ReducedBefore(input, pass[r]) + k
  PROVE  IInv'
<1>1. pass[r] \in 1..2 /\ pc[r] \in Labels
      /\ PassIs(input, r, pc[r], pass[r], cf_map[1][r], cf_map[2][r], result[r])
  BY RankParts
<1> DEFINE first == IF pass[r] = 1 THEN v ELSE cf_map[1][r]
           second == IF pass[r] = 1 THEN cf_map[2][r] ELSE v
<1>2. (IF pass[r] = 1 THEN first ELSE second) = v
  OBVIOUS
<1>3. PassIs(input, r, label, pass[r], first, second, result[r])
  BY <1>1 DEF PassIs
<1>4. Shape
  BY DEF IInv
<1>5. Writes(cf_map[1], cf_map'[1], r, first) /\ Writes(cf_map[2], cf_map'[2], r, second)
  <2>1. CASE pass[r] = 1
    <3>1. cf_map'[2] = cf_map[2]
      BY <2>1
    <3> QED
      BY <1>4, <2>1, <3>1 DEF Writes
  <2>2. CASE pass[r] = 2
    <3>1. cf_map'[1] = cf_map[1]
      BY <2>2
    <3> QED
      BY <1>4, <2>2, <3>1 DEF Writes
  <2> QED
    BY <1>1, <2>1, <2>2
<1>6. Writes(pass, pass', r, pass[r]) /\ Writes(result, result', r, result[r])
  BY <1>4, WritesFacts DEF Shape
<1> HIDE DEF first, second
<1>7. RankIs(input, r, label, pass[r], k, first, second, marks, sent, given, result[r])
  BY <1>1, <1>2, <1>3 DEF RankIs
<1>8. \A s \in Ranks : Len(reductions[s]) >=
         ReducedBefore(input, pass[r]) + k + (IF label = "done" THEN 1 ELSE 0)
  <2>1. ReducedBefore(input, pass[r]) \in Nat
    BY RankCounts
  <2>2. ReducedBefore(input, pass[r]) + k + (IF label = "done" THEN 1 ELSE 0)
          = ReducedBefore(input, pass[r]) + k
    BY <2>1
  <2>3. CASE k = iter[r]
    <3>1. \A s \in Ranks : Len(reductions[s]) >= LeftBehind(r)
      BY DEF IInv, Skew
    <3>2. LeftBehind(r) >= ReducedBefore(input, pass[r]) + k /\ LeftBehind(r) \in Nat
      BY <2>1, <2>3 DEF LeftBehind
    <3>3. \A s \in Ranks : Len(reductions[s]) \in Nat
      <4>1. \A s \in Ranks : reductions[s] \in Seq(Nat)
        BY RankCounts
      <4> QED
        BY <4>1
    <3>4. ReducedBefore(input, pass[r]) + k \in Nat
      BY <2>1
    <3> QED
      BY <2>2, <3>1, <3>2, <3>3, <3>4
  <2> QED
    BY <2>2, <2>3
<1> QED
  BY <1>5, <1>6, <1>7, <1>8, FrameKeeps

LEMMA SetMapFacts ==
  ASSUME IInv, NEW r \in Ranks, NEW v,
         SetMap(r, v) \/ (cf_map' = cf_map /\ v = cf_map[pass[r]][r])
  PROVE  /\ DOMAIN cf_map' = 1..2
         /\ Writes(cf_map[pass[r]], cf_map'[pass[r]], r, v)
         /\ \A q \in 1..2 : q # pass[r] => cf_map'[q] = cf_map[q]
<1>1. Shape /\ pass[r] \in 1..2
  BY RankParts DEF IInv
<1>2. DOMAIN cf_map = 1..2 /\ DOMAIN cf_map[pass[r]] = Ranks
  BY <1>1 DEF Shape
<1>3. CASE SetMap(r, v)
  <2>1. cf_map' = [cf_map EXCEPT ![pass[r]] = [cf_map[pass[r]] EXCEPT ![r] = v]]
    BY <1>3 DEF SetMap
  <2>2. cf_map'[pass[r]] = [cf_map[pass[r]] EXCEPT ![r] = v]
    BY <1>1, <1>2, <2>1
  <2> QED
    BY <1>2, <2>1, <2>2, WritesFacts
<1>4. CASE cf_map' = cf_map /\ v = cf_map[pass[r]][r]
  BY <1>2, <1>4, WritesFacts
<1> QED
  BY <1>3, <1>4

\* The other variables of a step within a round.
LEMMA RoundWrites ==
  ASSUME IInv, NEW r \in Ranks, NEW label, Goto(r, label)
  PROVE  /\ Writes(pc, pc', r, label)
         /\ iter' = iter => Writes(iter, iter', r, iter[r])
         /\ scratch' = scratch => Writes(scratch, scratch', r, scratch[r])
         /\ mailbox' = mailbox => Writes(mailbox, mailbox', r, mailbox[r])
         /\ reductions' = reductions => Writes(reductions, reductions', r, reductions[r])
         /\ \A v : Send(r, v) => Writes(mailbox, mailbox', r, Append(mailbox[r], v))
         /\ \A v : scratch' = [scratch EXCEPT ![r] = v] => Writes(scratch, scratch', r, v)
         /\ \A c : reductions' = [reductions EXCEPT ![r] = Append(@, c)] =>
                     Writes(reductions, reductions', r, Append(reductions[r], c))
<1>1. /\ DOMAIN pc = Ranks /\ DOMAIN iter = Ranks /\ DOMAIN scratch = Ranks
      /\ DOMAIN mailbox = Ranks /\ DOMAIN reductions = Ranks
  BY DEF IInv, Shape
<1>2. Writes(pc, pc', r, label)
  BY <1>1, WritesFacts DEF Goto
<1>3. /\ iter' = iter => Writes(iter, iter', r, iter[r])
      /\ scratch' = scratch => Writes(scratch, scratch', r, scratch[r])
      /\ mailbox' = mailbox => Writes(mailbox, mailbox', r, mailbox[r])
      /\ reductions' = reductions => Writes(reductions, reductions', r, reductions[r])
  BY <1>1, WritesFacts
<1>4. ASSUME NEW v, Send(r, v)
      PROVE  Writes(mailbox, mailbox', r, Append(mailbox[r], v))
  BY <1>1, <1>4, WritesFacts DEF Send
<1>5. ASSUME NEW v, scratch' = [scratch EXCEPT ![r] = v]
      PROVE  Writes(scratch, scratch', r, v)
  BY <1>1, <1>5, WritesFacts
<1>6. ASSUME NEW c, reductions' = [reductions EXCEPT ![r] = Append(@, c)]
      PROVE  Writes(reductions, reductions', r, Append(reductions[r], c))
  BY <1>1, <1>6, WritesFacts
<1> QED
  BY <1>2, <1>3, <1>4, <1>5, <1>6

\* Entering an exchange.
LEMMA SendCounts ==
  ASSUME IInv, NEW r \in Ranks, NEW label \in Labels, NEW v \in Values,
         SentAt[label] = SentAt[pc[r]] + 1, GivenAt[label] = GivenAt[pc[r]],
         3*iter[r] + SentAt[label] >= 1,
         MessageIs(input, ProblemAt(input, pass[r]), r, 3*iter[r] + SentAt[label], v)
  PROVE  /\ CountsAre(input, label, pass[r], iter[r], Append(mailbox[r], v), reductions[r])
         /\ MessagesAre(input, r, pass[r], Append(mailbox[r], v))
<1> DEFINE b == SentBefore(input, pass[r])
           a == SentAt[pc[r]]
           t == 3*iter[r]
           n == Len(mailbox[r])
<1>1. /\ pass[r] \in 1..2 /\ iter[r] \in Nat /\ pc[r] \in Labels
      /\ MessagesAre(input, r, pass[r], mailbox[r])
  BY RankParts
<1>2. /\ b \in Nat /\ mailbox[r] \in Seq(Values) /\ reductions[r] \in Seq(Nat)
      /\ n = b + t + a
      /\ Len(reductions[r]) = ReducedBefore(input, pass[r]) + iter[r] + GivenAt[pc[r]]
  BY RankCounts
<1>3. t \in Nat /\ a \in Nat /\ SentAt[label] = a + 1
  BY <1>1, LabelFacts
<1> HIDE DEF a, b, n, t
<1>4. n >= b /\ (n + 1) - b = t + SentAt[label]
  <2>1. b \in Nat /\ n = b + t + a
    BY <1>2
  <2>2. n >= b /\ (n + 1) - b = t + (a + 1)
    BY <1>3, <2>1
  <2> QED
    BY <1>3, <2>2
<1>5. MessageIs(input, ProblemAt(input, pass[r]), r, (n + 1) - b, v)
  BY <1>4 DEF t
<1>6. /\ Append(mailbox[r], v) \in Seq(Values)
      /\ Len(Append(mailbox[r], v)) = n + 1
      /\ MessagesAre(input, r, pass[r], Append(mailbox[r], v))
  BY <1>1, <1>2, <1>4, <1>5, SendKeeps DEF n, b
<1>7. n + 1 = b + t + SentAt[label]
  BY <1>2, <1>3
<1>8. Len(Append(mailbox[r], v)) = SentBefore(input, pass[r]) + 3*iter[r] + SentAt[label]
  BY <1>6, <1>7 DEF b, t
<1> QED
  BY <1>2, <1>6, <1>8 DEF CountsAre

\* Staying in an exchange, or in none.
LEMMA StayCounts ==
  ASSUME IInv, NEW r \in Ranks, NEW label \in Labels,
         SentAt[label] = SentAt[pc[r]], GivenAt[label] = GivenAt[pc[r]]
  PROVE  /\ CountsAre(input, label, pass[r], iter[r], mailbox[r], reductions[r])
         /\ MessagesAre(input, r, pass[r], mailbox[r])
BY RankParts, RankCounts DEF CountsAre

\* In a step that gives nothing to a reduction.
LEMMA GivesNothing ==
  ASSUME IInv, NEW r \in Ranks
  PROVE  /\ ReductionsAre(input, r, pass[r], reductions[r])
         /\ Len(reductions[r]) >= Len(reductions[r])
<1>1. reductions[r] \in Seq(Nat)
  BY RankCounts
<1> QED
  BY <1>1, RankParts

LEMMA InitialMarkingKeeps ==
  ASSUME IInv, NEW r \in Ranks, InitialMarking(r)
  PROVE  IInv'
<1> DEFINE p == pass[r]
           P == ProblemAt(input, p)
           v == [i \in Rows(p, r) |-> InitialMark(p, i)]
<1>1. /\ input \in Inputs /\ p \in 1..2 /\ iter[r] = 0 /\ pc[r] = "start" /\ Found(p)
  BY RankParts, MatrixFound DEF InitialMarking, At, RoundIs
<1>2. v = Cut(Before(P)[0], RowsIn(input, P, r))
  BY <1>1, InitialIs
<1>3. /\ SetMap(r, v) /\ Send(r, v) /\ Goto(r, "exchange")
      /\ UNCHANGED <<input, pass, iter, scratch, reductions, result>>
  BY DEF InitialMarking
<1> HIDE DEF v, P, p
<1>4. v \in Values
  <2>1. 0 \in Nat
    OBVIOUS
  <2> QED
    BY <1>1, <1>2, <2>1, MessageTypes DEF P
<1>5. MessageIs(input, P, r, 3*iter[r] + SentAt["exchange"], v)
  <2>1. 3*iter[r] + SentAt["exchange"] = 1
    BY <1>1, LabelFacts
  <2>2. 0 \in Nat
    OBVIOUS
  <2> QED
    BY <1>2, <2>1, <2>2, MessagePlaces
<1>6. /\ CountsAre(input, "exchange", p, iter[r], Append(mailbox[r], v), reductions[r])
      /\ MessagesAre(input, r, p, Append(mailbox[r], v))
  <2>1. "exchange" \in Labels /\ SentAt["exchange"] = SentAt[pc[r]] + 1
        /\ GivenAt["exchange"] = GivenAt[pc[r]] /\ 3*iter[r] + SentAt["exchange"] >= 1
    BY <1>1, LabelFacts DEF Labels
  <2> QED
    BY <1>4, <1>5, <2>1, SendCounts DEF p, P
<1>7. RoundIs(input, P, r, "exchange", iter[r], v, scratch[r])
  BY <1>1, <1>2 DEF RoundIs
<1>8. /\ Writes(pc, pc', r, "exchange") /\ Writes(iter, iter', r, iter[r])
      /\ Writes(scratch, scratch', r, scratch[r])
      /\ Writes(mailbox, mailbox', r, Append(mailbox[r], v))
      /\ Writes(reductions, reductions', r, reductions[r])
  BY <1>3, RoundWrites
<1>9. "exchange" \in Labels \ {"done"} /\ iter[r] \in Nat
  BY <1>1 DEF Labels
<1> QED
  BY <1>3, <1>6, <1>7, <1>8, <1>9, SetMapFacts, GivesNothing, PassKeeps DEF p, P

\* What a rank hears from the neighbors that have arrived.
LEMMA Heard ==
  ASSUME IInv, NEW r \in Ranks, Arrived(r), SentAt[pc[r]] > 0,
         NEW n \in NeighborsIn(input, ProblemAt(input, pass[r]), r)
  PROVE  /\ n \in Ranks
         /\ MessageIs(input, ProblemAt(input, pass[r]), n, 3*iter[r] + SentAt[pc[r]],
                      Received(r, n))
<1>1. input \in Inputs /\ pass[r] \in 1..2 /\ Found(pass[r])
  BY RankParts, MatrixFound
<1>2. n \in Neighbors(pass[r], r) /\ n \in Ranks
  BY <1>1, MatricesFound DEF NeighborsIn
<1>3. Len(mailbox[n]) >= Len(mailbox[r])
  BY <1>2 DEF Arrived
<1> QED
  BY <1>2, <1>3, SameExchange

LEMMA ExchangeInitialKeeps ==
  ASSUME IInv, NEW r \in Ranks, ExchangeInitial(r)
  PROVE  IInv'
<1> DEFINE p == pass[r]
           P == ProblemAt(input, p)
           v == HaloFilled(r, map(r))
           m == Before(P)[0]
<1>1. /\ input \in Inputs /\ p \in 1..2 /\ iter[r] = 0 /\ pc[r] = "exchange" /\ Found(p)
      /\ map(r) = Cut(m, RowsIn(input, P, r))
  BY RankParts, MatrixFound DEF ExchangeInitial, At, RoundIs, map
<1>2. /\ SetMap(r, v) /\ Goto(r, "mark") /\ Arrived(r)
      /\ UNCHANGED <<input, pass, iter, scratch, mailbox, reductions, result>>
  BY DEF ExchangeInitial
<1>3. ASSUME NEW n \in NeighborsIn(input, P, r), NEW i \in RowsIn(input, P, n)
      PROVE  Received(r, n)[i] = m[i]
  <2>1. 3*iter[r] + SentAt[pc[r]] = 1 /\ SentAt[pc[r]] > 0
    BY <1>1, LabelFacts
  <2>2. MessageIs(input, P, n, 1, Received(r, n))
    BY <1>2, <2>1, Heard
  <2> DEFINE w == Received(r, n)
  <2>3. 0 \in Nat
    OBVIOUS
  <2> HIDE DEF w, P
  <2>4. w = Cut(Before(P)[0], RowsIn(input, P, n))
    BY <2>2, <2>3, MessagePlaces DEF w
  <2> QED
    BY <2>4 DEF Cut, w
<1>4. \A i \in RowsIn(input, P, r) : map(r)[i] = m[i]
  BY <1>1 DEF Cut
<1>5. v = Cut(m, RingIn(input, P, r))
  BY <1>1, <1>3, <1>4, ExchangeIs
<1> HIDE DEF v, P, p
<1>6. RoundIs(input, P, r, "mark", iter[r], v, scratch[r])
  BY <1>1, <1>5 DEF RoundIs
<1>7. /\ Writes(pc, pc', r, "mark") /\ Writes(iter, iter', r, iter[r])
      /\ Writes(scratch, scratch', r, scratch[r])
      /\ Writes(mailbox, mailbox', r, mailbox[r])
      /\ Writes(reductions, reductions', r, reductions[r])
  BY <1>2, RoundWrites
<1>8. "mark" \in Labels \ {"done"} /\ iter[r] \in Nat
  BY <1>1 DEF Labels
<1>9. /\ CountsAre(input, "mark", p, iter[r], mailbox[r], reductions[r])
      /\ MessagesAre(input, r, p, mailbox[r])
  BY <1>1, <1>8, LabelFacts, StayCounts DEF p
<1> QED
  BY <1>2, <1>6, <1>7, <1>8, <1>9, SetMapFacts, GivesNothing, PassKeeps DEF p, P

LEMMA MarkKeeps ==
  ASSUME IInv, NEW r \in Ranks, Mark(r)
  PROVE  IInv'
<1> DEFINE p == pass[r]
           P == ProblemAt(input, p)
           k == iter[r]
           v == IF p = 2 /\ k = 0 THEN map(r) ELSE Marked(p, map(r), Rows(p, r))
<1>1. /\ input \in Inputs /\ p \in 1..2 /\ k \in Nat /\ pc[r] = "mark" /\ Found(p)
      /\ map(r) = Cut(Before(P)[k], RingIn(input, P, r))
      /\ \A j \in 0..(k-1) : Open(P, j)
  BY RankParts, MatrixFound DEF Mark, At, RoundIs, map
<1>2. v = LocalMarks(input, P, k, r)
  BY <1>1, MarksAre
<1>3. /\ scratch' = [scratch EXCEPT ![r] = v] /\ Send(r, v) /\ Goto(r, "fold")
      /\ UNCHANGED <<input, pass, iter, cf_map, reductions, result>>
  BY DEF Mark
<1> HIDE DEF v, P, p, k
<1>4. v \in Values
  BY <1>1, <1>2, MessageTypes DEF P
<1>5. MessageIs(input, P, r, 3*k + SentAt["fold"], v)
  <2>1. 3*k + SentAt["fold"] = 3*k + 2
    BY LabelFacts
  <2> QED
    BY <1>1, <1>2, <2>1, MessagePlaces
<1>6. /\ CountsAre(input, "fold", p, k, Append(mailbox[r], v), reductions[r])
      /\ MessagesAre(input, r, p, Append(mailbox[r], v))
  <2>1. "fold" \in Labels /\ SentAt["fold"] = SentAt[pc[r]] + 1
        /\ GivenAt["fold"] = GivenAt[pc[r]]
    BY <1>1, LabelFacts DEF Labels
  <2>2. 3*k + SentAt["fold"] >= 1
    BY <1>1, LabelFacts
  <2> QED
    BY <1>4, <1>5, <2>1, <2>2, SendCounts DEF p, P, k
<1>7. RoundIs(input, P, r, "fold", k, map(r), v)
  BY <1>1, <1>2 DEF RoundIs
<1>8. /\ Writes(pc, pc', r, "fold") /\ Writes(iter, iter', r, k)
      /\ Writes(scratch, scratch', r, v)
      /\ Writes(mailbox, mailbox', r, Append(mailbox[r], v))
      /\ Writes(reductions, reductions', r, reductions[r])
  BY <1>3, RoundWrites DEF k
<1>9. "fold" \in Labels \ {"done"} /\ cf_map' = cf_map /\ map(r) = cf_map[pass[r]][r]
  BY <1>3 DEF Labels, map
<1> QED
  BY <1>1, <1>3, <1>6, <1>7, <1>8, <1>9, SetMapFacts, GivesNothing, PassKeeps DEF p, P, k

LEMMA FoldMarksKeeps ==
  ASSUME IInv, NEW r \in Ranks, FoldMarks(r)
  PROVE  IInv'
<1> DEFINE p == pass[r]
           P == ProblemAt(input, p)
           k == iter[r]
           v == MinTaken(r, scratch[r])
<1>1. /\ input \in Inputs /\ p \in 1..2 /\ k \in Nat /\ pc[r] = "fold" /\ Found(p)
      /\ map(r) = Cut(Before(P)[k], RingIn(input, P, r))
      /\ scratch[r] = LocalMarks(input, P, k, r)
      /\ \A j \in 0..(k-1) : Open(P, j)
  BY RankParts, MatrixFound DEF FoldMarks, At, RoundIs, map
<1>2. /\ scratch' = [scratch EXCEPT ![r] = v] /\ Send(r, v) /\ Goto(r, "marks") /\ Arrived(r)
      /\ UNCHANGED <<input, pass, iter, cf_map, reductions, result>>
  BY DEF FoldMarks
<1>3. ASSUME NEW n \in NeighborsIn(input, P, r)
      PROVE  Received(r, n) = LocalMarks(input, P, k, n)
  <2>1. 3*k + SentAt[pc[r]] = 3*k + 2 /\ SentAt[pc[r]] > 0
    BY <1>1, LabelFacts
  <2> DEFINE w == Received(r, n)
  <2> DEFINE l == 3*k + 2
  <2>2. MessageIs(input, P, n, l, w)
    BY <1>2, <2>1, Heard
  <2> HIDE DEF w, P, k
  <2>a. l = 3*k + 2 /\ k \in Nat
    BY <1>1
  <2> HIDE DEF l
  <2>3. w = LocalMarks(input, P, k, n)
    BY <2>a, <2>2, FoundAtPlace
  <2> QED
    BY <2>3 DEF w
<1>4. v = FoldedMarks(input, P, k, r)
  BY <1>1, <1>3, FoldIs
<1> HIDE DEF v, P, p, k
<1>5. v \in Values
  BY <1>1, <1>4, MessageTypes DEF P
<1>6. MessageIs(input, P, r, 3*k + SentAt["marks"], v)
  <2>1. 3*k + SentAt["marks"] = 3*k + 3
    BY LabelFacts
  <2> QED
    BY <1>1, <1>4, <2>1, MessagePlaces
<1>7. /\ CountsAre(input, "marks", p, k, Append(mailbox[r], v), reductions[r])
      /\ MessagesAre(input, r, p, Append(mailbox[r], v))
  <2>1. "marks" \in Labels /\ SentAt["marks"] = SentAt[pc[r]] + 1
        /\ GivenAt["marks"] = GivenAt[pc[r]]
    BY <1>1, LabelFacts DEF Labels
  <2>2. 3*k + SentAt["marks"] >= 1
    BY <1>1, LabelFacts
  <2> QED
    BY <1>5, <1>6, <2>1, <2>2, SendCounts DEF p, P, k
<1>8. RoundIs(input, P, r, "marks", k, map(r), v)
  BY <1>1, <1>4 DEF RoundIs
<1>9. /\ Writes(pc, pc', r, "marks") /\ Writes(iter, iter', r, k)
      /\ Writes(scratch, scratch', r, v)
      /\ Writes(mailbox, mailbox', r, Append(mailbox[r], v))
      /\ Writes(reductions, reductions', r, reductions[r])
  BY <1>2, RoundWrites DEF k
<1>10. "marks" \in Labels \ {"done"} /\ cf_map' = cf_map /\ map(r) = cf_map[pass[r]][r]
  BY <1>2 DEF Labels, map
<1> QED
  BY <1>1, <1>2, <1>7, <1>8, <1>9, <1>10, SetMapFacts, GivesNothing, PassKeeps DEF p, P, k

LEMMA ExchangeMarksKeeps ==
  ASSUME IInv, NEW r \in Ranks, ExchangeMarks(r)
  PROVE  IInv'
<1> DEFINE p == pass[r]
           P == ProblemAt(input, p)
           k == iter[r]
           mk == HaloFilled(r, scratch[r])
           v == [i \in DOMAIN mk |-> IF i \in Rows(pass[r], r)
                                     THEN Settled(pass[r], mk, i) ELSE map(r)[i]]
<1>1. /\ input \in Inputs /\ p \in 1..2 /\ k \in Nat /\ pc[r] = "marks" /\ Found(p)
      /\ map(r) = Cut(Before(P)[k], RingIn(input, P, r))
      /\ scratch[r] = FoldedMarks(input, P, k, r)
      /\ \A j \in 0..(k-1) : Open(P, j)
  BY RankParts, MatrixFound DEF ExchangeMarks, At, RoundIs, map
<1>2. /\ scratch' = [scratch EXCEPT ![r] = mk] /\ SetMap(r, v) /\ Send(r, v)
      /\ Goto(r, "exchangeCf") /\ Arrived(r)
      /\ UNCHANGED <<input, pass, iter, reductions, result>>
  BY DEF ExchangeMarks
<1>3. ASSUME NEW n \in NeighborsIn(input, P, r), NEW i \in RowsIn(input, P, n)
      PROVE  Received(r, n)[i] = Marking(P, k)[i]
  <2>1. 3*k + SentAt[pc[r]] = 3*k + 3 /\ SentAt[pc[r]] > 0
    BY <1>1, LabelFacts
  <2> DEFINE w == Received(r, n)
  <2> DEFINE l == 3*k + 3
  <2>2. MessageIs(input, P, n, l, w) /\ n \in Ranks
    BY <1>2, <2>1, Heard
  <2>3. i \in RingIn(input, P, n) /\ input.owner[i] = n
    BY <1>1, <2>2, RingFacts
  <2> HIDE DEF w, P, k
  <2>a. l = 3*k + 3 /\ k \in Nat
    BY <1>1
  <2> HIDE DEF l
  <2>4. w = FoldedMarks(input, P, k, n)
    BY <2>a, <2>2, FoundAtPlace
  <2>5. w[i] = Marking(P, k)[i]
    BY <2>3, <2>4 DEF FoldedMarks
  <2> QED
    BY <2>5 DEF w
<1>4. \A i \in RowsIn(input, P, r) : scratch[r][i] = Marking(P, k)[i]
  <2>1. \A i \in RowsIn(input, P, r) : i \in RingIn(input, P, r) /\ input.owner[i] = r
    BY <1>1, RingFacts
  <2> HIDE DEF P, k
  <2> QED
    BY <1>1, <2>1 DEF FoldedMarks
<1>5. mk = Cut(Marking(P, k), RingIn(input, P, r))
  <2> DEFINE m == Marking(P, k)
  <2>1. /\ \A i \in RowsIn(input, P, r) : scratch[r][i] = m[i]
        /\ \A n \in NeighborsIn(input, P, r) :
             \A i \in RowsIn(input, P, n) : Received(r, n)[i] = m[i]
    BY <1>3, <1>4
  <2> HIDE DEF m
  <2>2. HaloFilled(r, scratch[r]) = Cut(m, RingIn(input, P, r))
    BY <1>1, <2>1, ExchangeIs
  <2> QED
    BY <2>2 DEF m
<1>6. v = RoundOf(input, P, k, r)
  <2> HIDE DEF mk
  <2> QED
    BY <1>1, <1>5, SettleIs
<1> HIDE DEF v, P, p, k, mk
<1>7. v \in Values
  BY <1>1, <1>6, MessageTypes DEF P
<1>8. MessageIs(input, P, r, 3*k + SentAt["exchangeCf"], v)
  <2>1. 3*k + SentAt["exchangeCf"] = 3*k + 4
    BY LabelFacts
  <2> QED
    BY <1>1, <1>6, <2>1, MessagePlaces
<1>9. /\ CountsAre(input, "exchangeCf", p, k, Append(mailbox[r], v), reductions[r])
      /\ MessagesAre(input, r, p, Append(mailbox[r], v))
  <2>1. "exchangeCf" \in Labels /\ SentAt["exchangeCf"] = SentAt[pc[r]] + 1
        /\ GivenAt["exchangeCf"] = GivenAt[pc[r]]
    BY <1>1, LabelFacts DEF Labels
  <2>2. 3*k + SentAt["exchangeCf"] >= 1
    BY <1>1, LabelFacts
  <2> QED
    BY <1>7, <1>8, <2>1, <2>2, SendCounts DEF p, P, k
<1>10. RoundIs(input, P, r, "exchangeCf", k, v, mk)
  BY <1>1, <1>6 DEF RoundIs
<1>11. /\ Writes(pc, pc', r, "exchangeCf") /\ Writes(iter, iter', r, k)
       /\ Writes(scratch, scratch', r, mk)
       /\ Writes(mailbox, mailbox', r, Append(mailbox[r], v))
       /\ Writes(reductions, reductions', r, reductions[r])
  BY <1>2, RoundWrites DEF k
<1>12. "exchangeCf" \in Labels \ {"done"}
  BY DEF Labels
<1> QED
  BY <1>1, <1>2, <1>9, <1>10, <1>11, <1>12, SetMapFacts, GivesNothing, PassKeeps DEF p, P, k

LEMMA ExchangeRoundKeeps ==
  ASSUME IInv, NEW r \in Ranks, ExchangeRound(r)
  PROVE  IInv'
<1> DEFINE p == pass[r]
           P == ProblemAt(input, p)
           k == iter[r]
           c == Cardinality(Unassigned(r))
           v == HaloFilled(r, map(r))
           m == Before(P)[k+1]
<1>1. /\ input \in Inputs /\ p \in 1..2 /\ k \in Nat /\ pc[r] = "exchangeCf" /\ Found(p)
      /\ map(r) = RoundOf(input, P, k, r)
      /\ \A j \in 0..(k-1) : Open(P, j)
      /\ ReductionsAre(input, r, p, reductions[r])
  BY RankParts, MatrixFound DEF ExchangeRound, At, RoundIs, map
<1>2. /\ reductions' = [reductions EXCEPT ![r] = Append(@, c)] /\ SetMap(r, v)
      /\ Goto(r, "reduce") /\ Arrived(r)
      /\ UNCHANGED <<input, pass, iter, scratch, mailbox, result>>
  BY DEF ExchangeRound
<1>3. ASSUME NEW n \in Ranks, NEW i \in RowsIn(input, P, n)
      PROVE  RoundOf(input, P, k, n)[i] = m[i]
  <2>1. i \in RingIn(input, P, n) /\ input.owner[i] = n
    BY <1>1, RingFacts
  <2> HIDE DEF P, k
  <2> QED
    BY <2>1 DEF RoundOf
<1>4. ASSUME NEW n \in NeighborsIn(input, P, r), NEW i \in RowsIn(input, P, n)
      PROVE  Received(r, n)[i] = m[i]
  <2>1. 3*k + SentAt[pc[r]] = 3*k + 4 /\ SentAt[pc[r]] > 0
    BY <1>1, LabelFacts
  <2> DEFINE w == Received(r, n)
  <2> DEFINE l == 3*k + 4
  <2>2. MessageIs(input, P, n, l, w) /\ n \in Ranks
    BY <1>2, <2>1, Heard
  <2> HIDE DEF w, P, k
  <2>a. l = 3*k + 4 /\ k \in Nat
    BY <1>1
  <2> HIDE DEF l
  <2>3. w = RoundOf(input, P, k, n)
    BY <2>a, <2>2, FoundAtPlace
  <2> QED
    BY <1>3, <2>2, <2>3 DEF w
<1>5. v = Cut(m, RingIn(input, P, r))
  <2>1. /\ \A i \in RowsIn(input, P, r) : map(r)[i] = m[i]
        /\ \A n \in NeighborsIn(input, P, r) :
             \A i \in RowsIn(input, P, n) : Received(r, n)[i] = m[i]
    BY <1>1, <1>3, <1>4
  <2> HIDE DEF m
  <2> QED
    BY <1>1, <2>1, ExchangeIs
<1>6. c = LeftIn(input, P, r, k)
  BY <1>1, LeftIs
<1>7. c \in Nat
  <2>1. Unassigned(r) \in SUBSET Points /\ IsFiniteSet(Points)
    BY <1>1, InputFacts DEF Unassigned, Rows, FirstCoarse
  <2> QED
    BY <2>1, FS_Subset, FS_CardinalityType
<1> HIDE DEF v, P, p, k, c
<1>8. /\ mailbox[r] \in Seq(Values) /\ reductions[r] \in Seq(Nat)
      /\ Len(mailbox[r]) = SentBefore(input, p) + 3*k + SentAt[pc[r]]
      /\ Len(reductions[r]) = ReducedBefore(input, p) + k + GivenAt[pc[r]]
      /\ ReducedBefore(input, p) \in Nat
  BY RankCounts DEF p, k
<1>9. Len(reductions[r]) = ReducedBefore(input, p) + k
  BY <1>1, <1>8, LabelFacts
<1>10. /\ Append(reductions[r], c) \in Seq(Nat)
       /\ Len(Append(reductions[r], c)) = Len(reductions[r]) + 1
       /\ ReductionsAre(input, r, p, Append(reductions[r], c))
  <2>1. c = LeftIn(input, ProblemAt(input, p), r, k)
    BY <1>6 DEF P
  <2>2. p \in 1..2 /\ k \in Nat /\ ReductionsAre(input, r, p, reductions[r])
    BY <1>1
  <2>3. reductions[r] \in Seq(Nat) /\ ReducedBefore(input, p) \in Nat
    BY <1>8
  <2> QED
    BY <1>7, <1>9, <2>1, <2>2, <2>3, GiveKeeps
<1>11. CountsAre(input, "reduce", p, k, mailbox[r], Append(reductions[r], c))
  <2>1. SentAt["reduce"] = SentAt[pc[r]] /\ GivenAt["reduce"] = 1
    BY <1>1, LabelFacts
  <2>2. Len(Append(reductions[r], c)) = ReducedBefore(input, p) + k + GivenAt["reduce"]
    BY <1>1, <1>8, <1>9, <1>10, <2>1
  <2> QED
    BY <1>8, <1>10, <2>1, <2>2 DEF CountsAre
<1>12. MessagesAre(input, r, p, mailbox[r])
  BY RankParts DEF p
<1>13. RoundIs(input, P, r, "reduce", k, v, scratch[r])
  BY <1>1, <1>5 DEF RoundIs
<1>14. /\ Writes(pc, pc', r, "reduce") /\ Writes(iter, iter', r, k)
       /\ Writes(scratch, scratch', r, scratch[r])
       /\ Writes(mailbox, mailbox', r, mailbox[r])
       /\ Writes(reductions, reductions', r, Append(reductions[r], c))
  BY <1>2, RoundWrites DEF k
<1>15. "reduce" \in Labels \ {"done"} /\ Len(Append(reductions[r], c)) >= Len(reductions[r])
  <2>1. Len(reductions[r]) \in Nat
    BY <1>8
  <2> QED
    BY <1>10, <2>1 DEF Labels
<1> QED
  BY <1>1, <1>2, <1>10, <1>11, <1>12, <1>13, <1>14, <1>15, SetMapFacts, PassKeeps DEF p, P, k

\* What the ranks gave to the reduction that a rank leaves.
LEMMA SameReduction ==
  ASSUME IInv, NEW r \in Ranks, pc[r] = "reduce", NEW s \in Ranks,
         Len(reductions[s]) >= Len(reductions[r])
  PROVE  reductions[s][Len(reductions[r])] =
           LeftIn(input, ProblemAt(input, pass[r]), s, iter[r])
<1> DEFINE l == Len(reductions[r])
           k == iter[r]
           b == Reduced1(input)
<1>1. /\ input \in Inputs /\ pc[s] \in Labels /\ pass[r] \in 1..2
      /\ pass[s] \in 1..2 /\ k \in Nat /\ iter[s] \in Nat
      /\ ReductionsAre(input, s, pass[s], reductions[s])
  BY RankParts
<1>2. reductions[s] \in Seq(Nat) /\ reductions[r] \in Seq(Nat)
  BY RankCounts
<1>3. Len(reductions[s]) \in Nat /\ l \in Nat /\ Len(reductions[s]) >= l
  BY <1>2
<1>4. GivenAt[pc[r]] = 1 /\ GivenAt[pc[s]] \in 0..1
  BY <1>1, LabelFacts
<1>5. /\ l = ReducedBefore(input, pass[r]) + k + 1
      /\ Len(reductions[s]) = ReducedBefore(input, pass[s]) + iter[s] + GivenAt[pc[s]]
  BY <1>4, RankCounts
<1>6. /\ pass[r] = 2 => FirstEnds(input) /\ ReducedBefore(input, pass[r]) = b
      /\ pass[s] = 2 => FirstEnds(input)
      /\ pass[r] = 1 => ReducedBefore(input, pass[r]) = 0
      /\ pass[s] = 1 => ReducedBefore(input, pass[s]) = 0
      /\ FirstEnds(input) =>
            /\ b = LastOf(input) + 1 /\ LastOf(input) \in Nat
            /\ pass[r] = 1 => k <= LastOf(input)
            /\ pass[s] = 1 => iter[s] <= LastOf(input)
  BY RankCounts
<1> HIDE DEF l, k, b
<1>7. CASE pass[r] = 1
  <2>1. l = k + 1
    BY <1>1, <1>5, <1>6, <1>7
  <2>2. l \in 1..Len(reductions[s]) /\ l - 1 = k
    BY <1>1, <1>3, <2>1
  <2>3. pass[s] = 1 \/ l <= b
    BY <1>1, <1>6, <1>7, <2>1
  <2>4. reductions[s][l] = LeftIn(input, FirstProblem(input), s, l - 1)
    BY <1>1, <2>2, <2>3 DEF ReductionsAre, b
  <2> QED
    BY <1>7, <2>2, <2>4 DEF ProblemAt, l, k
<1>8. CASE pass[r] = 2
  <2>1. l = b + k + 1 /\ b = LastOf(input) + 1 /\ LastOf(input) \in Nat /\ FirstEnds(input)
    BY <1>5, <1>6, <1>8
  <2>2. b \in Nat
    BY <2>1
  <2>3. l \in 1..Len(reductions[s]) /\ (l - b) - 1 = k /\ l > b
    BY <1>1, <1>3, <2>1, <2>2
  <2>4. pass[s] = 2
    <3>1. CASE pass[s] = 1
      <4>1. /\ Len(reductions[s]) = iter[s] + GivenAt[pc[s]] /\ iter[s] <= LastOf(input)
            /\ iter[s] \in Nat /\ GivenAt[pc[s]] \in 0..1
        BY <1>1, <1>4, <1>5, <1>6, <2>1, <3>1
      <4>2. Len(reductions[s]) <= b
        BY <2>1, <4>1
      <4> QED
        BY <1>3, <2>2, <2>3, <4>2
    <3> QED
      BY <1>1, <3>1
  <2>5. reductions[s][l] = LeftIn(input, SecondProblem(input), s, (l - b) - 1)
    BY <1>1, <2>3, <2>4 DEF ReductionsAre, b
  <2> QED
    BY <1>8, <2>3, <2>5 DEF ProblemAt, l, k
<1> QED
  BY <1>1, <1>7, <1>8

\* A rank without open rows gives 0.
LEMMA LeftFacts ==
  ASSUME NEW in \in Inputs, NEW p \in 1..2, NEW P, P = ProblemAt(in, p), NEW k \in Nat,
         NEW s \in Ranks
  PROVE  /\ LeftIn(in, P, s, k) \in Nat
         /\ LeftIn(in, P, s, k) = 0 <=>
              \A i \in RowsIn(in, P, s) : Before(P)[k+1][i] # UNASSIGNED
<1> DEFINE U == {i \in RowsIn(in, P, s) : Before(P)[k+1][i] = UNASSIGNED}
<1>1. U \in SUBSET P.points /\ IsFiniteSet(P.points)
  BY ProblemFacts DEF RowsIn, IsProblem
<1>2. LeftIn(in, P, s, k) = Cardinality(U)
  BY DEF LeftIn
<1>3. U = {} <=> \A i \in RowsIn(in, P, s) : Before(P)[k+1][i] # UNASSIGNED
  OBVIOUS
<1> HIDE DEF U
<1> QED
  BY <1>1, <1>2, <1>3, FS_Subset, FS_CardinalityType, FS_EmptySet

\* The maximum is 0 when the round left no point, on any rank.
LEMMA MaximumIs ==
  ASSUME IInv, NEW r \in Ranks, pc[r] = "reduce", Reduced(r)
  PROVE  Maximum(r) = 0 <=> ~ Open(ProblemAt(input, pass[r]), iter[r])
<1> DEFINE P == ProblemAt(input, pass[r])
           k == iter[r]
           l == Len(reductions[r])
           w == [s \in Ranks |-> LeftIn(input, P, s, k)]
           S == {reductions[s][l] : s \in Ranks}
<1>1. input \in Inputs /\ pass[r] \in 1..2 /\ k \in Nat /\ IsFiniteSet(Ranks)
  BY RankParts, InputFacts
<1>2. \A s \in Ranks : reductions[s][l] = w[s]
  BY SameReduction DEF Reduced
<1>3. \A s \in Ranks : w[s] \in Nat
  BY <1>1, LeftFacts
<1>4. PICK top \in Ranks : \A s \in Ranks : w[s] <= w[top]
  <2> HIDE DEF w
  <2> QED
    BY <1>1, <1>3, GreatestOf
<1>5. Maximum(r) = w[top]
  <2>1. Maximum(r) = CHOOSE x \in S : \A y \in S : x >= y
    BY DEF Maximum, Max
  <2>2. S = {w[s] : s \in Ranks}
    BY <1>2
  <2> HIDE DEF S, w
  <2>3. w[top] \in S /\ \A y \in S : w[top] >= y
    BY <1>3, <1>4, <2>2
  <2>4. Maximum(r) \in S /\ \A y \in S : Maximum(r) >= y
    BY <2>1, <2>3
  <2>5. Maximum(r) \in Nat /\ w[top] \in Nat /\ Maximum(r) >= w[top] /\ w[top] >= Maximum(r)
    BY <1>3, <2>2, <2>3, <2>4
  <2> QED
    BY <2>5
<1>6. w[top] = 0 <=> \A s \in Ranks : w[s] = 0
  <2> HIDE DEF w
  <2> QED
    BY <1>3, <1>4
<1>7. (\A s \in Ranks : w[s] = 0) <=>
        (\A s \in Ranks : \A i \in RowsIn(input, P, s) : Before(P)[k+1][i] # UNASSIGNED)
  <2>1. P = ProblemAt(input, pass[r])
    OBVIOUS
  <2>2. ASSUME NEW s \in Ranks
        PROVE  w[s] = 0 <=> \A i \in RowsIn(input, P, s) : Before(P)[k+1][i] # UNASSIGNED
    <3>1. w[s] = LeftIn(input, P, s, k)
      OBVIOUS
    <3> HIDE DEF P, w, k
    <3>2. LeftIn(input, P, s, k) = 0 <=>
            \A i \in RowsIn(input, P, s) : Before(P)[k+1][i] # UNASSIGNED
      BY <1>1, <2>1, LeftFacts
    <3> QED
      BY <3>1, <3>2
  <2> HIDE DEF P, w, k
  <2> QED
    BY <2>2
<1>8. (\A s \in Ranks : \A i \in RowsIn(input, P, s) : Before(P)[k+1][i] # UNASSIGNED)
        <=> ~ Open(P, k)
  <2>1. \A i \in P.points : input.owner[i] \in Ranks
    BY <1>1, ProblemFacts, InputFacts
  <2> HIDE DEF P
  <2> QED
    BY <2>1 DEF Open, RowsIn
<1> QED
  BY <1>5, <1>6, <1>7, <1>8

LEMMA NextRoundKeeps ==
  ASSUME IInv, NEW r \in Ranks, NextRound(r)
  PROVE  IInv'
<1> DEFINE p == pass[r]
           P == ProblemAt(input, p)
           k == iter[r]
<1>1. /\ input \in Inputs /\ p \in 1..2 /\ k \in Nat /\ pc[r] = "reduce"
      /\ map(r) = Cut(Before(P)[k+1], RingIn(input, P, r))
      /\ \A j \in 0..(k-1) : Open(P, j)
      /\ MessagesAre(input, r, p, mailbox[r])
  BY RankParts DEF NextRound, At, RoundIs, map
<1>2. /\ iter' = [iter EXCEPT ![r] = @ + 1] /\ Goto(r, "mark") /\ Reduced(r) /\ Maximum(r) # 0
      /\ UNCHANGED <<input, pass, cf_map, scratch, mailbox, reductions, result>>
  BY DEF NextRound
<1>3. Open(P, k)
  BY <1>1, <1>2, MaximumIs
<1>4. /\ mailbox[r] \in Seq(Values) /\ reductions[r] \in Seq(Nat)
      /\ Len(mailbox[r]) = SentBefore(input, p) + 3*k + SentAt[pc[r]]
      /\ Len(reductions[r]) = ReducedBefore(input, p) + k + GivenAt[pc[r]]
      /\ ReducedBefore(input, p) \in Nat /\ SentBefore(input, p) \in Nat
  BY RankCounts
<1> HIDE DEF P, p, k
<1>5. /\ Len(mailbox[r]) = SentBefore(input, p) + 3*(k + 1) + SentAt["mark"]
      /\ Len(reductions[r]) = ReducedBefore(input, p) + (k + 1) + GivenAt["mark"]
      /\ Len(reductions[r]) = ReducedBefore(input, p) + (k + 1)
  <2>1. SentAt[pc[r]] = 4 /\ GivenAt[pc[r]] = 1 /\ SentAt["mark"] = 1 /\ GivenAt["mark"] = 0
    BY <1>1, LabelFacts
  <2> DEFINE c == 3*k
             d == 3*(k + 1)
             a == SentBefore(input, p)
             b == ReducedBefore(input, p)
             m == Len(mailbox[r])
             n == Len(reductions[r])
  <2>2. d = c + 3 /\ c \in Nat /\ k \in Nat
    BY <1>1
  <2>3. m = a + c + 4 /\ n = b + k + 1 /\ a \in Nat /\ b \in Nat
    BY <1>4, <2>1
  <2> HIDE DEF a, b, c, d, m, n
  <2>4. m = a + d + 1 /\ n = b + (k + 1) + 0 /\ n = b + (k + 1)
    BY <2>2, <2>3
  <2> QED
    BY <2>1, <2>4 DEF a, b, d, m, n
<1>6. CountsAre(input, "mark", p, k + 1, mailbox[r], reductions[r])
  BY <1>4, <1>5 DEF CountsAre
<1>7. RoundIs(input, P, r, "mark", k + 1, map(r), scratch[r])
  <2>1. \A j \in 0..((k+1)-1) : j \in 0..(k-1) \/ j = k
    BY <1>1
  <2> QED
    BY <1>1, <1>3, <2>1 DEF RoundIs
<1>8. Writes(iter, iter', r, k + 1)
  <2>1. DOMAIN iter = Ranks
    BY DEF IInv, Shape
  <2> QED
    BY <1>2, <2>1, WritesFacts DEF k
<1>9. /\ Writes(pc, pc', r, "mark")
      /\ Writes(scratch, scratch', r, scratch[r])
      /\ Writes(mailbox, mailbox', r, mailbox[r])
      /\ Writes(reductions, reductions', r, reductions[r])
  BY <1>2, RoundWrites
<1>10. /\ "mark" \in Labels \ {"done"} /\ cf_map' = cf_map /\ map(r) = cf_map[pass[r]][r]
       /\ k + 1 \in Nat
  BY <1>1, <1>2 DEF Labels, map
<1>11. \A s \in Ranks : Len(reductions[s]) >= ReducedBefore(input, p) + (k + 1)
  BY <1>2, <1>5 DEF Reduced
<1> QED
  BY <1>1, <1>2, <1>6, <1>7, <1>8, <1>9, <1>10, <1>11, SetMapFacts, GivesNothing, PassKeeps
     DEF p, P

\* What holds of the last round of a pass.
LEMMA LastRoundFacts ==
  ASSUME IInv, NEW r \in Ranks, LastRound(r)
  PROVE  /\ pc[r] = "reduce" /\ ~ Open(ProblemAt(input, pass[r]), iter[r])
         /\ \A s \in Ranks : Len(reductions[s]) >=
               ReducedBefore(input, pass[r]) + iter[r] + 1
         /\ pass[r] = 1 =>
              /\ FirstEnds(input) /\ LastOf(input) = iter[r] /\ Found(2)
              /\ \A s \in Ranks : Len(reductions[s]) >= Reduced1(input)
              /\ cf_map[1][r] = Cut(Before(FirstProblem(input))[LastOf(input) + 1],
                                    RingIn(input, FirstProblem(input), r))
<1> DEFINE P == ProblemAt(input, pass[r])
           k == iter[r]
<1>1. /\ input \in Inputs /\ pass[r] \in 1..2 /\ k \in Nat
      /\ RoundIs(input, P, r, pc[r], k, cf_map[pass[r]][r], scratch[r])
  BY RankParts
<1>2. pc[r] = "reduce" /\ Reduced(r) /\ Maximum(r) = 0
  BY DEF LastRound, At
<1>3. ~ Open(P, k)
  BY <1>2, MaximumIs
<1>4. \A s \in Ranks : Len(reductions[s]) >= ReducedBefore(input, pass[r]) + k + 1
  <2>1. Len(reductions[r]) = ReducedBefore(input, pass[r]) + k + 1
    <3>1. Len(reductions[r]) = ReducedBefore(input, pass[r]) + k + GivenAt[pc[r]]
      BY RankCounts
    <3> QED
      BY <1>2, <3>1, LabelFacts
  <2> QED
    BY <1>2, <2>1 DEF Reduced
<1>5. ASSUME pass[r] = 1
      PROVE  /\ FirstEnds(input) /\ LastOf(input) = k /\ Found(2)
             /\ \A s \in Ranks : Len(reductions[s]) >= Reduced1(input)
             /\ cf_map[1][r] = Cut(Before(FirstProblem(input))[LastOf(input) + 1],
                                   RingIn(input, FirstProblem(input), r))
  <2>1. P = FirstProblem(input)
    BY <1>5 DEF ProblemAt
  <2>2. FirstEnds(input)
    BY <1>1, <1>3, <2>1 DEF FirstEnds
  <2>3. /\ LastOf(input) \in Nat /\ k <= LastOf(input)
        /\ \A j \in 0..(LastOf(input) - 1) : Open(FirstProblem(input), j)
    <3>1. k <= LastOf(input) /\ LastOf(input) \in Nat
      BY <1>5, <2>2, RankCounts
    <3> QED
      BY <1>1, <2>2, <3>1, LastFacts
  <2>4. LastOf(input) = k
    <3>1. k \notin 0..(LastOf(input) - 1)
      BY <1>3, <2>1, <2>3
    <3> QED
      BY <1>1, <2>3, <3>1
  <2>5. ReducedBefore(input, pass[r]) = 0 /\ Reduced1(input) = LastOf(input) + 1
    BY <1>5, <2>2, RankCounts
  <2>6. \A s \in Ranks : Len(reductions[s]) >= Reduced1(input)
    BY <1>1, <1>4, <2>4, <2>5
  <2> QED
    BY <2>2, <2>4, <2>6, FirstSettled DEF Found
<1> QED
  BY <1>2, <1>3, <1>4, <1>5


\* A rank that returns keeps its last round.
LEMMA ReturnKeeps ==
  ASSUME IInv, NEW r \in Ranks, LastRound(r), NEW v, Return(r, v),
         PassIs(input, r, "done", pass[r], cf_map[1][r], cf_map[2][r], v)
  PROVE  IInv'
<1> DEFINE p == pass[r]
           P == ProblemAt(input, p)
           k == iter[r]
           map_ == IF p = 1 THEN cf_map[1][r] ELSE cf_map[2][r]
<1>1. /\ input \in Inputs /\ p \in 1..2 /\ k \in Nat
      /\ RoundIs(input, P, r, pc[r], k, cf_map[p][r], scratch[r])
      /\ MessagesAre(input, r, p, mailbox[r]) /\ ReductionsAre(input, r, p, reductions[r])
      /\ CountsAre(input, pc[r], p, k, mailbox[r], reductions[r])
  BY RankParts
<1>2. /\ pc[r] = "reduce" /\ ~ Open(P, k)
      /\ \A s \in Ranks : Len(reductions[s]) >= ReducedBefore(input, p) + k + 1
  BY LastRoundFacts
<1>3. RoundIs(input, P, r, "done", k, map_, scratch[r])
  <2>1. map_ = cf_map[p][r]
    BY <1>1
  <2> QED
    BY <1>1, <1>2, <2>1 DEF RoundIs
<1>4. CountsAre(input, "done", p, k, mailbox[r], reductions[r])
  <2>1. SentAt["done"] = SentAt[pc[r]] /\ GivenAt["done"] = GivenAt[pc[r]]
    BY <1>2, LabelFacts
  <2> QED
    BY <1>1, <2>1 DEF CountsAre
<1>5. RankIs(input, r, "done", p, k, cf_map[1][r], cf_map[2][r], scratch[r],
             mailbox[r], reductions[r], v)
  BY <1>1, <1>3, <1>4 DEF RankIs, Labels
<1>6. Shape
  BY DEF IInv
<1>7. /\ result' = [result EXCEPT ![r] = v] /\ pc' = [pc EXCEPT ![r] = "done"]
      /\ UNCHANGED <<input, pass, iter, cf_map, scratch, mailbox, reductions>>
  BY DEF Return, Goto
<1>8. /\ Writes(pc, pc', r, "done") /\ Writes(result, result', r, v)
      /\ Writes(pass, pass', r, p) /\ Writes(iter, iter', r, k)
      /\ Writes(scratch, scratch', r, scratch[r]) /\ Writes(mailbox, mailbox', r, mailbox[r])
      /\ Writes(reductions, reductions', r, reductions[r])
      /\ Writes(cf_map[1], cf_map'[1], r, cf_map[1][r])
      /\ Writes(cf_map[2], cf_map'[2], r, cf_map[2][r])
      /\ DOMAIN cf_map' = 1..2
  BY <1>6, <1>7, WritesFacts DEF Shape
<1>9. \A s \in Ranks : Len(reductions[s]) >=
         ReducedBefore(input, p) + k + (IF "done" = "done" THEN 1 ELSE 0)
  BY <1>2
<1>10. Len(reductions[r]) >= Len(reductions[r])
  <2>1. reductions[r] \in Seq(Nat)
    BY RankCounts
  <2> QED
    BY <2>1
<1> HIDE DEF p, k
<1> QED
  BY <1>5, <1>7, <1>8, <1>9, <1>10, FrameKeeps

LEMMA EndPmisKeeps ==
  ASSUME IInv, NEW r \in Ranks, EndPmis(r)
  PROVE  IInv'
<1>1. pass[r] \in 1..2 /\ PassIs(input, r, pc[r], pass[r], cf_map[1][r], cf_map[2][r], result[r])
  BY RankParts
<1>2. LastRound(r) /\ ~ input.aggressive /\ Return(r, cf_map[1][r])
  BY DEF EndPmis
<1>3. pass[r] = 1
  BY <1>1, <1>2 DEF PassIs
<1>4. PassIs(input, r, "done", pass[r], cf_map[1][r], cf_map[2][r], cf_map[1][r])
  BY <1>2, <1>3 DEF PassIs
<1> QED
  BY <1>2, <1>4, ReturnKeeps

LEMMA SkipSecondKeeps ==
  ASSUME IInv, NEW r \in Ranks, SkipSecond(r)
  PROVE  IInv'
<1>1. input \in Inputs
  BY RankParts
<1>2. LastRound(r) /\ pass[r] = 1 /\ Rows(2, r) = {} /\ Return(r, cf_map[1][r])
  BY DEF SkipSecond
<1>3. RowsIn(input, SecondProblem(input), r) = {}
  <2>1. Found(2)
    BY <1>2, LastRoundFacts
  <2>2. Rows(2, r) = RowsIn(input, ProblemAt(input, 2), r)
    BY <1>1, <2>1, MatricesFound
  <2> QED
    BY <1>2, <2>2 DEF ProblemAt
<1>4. PassIs(input, r, "done", pass[r], cf_map[1][r], cf_map[2][r], cf_map[1][r])
  BY <1>2, <1>3 DEF PassIs
<1> QED
  BY <1>2, <1>4, ReturnKeeps

LEMMA EndSecondKeeps ==
  ASSUME IInv, NEW r \in Ranks, EndSecond(r)
  PROVE  IInv'
<1> DEFINE v == Corrected(cf_map[1][r], cf_map[2][r])
<1>1. PassIs(input, r, pc[r], pass[r], cf_map[1][r], cf_map[2][r], result[r])
  BY RankParts
<1>2. LastRound(r) /\ pass[r] = 2 /\ Return(r, v)
  BY DEF EndSecond
<1>3. PassIs(input, r, "done", pass[r], cf_map[1][r], cf_map[2][r], v)
  BY <1>1, <1>2 DEF PassIs
<1> HIDE DEF v
<1> QED
  BY <1>2, <1>3, ReturnKeeps

\* The second pass begins where the reductions of the first end.
LEMMA BeginSecondKeeps ==
  ASSUME IInv, NEW r \in Ranks, BeginSecond(r)
  PROVE  IInv'
<1> DEFINE k == iter[r]
<1>1. /\ input \in Inputs /\ k \in Nat
      /\ MessagesAre(input, r, pass[r], mailbox[r])
      /\ ReductionsAre(input, r, pass[r], reductions[r])
  BY RankParts
<1>2. /\ LastRound(r) /\ input.aggressive /\ pass[r] = 1
      /\ pass' = [pass EXCEPT ![r] = 2] /\ iter' = [iter EXCEPT ![r] = 0]
      /\ pc' = [pc EXCEPT ![r] = "start"]
      /\ UNCHANGED <<input, cf_map, scratch, mailbox, reductions, result>>
  BY DEF BeginSecond, Goto
<1>3. /\ pc[r] = "reduce" /\ FirstEnds(input) /\ LastOf(input) = k
      /\ \A s \in Ranks : Len(reductions[s]) >= Reduced1(input)
      /\ cf_map[1][r] = Cut(Before(FirstProblem(input))[LastOf(input) + 1],
                            RingIn(input, FirstProblem(input), r))
  BY <1>2, LastRoundFacts
<1>4. /\ mailbox[r] \in Seq(Values) /\ reductions[r] \in Seq(Nat)
      /\ Len(mailbox[r]) = Sent1(input) /\ Sent1(input) \in Nat
      /\ Len(reductions[r]) = Reduced1(input) /\ Reduced1(input) \in Nat
  <2>1. /\ mailbox[r] \in Seq(Values) /\ reductions[r] \in Seq(Nat)
        /\ Len(mailbox[r]) = 0 + 3*k + SentAt[pc[r]]
        /\ Len(reductions[r]) = 0 + k + GivenAt[pc[r]]
    BY <1>2, RankCounts
  <2>2. SentAt[pc[r]] = 4 /\ GivenAt[pc[r]] = 1
    BY <1>3, LabelFacts
  <2>3. Sent1(input) = 3*k + 4 /\ Reduced1(input) = k + 1
    BY <1>3 DEF Sent1, Reduced1
  <2> QED
    BY <1>1, <2>1, <2>2, <2>3
<1> HIDE DEF k
<1>5. CountsAre(input, "start", 2, 0, mailbox[r], reductions[r])
  <2>1. SentAt["start"] = 0 /\ GivenAt["start"] = 0
    BY LabelFacts
  <2>2. SentBefore(input, 2) = Sent1(input) /\ ReducedBefore(input, 2) = Reduced1(input)
    BY DEF SentBefore, ReducedBefore
  <2> QED
    BY <1>4, <2>1, <2>2 DEF CountsAre
<1>6. MessagesAre(input, r, 2, mailbox[r])
  BY <1>1, <1>2, <1>4 DEF MessagesAre
<1>7. ReductionsAre(input, r, 2, reductions[r])
  BY <1>1, <1>2, <1>4 DEF ReductionsAre
<1>8. RoundIs(input, ProblemAt(input, 2), r, "start", 0, cf_map[2][r], scratch[r])
  BY DEF RoundIs
<1>9. PassIs(input, r, "start", 2, cf_map[1][r], cf_map[2][r], result[r])
  BY <1>2, <1>3 DEF PassIs
<1>10. RankIs(input, r, "start", 2, 0, cf_map[1][r], cf_map[2][r], scratch[r],
              mailbox[r], reductions[r], result[r])
  BY <1>5, <1>6, <1>7, <1>8, <1>9 DEF RankIs, Labels
<1>11. Shape
  BY DEF IInv
<1>12. /\ Writes(pc, pc', r, "start") /\ Writes(result, result', r, result[r])
       /\ Writes(pass, pass', r, 2) /\ Writes(iter, iter', r, 0)
       /\ Writes(scratch, scratch', r, scratch[r]) /\ Writes(mailbox, mailbox', r, mailbox[r])
       /\ Writes(reductions, reductions', r, reductions[r])
       /\ Writes(cf_map[1], cf_map'[1], r, cf_map[1][r])
       /\ Writes(cf_map[2], cf_map'[2], r, cf_map[2][r])
       /\ DOMAIN cf_map' = 1..2
  BY <1>2, <1>11, WritesFacts DEF Shape
<1>13. \A s \in Ranks : Len(reductions[s]) >=
         ReducedBefore(input, 2) + 0 + (IF "start" = "done" THEN 1 ELSE 0)
  <2>1. ReducedBefore(input, 2) + 0 + (IF "start" = "done" THEN 1 ELSE 0) = Reduced1(input)
    BY <1>4 DEF ReducedBefore
  <2> QED
    BY <1>3, <2>1
<1>14. Len(reductions[r]) >= Len(reductions[r])
  BY <1>4
<1> QED
  BY <1>2, <1>10, <1>12, <1>13, <1>14, FrameKeeps

\* In the beginning nothing is sent.
LEMMA InitHolds ==
  Init => IInv
<1> SUFFICES ASSUME Init PROVE IInv
  OBVIOUS
<1>1. Shape
  BY DEF Init, Shape
<1>2. input \in Inputs
  BY DEF Init
<1>3. SentAt["start"] = 0 /\ GivenAt["start"] = 0
  BY LabelFacts
<1>4. SentBefore(input, 1) = 0 /\ ReducedBefore(input, 1) = 0
  BY DEF SentBefore, ReducedBefore
<1>5. ASSUME NEW r \in Ranks
      PROVE  Rank(r)
  <2>1. /\ pc[r] = "start" /\ pass[r] = 1 /\ iter[r] = 0 /\ mailbox[r] = <<>>
        /\ reductions[r] = <<>>
    BY DEF Init
  <2>2. RoundIs(input, ProblemAt(input, 1), r, "start", 0, cf_map[1][r], scratch[r])
    BY DEF RoundIs
  <2>3. PassIs(input, r, "start", 1, cf_map[1][r], cf_map[2][r], result[r])
    BY DEF PassIs
  <2>4. CountsAre(input, "start", 1, 0, <<>>, <<>>)
    <3>1. <<>> \in Seq(Values) /\ <<>> \in Seq(Nat) /\ Len(<<>>) = 0
      OBVIOUS
    <3> QED
      BY <1>3, <1>4, <3>1 DEF CountsAre
  <2>5. MessagesAre(input, r, 1, <<>>) /\ ReductionsAre(input, r, 1, <<>>)
    BY DEF MessagesAre, ReductionsAre
  <2> QED
    BY <2>1, <2>2, <2>3, <2>4, <2>5 DEF Rank, RankIs, Labels
<1>6. Skew
  <2>1. ASSUME NEW r \in Ranks, NEW s \in Ranks
        PROVE  Len(reductions[s]) >= LeftBehind(r)
    <3>1. pc[r] = "start" /\ pass[r] = 1 /\ iter[r] = 0 /\ reductions[s] = <<>>
      BY DEF Init
    <3>2. LeftBehind(r) = 0
      BY <1>4, <3>1 DEF LeftBehind
    <3> QED
      BY <3>1, <3>2
  <2> QED
    BY <2>1 DEF Skew
<1> QED
  BY <1>1, <1>5, <1>6 DEF IInv

\* Every step keeps it.
LEMMA StepKeeps ==
  IInv /\ [Next]_vars => IInv'
<1> SUFFICES ASSUME IInv, [Next]_vars PROVE IInv'
  OBVIOUS
<1>1. ASSUME NEW r \in Ranks, RankStep(r)
      PROVE  IInv'
  <2>1. CASE InitialMarking(r)
    BY <2>1, InitialMarkingKeeps
  <2>2. CASE ExchangeInitial(r)
    BY <2>2, ExchangeInitialKeeps
  <2>3. CASE Mark(r)
    BY <2>3, MarkKeeps
  <2>4. CASE FoldMarks(r)
    BY <2>4, FoldMarksKeeps
  <2>5. CASE ExchangeMarks(r)
    BY <2>5, ExchangeMarksKeeps
  <2>6. CASE ExchangeRound(r)
    BY <2>6, ExchangeRoundKeeps
  <2>7. CASE NextRound(r)
    BY <2>7, NextRoundKeeps
  <2>8. CASE EndPmis(r)
    BY <2>8, EndPmisKeeps
  <2>9. CASE SkipSecond(r)
    BY <2>9, SkipSecondKeeps
  <2>10. CASE BeginSecond(r)
    BY <2>10, BeginSecondKeeps
  <2>11. CASE EndSecond(r)
    BY <2>11, EndSecondKeeps
  <2> QED
    BY <1>1, <2>1, <2>2, <2>3, <2>4, <2>5, <2>6, <2>7, <2>8, <2>9, <2>10, <2>11
       DEF RankStep
<1>2. CASE UNCHANGED vars
  BY <1>2 DEF vars, IInv, Shape, Rank, Skew, LeftBehind
<1> QED
  BY <1>1, <1>2 DEF Next

\* Every map, message and reduction of a rank is a part of the rounds that one
\* rank with the whole matrix would make (classical/selectors/pmis.cu and
\* aggressive_pmis.cu, the device versions).
THEOREM RanksMakeTheSameRounds ==
  Spec => []IInv
<1>1. Init => IInv
  BY InitHolds
<1>2. IInv /\ [Next]_vars => IInv'
  BY StepKeeps
<1> QED
  BY <1>1, <1>2, PTL DEF Spec

-----------------------------------------------------------------------------
(* What the invariant says of the marks. *)

\* The mark an owner has for a point is that of some round.
LEMMA KnownMark ==
  ASSUME IInv, NEW p \in 1..2, NEW i \in Known(p)
  PROVE  /\ Found(p) /\ i \in ProblemAt(input, p).points /\ owner[i] \in Ranks
         /\ \E t \in Nat : MarkOf(p, i) = Before(ProblemAt(input, p))[t][i]
<1> DEFINE P == ProblemAt(input, p)
<1>1. PICK r \in Ranks : Started(p, r) /\ i \in Rows(p, r)
  BY DEF Known
<1>2. /\ input \in Inputs /\ pc[r] \in Labels /\ pass[r] \in 1..2 /\ iter[r] \in Nat
      /\ RoundIs(input, ProblemAt(input, pass[r]), r, pc[r], iter[r],
                 cf_map[pass[r]][r], scratch[r])
      /\ PassIs(input, r, pc[r], pass[r], cf_map[1][r], cf_map[2][r], result[r])
  BY RankParts
<1>3. Found(p)
  <2>1. p = 1 \/ pass[r] = 2
    BY <1>1, <1>2 DEF Started
  <2> QED
    BY <2>1, MatrixFound DEF Found
<1>4. i \in RowsIn(input, P, r)
  BY <1>1, <1>2, <1>3, MatricesFound
<1>5. /\ i \in P.points /\ input.owner[i] = r /\ i \in RingIn(input, P, r)
      /\ MarkOf(p, i) = cf_map[p][r][i]
  BY <1>2, <1>4, RingFacts DEF MarkOf, owner
<1>6. CASE pass[r] = p
  <2> DEFINE k == iter[r]
  <2>1. pc[r] # "start"
    BY <1>1, <1>2, <1>6 DEF Started, At
  <2>2. RoundIs(input, P, r, pc[r], k, cf_map[p][r], scratch[r])
    BY <1>2, <1>6
  <2>3. k \in Nat /\ k + 1 \in Nat
    BY <1>2
  <2> HIDE DEF P, k
  <2>4. CASE pc[r] = "exchange"
    <3>1. cf_map[p][r][i] = Before(P)[0][i]
      BY <1>4, <2>2, <2>4 DEF RoundIs, Cut
    <3> QED
      BY <1>3, <1>5, <3>1 DEF P, owner
  <2>5. CASE pc[r] \in {"mark", "fold", "marks"}
    <3>1. cf_map[p][r][i] = Before(P)[k][i]
      BY <1>5, <2>2, <2>5 DEF RoundIs, Cut
    <3> QED
      BY <1>3, <1>5, <2>3, <3>1 DEF P, owner
  <2>6. CASE pc[r] = "exchangeCf"
    <3>1. cf_map[p][r][i] = Before(P)[k+1][i]
      BY <1>5, <2>2, <2>6 DEF RoundIs, RoundOf
    <3> QED
      BY <1>3, <1>5, <2>3, <3>1 DEF P, owner
  <2>7. CASE pc[r] \in {"reduce", "done"}
    <3>1. cf_map[p][r][i] = Before(P)[k+1][i]
      BY <1>5, <2>2, <2>7 DEF RoundIs, Cut
    <3> QED
      BY <1>3, <1>5, <2>3, <3>1 DEF P, owner
  <2> QED
    BY <1>2, <2>1, <2>4, <2>5, <2>6, <2>7 DEF Labels
<1>7. CASE pass[r] # p
  <2>1. p = 1 /\ pass[r] = 2
    BY <1>1, <1>2, <1>7 DEF Started
  <2>2. /\ FirstEnds(input) /\ P = FirstProblem(input)
        /\ cf_map[p][r] = Cut(Before(P)[LastOf(input) + 1], RingIn(input, P, r))
    BY <1>2, <2>1 DEF PassIs, ProblemAt
  <2>3. LastOf(input) + 1 \in Nat
    BY <1>2, <2>2, LastFacts
  <2> HIDE DEF P
  <2>4. cf_map[p][r][i] = Before(P)[LastOf(input) + 1][i]
    BY <1>5, <2>2 DEF Cut
  <2> QED
    BY <1>3, <1>5, <2>3, <2>4 DEF P, owner
<1> QED
  BY <1>6, <1>7

\* A rank leaves the first pass when all have its last map.
LEMMA FirstEnded ==
  ASSUME IInv, NEW r \in Ranks, Ended(1, r)
  PROVE  /\ FirstEnds(input)
         /\ \A s \in Ranks : Len(reductions[s]) >= Reduced1(input)
<1>1. /\ input \in Inputs /\ pass[r] \in 1..2 /\ iter[r] \in Nat
      /\ RoundIs(input, ProblemAt(input, pass[r]), r, pc[r], iter[r],
                 cf_map[pass[r]][r], scratch[r])
  BY RankParts
<1>2. CASE pass[r] = 2
  BY <1>2, MatrixFound
<1>3. CASE pass[r] = 1
  <2>1. pc[r] = "done"
    BY <1>3 DEF Ended, At
  <2>2. ~ Open(FirstProblem(input), iter[r])
    BY <1>1, <1>3, <2>1 DEF RoundIs, ProblemAt
  <2>3. FirstEnds(input)
    BY <1>1, <2>2 DEF FirstEnds
  <2>4. LastOf(input) = iter[r]
    <3>1. iter[r] <= LastOf(input)
      BY <1>3, <2>3, RankCounts
    <3>2. /\ LastOf(input) \in Nat
          /\ \A j \in 0..(LastOf(input) - 1) : Open(FirstProblem(input), j)
      BY <1>1, <2>3, LastFacts
    <3>3. iter[r] \notin 0..(LastOf(input) - 1)
      BY <2>2, <3>2
    <3> QED
      BY <1>1, <3>1, <3>2, <3>3
  <2>5. LeftBehind(r) = Reduced1(input)
    <3>1. ReducedBefore(input, pass[r]) = 0
      BY <1>3, RankCounts
    <3> QED
      BY <1>1, <2>1, <2>4, <3>1 DEF LeftBehind, Reduced1
  <2> QED
    BY <2>3, <2>5 DEF IInv, Skew
<1> QED
  BY <1>1, <1>2, <1>3

\* In a pass that a rank has ended, all points have their last mark.
LEMMA PassEnded ==
  ASSUME IInv, NEW p \in 1..2, NEW r \in Ranks, Ended(p, r)
  PROVE  /\ Found(p)
         /\ \E n \in Nat :
              /\ ~ Open(ProblemAt(input, p), n)
              /\ \A i \in ProblemAt(input, p).points :
                   /\ i \in Known(p)
                   /\ MarkOf(p, i) = Before(ProblemAt(input, p))[n+1][i]
<1> DEFINE P == ProblemAt(input, p)
<1>1. /\ input \in Inputs /\ pass[r] \in 1..2 /\ iter[r] \in Nat
      /\ RoundIs(input, ProblemAt(input, pass[r]), r, pc[r], iter[r],
                 cf_map[pass[r]][r], scratch[r])
  BY RankParts
<1>2. CASE p = 1
  <2> DEFINE n == LastOf(input)
  <2>1. P = FirstProblem(input) /\ P.points = Points /\ Found(p)
    BY <1>2 DEF ProblemAt, FirstProblem, Found
  <2>2. /\ FirstEnds(input)
        /\ \A s \in Ranks : Len(reductions[s]) >= Reduced1(input)
    BY <1>2, FirstEnded
  <2>3. n \in Nat /\ ~ Open(FirstProblem(input), n) /\ Reduced1(input) = n + 1
    BY <1>1, <2>2, LastFacts DEF Reduced1
  <2>4. \A i \in Points : MarkOf(p, i) = Before(FirstProblem(input))[n + 1][i]
    BY <1>2, <2>2, FirstSettled DEF MarkOf
  <2> HIDE DEF n
  <2>5. ASSUME NEW i \in Points
        PROVE  i \in Known(p)
    <3> DEFINE s == input.owner[i]
    <3>1. s \in Ranks
      BY <1>1, InputFacts
    <3>2. /\ pass[s] \in 1..2 /\ pc[s] \in Labels /\ iter[s] \in Nat
          /\ RoundIs(input, ProblemAt(input, pass[s]), s, pc[s], iter[s],
                     cf_map[pass[s]][s], scratch[s])
      BY <3>1, RankParts
    <3>3. ASSUME pass[s] = 1, pc[s] = "start"
          PROVE  FALSE
      <4>1. /\ Len(reductions[s]) = ReducedBefore(input, pass[s]) + iter[s] + GivenAt[pc[s]]
            /\ ReducedBefore(input, pass[s]) = 0
        BY <3>1, <3>3, RankCounts
      <4>2. GivenAt[pc[s]] = 0 /\ iter[s] = 0
        BY <3>2, <3>3, LabelFacts DEF RoundIs
      <4>3. Len(reductions[s]) = 0 /\ Len(reductions[s]) >= n + 1
        BY <2>2, <2>3, <3>1, <4>1, <4>2
      <4> QED
        BY <2>3, <4>3
    <3>4. Started(p, s)
      BY <1>2, <3>2, <3>3 DEF Started, At
    <3>5. i \in Rows(p, s)
      BY <1>2 DEF Rows, owner
    <3> QED
      BY <3>1, <3>4, <3>5 DEF Known
  <2> HIDE DEF P
  <2>6. \E m \in Nat : /\ ~ Open(P, m)
                       /\ \A i \in P.points : i \in Known(p) /\ MarkOf(p, i) = Before(P)[m+1][i]
    BY <2>1, <2>3, <2>4, <2>5
  <2> QED
    BY <2>1, <2>6 DEF P
<1>3. CASE p = 2
  <2> DEFINE k == iter[r]
             b == Reduced1(input)
  <2>1. pass[r] = 2 /\ pc[r] = "done"
    BY <1>1, <1>3 DEF Ended, At
  <2>2. ~ Open(P, k) /\ k \in Nat
    BY <1>1, <1>3, <2>1 DEF RoundIs
  <2>3. Found(p) /\ FirstEnds(input)
    BY <1>3, <2>1, MatrixFound
  <2>4. b \in Nat /\ LastOf(input) \in Nat /\ b = LastOf(input) + 1
    BY <2>3, RankCounts
  <2>5. \A s \in Ranks : Len(reductions[s]) >= b + k + 1
    <3>1. LeftBehind(r) = b + k + 1
      BY <2>1 DEF LeftBehind, ReducedBefore
    <3> QED
      BY <3>1 DEF IInv, Skew
  <2> HIDE DEF k, b
  <2>6. ASSUME NEW s \in Ranks
        PROVE  /\ pass[s] = 2 /\ pc[s] \in {"reduce", "done"}
               /\ cf_map[p][s] = Cut(Before(P)[k+1], RingIn(input, P, s))
    <3>1. /\ pass[s] \in 1..2 /\ pc[s] \in Labels /\ iter[s] \in Nat
          /\ RoundIs(input, ProblemAt(input, pass[s]), s, pc[s], iter[s],
                     cf_map[pass[s]][s], scratch[s])
      BY RankParts
    <3>2. /\ Len(reductions[s]) = ReducedBefore(input, pass[s]) + iter[s] + GivenAt[pc[s]]
          /\ GivenAt[pc[s]] \in 0..1
      BY <3>1, RankCounts, LabelFacts
    <3>3. pass[s] = 2
      <4>1. ASSUME pass[s] = 1
            PROVE  FALSE
        <5>1. ReducedBefore(input, pass[s]) = 0 /\ iter[s] <= LastOf(input)
          BY <2>3, <4>1, RankCounts
        <5>2. Len(reductions[s]) >= b + k + 1
          BY <2>5
        <5> QED
          BY <2>2, <2>4, <3>1, <3>2, <5>1, <5>2
      <4> QED
        BY <3>1, <4>1
    <3>4. RoundIs(input, P, s, pc[s], iter[s], cf_map[p][s], scratch[s])
      BY <1>3, <3>1, <3>3
    <3>5. iter[s] <= k
      <4>1. k \notin 0..(iter[s] - 1)
        BY <2>2, <3>4 DEF RoundIs
      <4> QED
        BY <2>2, <3>1, <4>1
    <3>6. iter[s] = k /\ GivenAt[pc[s]] = 1
      <4>1. ReducedBefore(input, pass[s]) = b /\ Len(reductions[s]) >= b + k + 1
        BY <2>5, <3>3 DEF b, ReducedBefore
      <4> QED
        BY <2>2, <2>4, <3>1, <3>2, <3>5, <4>1
    <3>7. pc[s] \in {"reduce", "done"}
      BY <3>1, <3>6, LabelFacts
    <3> QED
      BY <3>3, <3>4, <3>6, <3>7 DEF RoundIs
  <2>7. ASSUME NEW i \in P.points
        PROVE  i \in Known(p) /\ MarkOf(p, i) = Before(P)[k+1][i]
    <3> DEFINE s == input.owner[i]
    <3>1. i \in Points
      BY <1>1, ProblemFacts
    <3>2. s \in Ranks
      BY <1>1, <3>1, InputFacts
    <3>3. i \in RowsIn(input, P, s)
      BY DEF RowsIn
    <3>4. i \in Rows(p, s) /\ i \in RingIn(input, P, s)
      BY <1>1, <2>3, <3>2, <3>3, MatricesFound, RingFacts
    <3>5. Started(p, s)
      BY <1>3, <2>6, <3>2 DEF Started, At
    <3>6. i \in Known(p)
      BY <3>2, <3>4, <3>5 DEF Known
    <3>7. MarkOf(p, i) = cf_map[p][s][i]
      BY DEF MarkOf, owner
    <3> HIDE DEF P, s
    <3>8. cf_map[p][s][i] = Before(P)[k+1][i]
      BY <2>6, <3>2, <3>4 DEF Cut
    <3> QED
      BY <3>6, <3>7, <3>8
  <2> HIDE DEF P
  <2>8. \E m \in Nat : /\ ~ Open(P, m)
                       /\ \A i \in P.points : i \in Known(p) /\ MarkOf(p, i) = Before(P)[m+1][i]
    BY <2>2, <2>7
  <2> QED
    BY <2>3, <2>8 DEF P
<1> QED
  BY <1>2, <1>3

-----------------------------------------------------------------------------
(* The properties. *)

LEMMA HalosFromInvariant ==
  IInv => HalosAgree
<1> SUFFICES ASSUME IInv, NEW r \in Ranks, NEW s \in Ranks,
                    {pc[r], pc[s]} \subseteq {"mark", "fold", "marks"},
                    pass[r] = pass[s], iter[r] = iter[s],
                    NEW i \in Halo(pass[r], r), owner[i] = s
             PROVE  map(r)[i] = map(s)[i]
  BY DEF HalosAgree
<1> DEFINE p == pass[r]
           k == iter[r]
           P == ProblemAt(input, p)
<1>1. /\ input \in Inputs /\ p \in 1..2 /\ Found(p)
      /\ RoundIs(input, P, r, pc[r], k, cf_map[p][r], scratch[r])
      /\ RoundIs(input, P, s, pc[s], k, cf_map[p][s], scratch[s])
  BY RankParts, MatrixFound
<1>2. /\ map(r) = Cut(Before(P)[k], RingIn(input, P, r))
      /\ map(s) = Cut(Before(P)[k], RingIn(input, P, s))
  BY <1>1 DEF RoundIs, map
<1>3. i \in HaloIn(input, P, r) /\ i \in RingIn(input, P, r) /\ input.owner[i] # r
  <2>1. Halo(p, r) = HaloIn(input, P, r)
    BY <1>1, MatricesFound
  <2> HIDE DEF P
  <2> QED
    BY <2>1 DEF RingIn, HaloIn
<1>4. i \in RingIn(input, P, s)
  <2>1. i \in RowsIn(input, P, s)
    BY <1>1, <1>3, RingFacts DEF owner
  <2> QED
    BY <1>1, <2>1, RingFacts
<1> HIDE DEF P, k, p
<1> QED
  BY <1>2, <1>3, <1>4 DEF Cut

\* When a round begins, the copy of a point in a halo is what its owner has,
\* so that all ranks compute the marks of the round from one map
\* (pmis.cu: exchange_halo() of cf_map at the end of each round).
THEOREM RoundsStartFromOneMap ==
  Spec => []HalosAgree
<1>1. IInv => HalosAgree
  BY HalosFromInvariant
<1> QED
  BY <1>1, RanksMakeTheSameRounds, PTL

\* Marks of two owners who are in different rounds.
LEMMA ApartFromInvariant ==
  IInv => CoarsePointsApart
<1> SUFFICES ASSUME IInv, NEW p \in 1..2, NEW i \in Known(p), NEW j \in Known(p),
                    i # j, {<<i, j>>, <<j, i>>} \subseteq Strong(p),
                    Weight(p, i) # Weight(p, j),
                    MarkOf(p, i) = COARSE, MarkOf(p, j) = COARSE
             PROVE  FALSE
  BY DEF CoarsePointsApart
<1> DEFINE P == ProblemAt(input, p)
<1>1. input \in Inputs /\ IsProblem(P)
  BY ProblemFacts DEF IInv, Shape
<1>2. Found(p) /\ i \in P.points /\ j \in P.points
  BY KnownMark
<1>3. PICK t \in Nat : COARSE = Before(P)[t][i]
  BY KnownMark
<1>4. PICK u \in Nat : COARSE = Before(P)[u][j]
  BY KnownMark
<1>5. /\ <<i, j>> \in P.edges /\ <<j, i>> \in P.edges
      /\ WeightIn(P, i) # WeightIn(P, j)
  BY <1>1, <1>2, MatricesFound
<1>6. COARSE # UNASSIGNED
  BY DEF COARSE, UNASSIGNED
<1> HIDE DEF P
<1>7. PICK n \in Nat : t <= n /\ u <= n
  <2>1. CASE t <= u
    BY <2>1
  <2>2. CASE u <= t
    BY <2>2
  <2> QED
    BY <2>1, <2>2
<1>8. Before(P)[n][i] = COARSE /\ Before(P)[n][j] = COARSE
  BY <1>1, <1>2, <1>3, <1>4, <1>6, <1>7, DecidedStays
<1>9. ApartIn(P, Before(P)[n])
  BY <1>1, AlwaysApart
<1> QED
  BY <1>2, <1>5, <1>8, <1>9 DEF ApartIn

\* Points that a round made fine, in a pass that has ended.
LEMMA CoveredFromInvariant ==
  IInv => FinePointsCovered
<1> SUFFICES ASSUME IInv, NEW p \in 1..2, NEW i \in Known(p), Ended(p, owner[i]),
                    InitialMark(p, i) = UNASSIGNED, MarkOf(p, i) = FINE
             PROVE  \E j \in Known(p) : <<i, j>> \in Strong(p) /\ MarkOf(p, j) = COARSE
  BY DEF FinePointsCovered
<1> DEFINE P == ProblemAt(input, p)
           r == owner[i]
<1>1. input \in Inputs /\ IsProblem(P)
  BY ProblemFacts DEF IInv, Shape
<1>2. Found(p) /\ i \in P.points /\ r \in Ranks
  BY KnownMark
<1>3. PICK n \in Nat : \A j \in P.points : /\ j \in Known(p)
                                           /\ MarkOf(p, j) = Before(P)[n+1][j]
  BY <1>2, PassEnded
<1>4. Strong(p) = P.edges /\ i \in Rows(p, r)
  <2>1. Strong(p) = P.edges /\ Rows(p, r) = RowsIn(input, P, r)
    BY <1>1, <1>2, MatricesFound
  <2> QED
    BY <1>2, <2>1 DEF RowsIn, owner
<1>5. Initially(P)[i] = UNASSIGNED
  <2>1. [j \in Rows(p, r) |-> InitialMark(p, j)] = Cut(Before(P)[0], RowsIn(input, P, r))
    BY <1>1, <1>2, InitialIs
  <2>2. Rows(p, r) = RowsIn(input, P, r) /\ Before(P)[0] = Initially(P)
    BY <1>1, <1>2, MatricesFound, BeforeFacts
  <2> HIDE DEF P, r
  <2>3. [j \in Rows(p, r) |-> InitialMark(p, j)][i] = InitialMark(p, i)
    BY <1>4
  <2>4. Cut(Before(P)[0], RowsIn(input, P, r))[i] = Initially(P)[i]
    BY <1>4, <2>2 DEF Cut
  <2> QED
    BY <2>1, <2>3, <2>4
<1>6. n + 1 \in Nat /\ Before(P)[n+1][i] = FINE
  BY <1>2, <1>3
<1> HIDE DEF P
<1>7. \E j \in P.points : <<i, j>> \in P.edges /\ Before(P)[n+1][j] = COARSE
  BY <1>1, <1>2, <1>5, <1>6, AlwaysCovered
<1> QED
  BY <1>3, <1>4, <1>7

\* The coarse points of each pass are a maximal independent set of those the
\* rounds decide on, although marks are made by ranks that see their halo
\* only and that are in different rounds (pmis.cu, aggressive_pmis.cu).
THEOREM CoarsePointsAreMaximal ==
  Spec => []CoarsePointsMaximal
<1>1. IInv => CoarsePointsMaximal
  BY ApartFromInvariant, CoveredFromInvariant DEF CoarsePointsMaximal
<1> QED
  BY <1>1, RanksMakeTheSameRounds, PTL

\* The points that round k leaves to decide on.
LEMMA RoundsFromInvariant ==
  ASSUME \A in \in Inputs : \A p \in 1..2 : \A i \in Points : in.hash[p][i] \notin {0, Unit},
         IInv
  PROVE  RoundsBounded
<1> SUFFICES ASSUME NEW r \in Ranks
             PROVE  iter[r] <= Cardinality(Points)
  BY DEF RoundsBounded
<1> DEFINE p == pass[r]
           P == ProblemAt(input, p)
           k == iter[r]
           a == Cardinality(P.points)
<1>1. /\ input \in Inputs /\ p \in 1..2 /\ k \in Nat
      /\ RoundIs(input, P, r, pc[r], k, cf_map[p][r], scratch[r])
  BY RankParts
<1>2. /\ IsProblem(P) /\ P.pass = p /\ P.points \subseteq Points /\ P.hash = input.hash[p]
      /\ IsFiniteSet(Points)
  BY <1>1, ProblemFacts, InputFacts
<1>3. a <= Cardinality(Points) /\ a \in Nat /\ Cardinality(Points) \in Nat
  BY <1>2, FS_Subset, FS_CardinalityType
<1>4. \A i \in P.points : P.hash[i] \notin {0, Unit}
  BY <1>1, <1>2
<1> DEFINE q == Skipped(P)
<1>5. q \in 0..1
  BY DEF Skipped
<1>6. CASE k = 0
  BY <1>3, <1>6
<1>7. CASE k # 0
  <2>0. k - 1 \in Nat /\ (k - 1) + 1 = k /\ k - 1 \in 0..(k-1)
    BY <1>1, <1>7
  <2>1. Open(P, k - 1)
    BY <1>1, <2>0 DEF RoundIs
  <2>2. PICK i \in P.points : Before(P)[k][i] = UNASSIGNED
    BY <2>0, <2>1 DEF Open
  <2> DEFINE n == k - q
             c == Cardinality(Undecided(P, k))
  <2>3. n \in Nat /\ n + q = k /\ k <= n + 1
    BY <1>1, <1>5, <1>7
  <2>4. Undecided(P, k) # {}
    BY <2>2 DEF Undecided
  <2>5. c + n <= a
    <3> HIDE DEF P, k, n
    <3>1. Undecided(P, n + Skipped(P)) = Undecided(P, k)
      BY <2>3
    <3>2. Cardinality(Undecided(P, n + Skipped(P))) + n <= Cardinality(P.points)
      BY <1>2, <1>4, <2>3, <2>4, <3>1, LeftDecreases
    <3> QED
      BY <3>1, <3>2
  <2>6. c \in Nat /\ c >= 1
    <3>1. IsFiniteSet(Undecided(P, k)) /\ c \in Nat
      BY <1>1, <1>2, UndecidedFacts
    <3>2. c # 0
      BY <2>4, <3>1, FS_EmptySet
    <3> QED
      BY <3>1, <3>2
  <2> HIDE DEF k, n, c, a, q
  <2> QED
    BY <1>1, <1>3, <2>3, <2>5, <2>6 DEF k
<1> QED
  BY <1>6, <1>7

\* Each round decides on a point, when no weight is a whole number of units: a
\* point of weight 1.0 is neither below nor above it, and no round marks it
\* ("iterate until all points have been classified", pmis.cu).
THEOREM RoundsAreBounded ==
  ASSUME \A in \in Inputs : \A p \in 1..2 : \A i \in Points : in.hash[p][i] \notin {0, Unit}
  PROVE  Spec => []RoundsBounded
<1>1. IInv => RoundsBounded
  BY RoundsFromInvariant
<1> QED
  BY <1>1, RanksMakeTheSameRounds, PTL

\* When all have returned, a rank's rows have the marks of the last rounds.
LEMMA SameFromInvariant ==
  IInv => SameOnAnyPartition
<1> DEFINE P == FirstProblem(input)
           Q == SecondProblem(input)
           first == FirstPassOf(input)
           second == PmisOf(FirstCoarse, S2, input.hash[2], COARSE)
<1> SUFFICES ASSUME IInv, Done, NEW r \in Ranks, NEW i \in Rows(1, r)
             PROVE  result[r][i] =
                      (IF input.aggressive THEN Corrected(first, second) ELSE first)[i]
  BY DEF SameOnAnyPartition
<1>1. /\ input \in Inputs /\ pass[r] \in 1..2 /\ iter[r] \in Nat
      /\ RoundIs(input, ProblemAt(input, pass[r]), r, "done", iter[r],
                 cf_map[pass[r]][r], scratch[r])
      /\ PassIs(input, r, "done", pass[r], cf_map[1][r], cf_map[2][r], result[r])
  <2>1. pc[r] = "done"
    BY DEF Done, At
  <2> QED
    BY <2>1, RankParts
<1>2. Ended(1, r)
  <2>1. pass[r] = 1 \/ pass[r] = 2
    BY <1>1
  <2> QED
    BY <2>1 DEF Ended, Done
<1>3. /\ FirstEnds(input)
      /\ cf_map[1][r] = Cut(Before(P)[LastOf(input) + 1], RingIn(input, P, r))
      /\ FirstCoarse = CoarseAfter(input)
  BY <1>2, FirstEnded, FirstSettled
<1>4. /\ IsProblem(P) /\ ProblemAt(input, 1) = P /\ P.points = Points
      /\ P.edges = input.strong /\ P.hash = input.hash[1] /\ P.isolated = STRONG_FINE
  <2>1. ProblemAt(input, 1) = P
    BY DEF ProblemAt
  <2>2. IsProblem(ProblemAt(input, 1))
    BY <1>1, ProblemFacts
  <2> QED
    BY <2>1, <2>2 DEF FirstProblem
<1>5. /\ IsProblem(Q) /\ ProblemAt(input, 2) = Q /\ Q.points = CoarseAfter(input)
      /\ Q.edges = JoinedIn(input) /\ Q.hash = input.hash[2] /\ Q.isolated = COARSE
      /\ Q.pass = 2 /\ Q.points \subseteq Points
  <2>1. ProblemAt(input, 2) = Q
    BY DEF ProblemAt
  <2>2. IsProblem(ProblemAt(input, 2)) /\ ProblemAt(input, 2).points \subseteq Points
    BY <1>1, ProblemFacts
  <2> QED
    BY <2>1, <2>2 DEF SecondProblem
<1>6. first = Before(P)[LastOf(input) + 1] /\ DOMAIN first = Points
  <2> HIDE DEF P
  <2>1. LastOf(input) \in Nat /\ ~ Open(P, LastOf(input)) /\ LastOf(input) + 1 \in Nat
    BY <1>1, <1>3, LastFacts DEF P
  <2>2. first = Before(P)[Cardinality(P.points) + Skipped(P)]
    <3>1. first = PmisOf(P.points, P.edges, P.hash, P.isolated)
      BY <1>4 DEF FirstPassOf
    <3> HIDE DEF first
    <3> QED
      BY <1>4, <3>1, PmisOfFacts
  <2> HIDE DEF first
  <2>3. first = Before(P)[LastOf(input) + 1]
    BY <1>4, <2>1, <2>2, LastMap
  <2>4. first \in MarksOf(P)
    BY <1>4, <2>1, <2>3, BeforeFacts
  <2> QED
    BY <1>4, <2>3, <2>4 DEF MarksOf
<1>7. second = Before(Q)[Cardinality(Q.points) + Skipped(Q)] /\ DOMAIN second = Q.points
  <2>1. S2 = JoinedIn(input)
    <3>1. Strong(2) = JoinedIn(input)
      BY <1>1, <1>3, <1>5, MatricesFound DEF Found
    <3> QED
      BY <3>1 DEF Strong
  <2> HIDE DEF Q
  <2>2. second = PmisOf(Q.points, Q.edges, Q.hash, Q.isolated)
    BY <1>3, <1>5, <2>1
  <2> HIDE DEF second
  <2>3. second = Before(Q)[Cardinality(Q.points) + Skipped(Q)]
    BY <1>5, <2>2, PmisOfFacts
  <2>4. Cardinality(Q.points) + Skipped(Q) \in Nat
    <3>1. IsFiniteSet(Q.points) /\ Cardinality(Q.points) \in Nat
      BY <1>5, FS_CardinalityType DEF IsProblem
    <3> QED
      BY <3>1 DEF Skipped
  <2>5. second \in MarksOf(Q)
    BY <1>5, <2>3, <2>4, BeforeFacts
  <2> QED
    BY <2>3, <2>5 DEF MarksOf
<1>8. /\ i \in Points /\ input.owner[i] = r /\ i \in RingIn(input, P, r)
      /\ cf_map[1][r][i] = first[i] /\ i \in DOMAIN cf_map[1][r]
  <2>1. i \in RowsIn(input, P, r)
    BY <1>1, <1>4, MatricesFound DEF Found
  <2>2. i \in Points /\ input.owner[i] = r /\ i \in RingIn(input, P, r)
    BY <1>1, <1>4, <2>1, RingFacts DEF RowsIn
  <2> HIDE DEF P, first
  <2> QED
    BY <1>3, <1>6, <2>2 DEF Cut
<1> HIDE DEF P, Q, first, second
<1>9. CASE pass[r] = 1
  <2>1. result[r] = cf_map[1][r] /\ (input.aggressive => RowsIn(input, Q, r) = {})
    BY <1>1, <1>9 DEF PassIs, Q
  <2>2. input.aggressive => i \notin DOMAIN second
    BY <1>7, <1>8, <2>1 DEF RowsIn
  <2>3. input.aggressive => Corrected(first, second)[i] = first[i]
    BY <1>6, <1>8, <2>2 DEF Corrected
  <2> QED
    BY <1>8, <2>1, <2>3
<1>10. CASE pass[r] = 2
  <2>1. result[r] = Corrected(cf_map[1][r], cf_map[2][r]) /\ input.aggressive
    BY <1>1, <1>10 DEF PassIs
  <2>2. ~ Open(Q, iter[r]) /\ cf_map[2][r] = Cut(Before(Q)[iter[r] + 1], RingIn(input, Q, r))
    BY <1>1, <1>5, <1>10 DEF RoundIs
  <2>3. second = Before(Q)[iter[r] + 1]
    BY <1>1, <1>5, <1>7, <2>2, LastMap
  <2>4. i \in RingIn(input, Q, r) <=> i \in Q.points
    <3>1. RowsIn(input, Q, r) \subseteq RingIn(input, Q, r) /\ RingIn(input, Q, r) \subseteq Q.points
      BY <1>1, <1>5, RingFacts
    <3> QED
      BY <1>8, <3>1 DEF RowsIn
  <2>5. /\ i \in DOMAIN cf_map[2][r] <=> i \in DOMAIN second
        /\ i \in DOMAIN second => cf_map[2][r][i] = second[i]
    BY <1>7, <2>2, <2>3, <2>4 DEF Cut
  <2>6. Corrected(cf_map[1][r], cf_map[2][r])[i] = Corrected(first, second)[i]
    BY <1>6, <1>8, <2>5 DEF Corrected
  <2> QED
    BY <2>1, <2>6
<1> QED
  BY <1>1, <1>9, <1>10

\* The ranks together choose what one rank with the whole matrix would,
\* whatever the partition and the speed of each rank (pmis.cu,
\* aggressive_pmis.cu).
THEOREM SameCoarsePoints ==
  Spec => []SameOnAnyPartition
<1>1. IInv => SameOnAnyPartition
  BY SameFromInvariant
<1> QED
  BY <1>1, RanksMakeTheSameRounds, PTL

\* Without the second pass, a rank leaves its last reduction when all are in
\* theirs, and none gives another ("get max across all processes", pmis.cu).
\* With it the property fails: a rank without coarse points returns early.
THEOREM OnePassMatches ==
  ASSUME \A in \in Inputs : ~ in.aggressive
  PROVE  Spec => []CollectivesMatch
<1>1. IInv => CollectivesMatch
  <2> SUFFICES ASSUME IInv, NEW r \in Ranks, NEW s \in Ranks, pc[r] = "done"
               PROVE  Len(reductions[s]) <= Len(reductions[r])
    BY DEF CollectivesMatch, At
  <2> DEFINE k == iter[r]
  <2>1. \A q \in Ranks :
          /\ input \in Inputs /\ pass[q] \in 1..2 /\ iter[q] \in Nat /\ pc[q] \in Labels
          /\ RoundIs(input, ProblemAt(input, pass[q]), q, pc[q], iter[q],
                     cf_map[pass[q]][q], scratch[q])
          /\ PassIs(input, q, pc[q], pass[q], cf_map[1][q], cf_map[2][q], result[q])
    BY RankParts
  <2>2. pass[r] = 1 /\ pass[s] = 1
    BY <2>1 DEF PassIs
  <2>3. ~ Open(FirstProblem(input), k) /\ \A j \in 0..(iter[s] - 1) : Open(FirstProblem(input), j)
    BY <2>1, <2>2 DEF RoundIs, ProblemAt
  <2>4. iter[s] <= k
    <3>1. k \notin 0..(iter[s] - 1)
      BY <2>3
    <3> QED
      BY <2>1, <3>1
  <2>5. /\ Len(reductions[r]) = 0 + k + GivenAt[pc[r]]
        /\ Len(reductions[s]) = 0 + iter[s] + GivenAt[pc[s]]
    BY <2>2, RankCounts
  <2>6. GivenAt[pc[r]] = 1 /\ GivenAt[pc[s]] \in 0..1
    BY <2>1, LabelFacts
  <2> QED
    BY <2>1, <2>4, <2>5, <2>6
<1> QED
  BY <1>1, RanksMakeTheSameRounds, PTL
-----------------------------------------------------------------------------
(* Nobody waits forever. *)

\* A rank that has entered fewer exchanges has not entered more reductions.
LEMMA FewerExchanges ==
  ASSUME IInv, NEW n \in Ranks, NEW r \in Ranks, Len(mailbox[n]) < Len(mailbox[r])
  PROVE  Len(reductions[n]) <= Len(reductions[r])
<1>1. ASSUME NEW q \in Ranks
      PROVE  /\ pass[q] \in 1..2 /\ iter[q] \in Nat
             /\ SentAt[pc[q]] \in 0..4 /\ GivenAt[pc[q]] \in 0..1
             /\ SentAt[pc[q]] = 0 => iter[q] = 0
             /\ GivenAt[pc[q]] = 1 => SentAt[pc[q]] = 4
  <2>1. /\ pass[q] \in 1..2 /\ iter[q] \in Nat /\ pc[q] \in Labels
        /\ RoundIs(input, ProblemAt(input, pass[q]), q, pc[q], iter[q],
                   cf_map[pass[q]][q], scratch[q])
    BY RankParts
  <2>2. pc[q] = "start" => iter[q] = 0
    BY <2>1 DEF RoundIs
  <2>3. SentAt[pc[q]] = 0 => pc[q] = "start"
    BY <2>1, LabelFacts DEF Labels
  <2>4. GivenAt[pc[q]] = 1 => SentAt[pc[q]] = 4
    BY <2>1, LabelFacts
  <2> QED
    BY <2>1, <2>2, <2>3, <2>4, LabelFacts
<1> DEFINE S == Sent1(input)
           R == Reduced1(input)
           L == LastOf(input)
<1>2. ASSUME NEW q \in Ranks
      PROVE  /\ pass[q] = 1 => /\ Len(mailbox[q]) = 0 + 3*iter[q] + SentAt[pc[q]]
                               /\ Len(reductions[q]) = 0 + iter[q] + GivenAt[pc[q]]
             /\ pass[q] = 2 => /\ FirstEnds(input)
                               /\ Len(mailbox[q]) = S + 3*iter[q] + SentAt[pc[q]]
                               /\ Len(reductions[q]) = R + iter[q] + GivenAt[pc[q]]
             /\ FirstEnds(input) => /\ S = 3*L + 4 /\ R = L + 1 /\ L \in Nat
                                    /\ pass[q] = 1 => iter[q] <= L
  BY RankCounts
<1>3. PICK k, a, g : k = iter[n] /\ a = SentAt[pc[n]] /\ g = GivenAt[pc[n]]
  OBVIOUS
<1>4. PICK k2, a2, g2 : k2 = iter[r] /\ a2 = SentAt[pc[r]] /\ g2 = GivenAt[pc[r]]
  OBVIOUS
<1>5. /\ k \in Nat /\ a \in 0..4 /\ g \in 0..1 /\ (g = 1 => a = 4)
      /\ k2 \in Nat /\ a2 \in 0..4 /\ g2 \in 0..1 /\ (a = 0 => k = 0)
  BY <1>1, <1>3, <1>4
<1>6. PICK x, y, u, v : /\ x = Len(mailbox[n]) /\ y = Len(mailbox[r])
                        /\ u = Len(reductions[n]) /\ v = Len(reductions[r])
  OBVIOUS
<1> HIDE DEF S, R, L
<1>7. CASE pass[n] = pass[r]
  <2>1. \E b, c \in Nat : /\ x = b + 3*k + a /\ y = b + 3*k2 + a2
                          /\ u = c + k + g /\ v = c + k2 + g2
    <3>1. CASE pass[n] = 1
      BY <1>2, <1>3, <1>4, <1>6, <1>7, <3>1
    <3>2. CASE pass[n] = 2
      <4>1. S \in Nat /\ R \in Nat
        BY <1>2, <3>2
      <4> QED
        BY <1>2, <1>3, <1>4, <1>6, <1>7, <3>2, <4>1
    <3> QED
      BY <1>1, <3>1, <3>2
  <2>2. k <= k2 /\ (k = k2 => a < a2)
    BY <1>5, <1>6, <2>1
  <2>3. k = k2 => g = 0
    BY <1>5, <2>2
  <2> QED
    BY <1>5, <1>6, <2>1, <2>2, <2>3
<1>8. CASE pass[n] = 1 /\ pass[r] = 2
  <2>1. R = L + 1 /\ L \in Nat /\ k <= L /\ u = 0 + k + g /\ v = R + k2 + g2
    BY <1>2, <1>3, <1>4, <1>6, <1>8
  <2> QED
    BY <1>5, <1>6, <2>1
<1>9. CASE pass[n] = 2 /\ pass[r] = 1
  <2>1. S = 3*L + 4 /\ L \in Nat /\ k2 <= L /\ x = S + 3*k + a /\ y = 3*k2 + a2
    BY <1>2, <1>3, <1>4, <1>5, <1>6, <1>9
  <2> QED
    BY <1>5, <1>6, <2>1
<1> QED
  BY <1>1, <1>7, <1>8, <1>9

\* Exchanges until the end of a round.
LEMMA ThreeEach ==
  ASSUME NEW b \in Nat, NEW k \in Nat, NEW a \in 0..4, NEW m \in Nat, k <= m
  PROVE  b + 3*m + 4 >= b + 3*k + a
OBVIOUS

\* A rank that has returned has entered all exchanges its neighbors are in.
LEMMA ReturnedHasSent ==
  ASSUME IInv, NEW r \in Ranks, NEW n \in Ranks, pc[n] = "done",
         n \in Neighbors(pass[r], r)
  PROVE  Len(mailbox[n]) >= Len(mailbox[r])
<1>1. ASSUME NEW q \in Ranks
      PROVE  /\ input \in Inputs /\ pass[q] \in 1..2 /\ iter[q] \in Nat
             /\ pc[q] \in Labels /\ SentAt[pc[q]] \in 0..4
             /\ RoundIs(input, ProblemAt(input, pass[q]), q, pc[q], iter[q],
                        cf_map[pass[q]][q], scratch[q])
             /\ PassIs(input, q, pc[q], pass[q], cf_map[1][q], cf_map[2][q], result[q])
  BY RankParts, LabelFacts
<1>2. SentAt[pc[n]] = 4
  BY LabelFacts
<1>3. CASE pass[n] = pass[r]
  <2>1. iter[r] <= iter[n]
    <3> DEFINE P == ProblemAt(input, pass[r])
    <3>1. ~ Open(P, iter[n]) /\ \A j \in 0..(iter[r] - 1) : Open(P, j)
      BY <1>1, <1>3 DEF RoundIs
    <3> HIDE DEF P
    <3>2. iter[n] \notin 0..(iter[r] - 1)
      BY <3>1
    <3> QED
      BY <1>1, <3>2
  <2>2. PICK b \in Nat : /\ Len(mailbox[n]) = b + 3*iter[n] + 4
                         /\ Len(mailbox[r]) = b + 3*iter[r] + SentAt[pc[r]]
    BY <1>2, <1>3, RankCounts
  <2> QED
    BY <1>1, <2>1, <2>2, ThreeEach
<1>4. CASE pass[n] = 2 /\ pass[r] = 1
  <2>1. /\ Len(mailbox[n]) = Sent1(input) + 3*iter[n] + 4
        /\ Len(mailbox[r]) = 0 + 3*iter[r] + SentAt[pc[r]] /\ iter[r] <= LastOf(input)
        /\ Sent1(input) = 3 * LastOf(input) + 4 /\ LastOf(input) \in Nat
    BY <1>2, <1>4, RankCounts
  <2>2. 0 + 3*LastOf(input) + 4 >= 0 + 3*iter[r] + SentAt[pc[r]]
    BY <1>1, <2>1, ThreeEach
  <2>3. Sent1(input) \in Nat /\ Sent1(input) + 3*iter[n] + 4 >= Sent1(input)
    BY <1>1, <2>1
  <2> QED
    BY <1>1, <2>1, <2>2, <2>3
<1>5. CASE pass[n] = 1 /\ pass[r] = 2
  <2> DEFINE P == SecondProblem(input)
  <2>1. RowsIn(input, P, n) = {}
    BY <1>1, <1>5 DEF PassIs
  <2>2. n \in NeighborsIn(input, P, r)
    <3>1. Found(2) /\ P = ProblemAt(input, 2)
      BY <1>5, MatrixFound DEF ProblemAt
    <3> HIDE DEF P
    <3> QED
      BY <1>1, <1>5, <3>1, MatricesFound
  <2>3. P.entries \subseteq P.points \X P.points
    BY <1>1, ProblemFacts DEF ProblemAt
  <2> HIDE DEF P
  <2>4. PICK j \in Points : \/ input.owner[j] = n /\ j \in HaloIn(input, P, r)
                            \/ input.owner[j] = r /\ j \in HaloIn(input, P, n)
    BY <2>2 DEF NeighborsIn
  <2>5. ASSUME input.owner[j] = n, j \in HaloIn(input, P, r)
        PROVE  FALSE
    <3>1. PICK i : <<i, j>> \in P.entries
      BY <2>5 DEF HaloIn
    <3>2. j \in P.points
      BY <2>3, <3>1
    <3> QED
      BY <2>1, <2>5, <3>2 DEF RowsIn
  <2>6. ASSUME j \in HaloIn(input, P, n)
        PROVE  FALSE
    BY <2>1, <2>6 DEF HaloIn
  <2> QED
    BY <2>4, <2>5, <2>6
<1> QED
  BY <1>1, <1>3, <1>4, <1>5

\* Of the ranks that have not returned, the one that has entered the fewest
\* exchanges and reductions does not wait.
LEMMA SomeoneGoesOn ==
  IInv => NobodyWaitsForever
<1> SUFFICES ASSUME IInv, CollectivesMatch, ~ Done,
                    \A r \in Ranks : At(r, "done") \/ Waits(r)
             PROVE  FALSE
  BY DEF NobodyWaitsForever
<1> DEFINE Place == [q \in Ranks |-> Len(mailbox[q]) + Len(reductions[q])]
           Left == {q \in Ranks : pc[q] # "done"}
           Places == {Place[q] : q \in Left}
<1>1. ASSUME NEW q \in Ranks
      PROVE  /\ Len(mailbox[q]) \in Nat /\ Len(reductions[q]) \in Nat
             /\ Place[q] \in Nat /\ Place[q] = Len(mailbox[q]) + Len(reductions[q])
  <2>1. mailbox[q] \in Seq(Values) /\ reductions[q] \in Seq(Nat)
    BY RankCounts
  <2>2. Len(mailbox[q]) \in Nat /\ Len(reductions[q]) \in Nat
    BY <2>1
  <2>3. Place[q] = Len(mailbox[q]) + Len(reductions[q])
    OBVIOUS
  <2> HIDE DEF Place
  <2>4. PICK x \in Nat, y \in Nat : x = Len(mailbox[q]) /\ y = Len(reductions[q])
    BY <2>2
  <2>5. x + y \in Nat
    OBVIOUS
  <2> QED
    BY <2>2, <2>3, <2>4, <2>5
<1>2. Places \subseteq Nat /\ Places # {}
  <2>1. Left # {}
    BY DEF Done, At
  <2>2. \A q \in Left : q \in Ranks /\ Place[q] \in Nat
    BY <1>1
  <2> HIDE DEF Place, Left
  <2> QED
    BY <2>1, <2>2
<1> HIDE DEF Place
<1>3. PICK m \in Places : \A l \in Places : m <= l
  <2> HIDE DEF Places
  <2> QED
    BY <1>2, LeastNat
<1>4. PICK r \in Left : m = Place[r]
  OBVIOUS
<1>5. \A q \in Left : Place[r] <= Place[q]
  BY <1>3, <1>4
<1>6. r \in Ranks /\ pc[r] # "done"
  OBVIOUS
<1>7. ASSUME NEW n \in Ranks, Len(mailbox[n]) < Len(mailbox[r])
      PROVE  pc[n] = "done"
  <2>1. Len(reductions[n]) <= Len(reductions[r])
    BY <1>6, <1>7, FewerExchanges
  <2>2. n \notin Left
    <3>1. PICK x, y, u, v : /\ x = Len(mailbox[n]) /\ y = Len(mailbox[r])
                            /\ u = Len(reductions[n]) /\ v = Len(reductions[r])
      OBVIOUS
    <3>2. /\ x \in Nat /\ y \in Nat /\ u \in Nat /\ v \in Nat /\ x < y /\ u <= v
          /\ Place[n] = x + u /\ Place[r] = y + v
      BY <1>1, <1>6, <1>7, <2>1, <3>1
    <3>3. ~ (Place[r] <= Place[n])
      BY <3>2
    <3> QED
      BY <1>5, <3>3
  <2> QED
    BY <2>2
<1> HIDE DEF Left, Places
<1>8. Arrived(r)
  <2>1. SUFFICES ASSUME NEW n \in Neighbors(pass[r], r), Len(mailbox[n]) < Len(mailbox[r])
                 PROVE  FALSE
    <3>1. Neighbors(pass[r], r) \subseteq Ranks
      BY DEF Neighbors
    <3> QED
      BY <1>1, <1>6, <3>1 DEF Arrived
  <2>2. n \in Ranks
    BY DEF Neighbors
  <2>3. Len(mailbox[n]) >= Len(mailbox[r])
    BY <1>6, <1>7, <2>1, <2>2, ReturnedHasSent
  <2> QED
    BY <1>1, <1>6, <2>1, <2>2, <2>3
<1>9. Reduced(r)
  <2>1. SUFFICES ASSUME NEW s \in Ranks, Len(reductions[s]) < Len(reductions[r])
                 PROVE  FALSE
    BY <1>1, <1>6 DEF Reduced
  <2>2. CASE pc[s] = "done"
    BY <1>1, <1>6, <2>1, <2>2 DEF CollectivesMatch, At
  <2>3. CASE pc[s] # "done"
    <3>1. Place[r] <= Place[s]
      BY <1>5, <2>3 DEF Left
    <3>2. Len(mailbox[r]) < Len(mailbox[s])
      <4>1. PICK x, y, u, v : /\ x = Len(mailbox[s]) /\ y = Len(mailbox[r])
                              /\ u = Len(reductions[s]) /\ v = Len(reductions[r])
        OBVIOUS
      <4>2. /\ x \in Nat /\ y \in Nat /\ u \in Nat /\ v \in Nat /\ u < v
            /\ Place[s] = x + u /\ Place[r] = y + v
        BY <1>1, <1>6, <2>1, <4>1
      <4>3. y < x
        <5>1. y + v <= x + u
          BY <3>1, <4>2
        <5> QED
          BY <4>2, <5>1
      <4> QED
        BY <4>1, <4>3
    <3>3. Len(reductions[r]) <= Len(reductions[s])
      BY <1>6, <3>2, FewerExchanges
    <3> QED
      BY <1>1, <1>6, <2>1, <3>3
  <2> QED
    BY <2>2, <2>3
<1> QED
  BY <1>6, <1>8, <1>9 DEF Waits, At

\* Until all ranks have returned one of them goes on, also where the number of
\* rounds and of neighbors differs between the passes; the only exception is a
\* reduction that another rank will never enter.
THEOREM RanksNeverWaitForever ==
  Spec => []NobodyWaitsForever
<1>1. IInv => NobodyWaitsForever
  BY SomeoneGoesOn
<1> QED
  BY <1>1, RanksMakeTheSameRounds, PTL
=============================================================================
