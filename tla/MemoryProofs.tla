---------------------------- MODULE MemoryProofs ----------------------------
(***************************************************************************)
(* Proofs about MemoryPool, for every page size, limit, set of regions and *)
(* set of requests: the pool never lends a byte twice, never loses one and *)
(* never joins two regions, and so implements Allocator.                   *)
(*                                                                         *)
(* Then about MemoryManager, for any number of threads: they use the pool  *)
(* as MemoryPool says, so that its theorems hold here; they never share    *)
(* memory, and none is forgotten.                                          *)
(*                                                                         *)
(* Last about Resources, the user of the pools: until a pool dies with     *)
(* blocks in use, no memory of a buffer is lost.                           *)
(***************************************************************************)
EXTENDS MemoryManager, Resources, SequenceTheorems, FiniteSetTheorems, WellFoundedInduction, TLAPS

-----------------------------------------------------------------------------
(* Arithmetic of pages. *)

\* Rounding up reaches at least n and stays within a page of it.
LEMMA PageRoundUpBounds ==
  ASSUME NEW n \in Nat
  PROVE  /\ PageRoundUp(n) \in Nat
         /\ n <= PageRoundUp(n)
         /\ PageRoundUp(n) < n + PageSize
<1> DEFINE q == (n + PageSize - 1) \div PageSize
<1> DEFINE m == (n + PageSize - 1) % PageSize
<1>1. PageSize \in Nat /\ PageSize > 0
  BY PageSizeAssumption
<1>2. n + PageSize - 1 \in Nat
  BY <1>1
<1>3. q \in Nat /\ m \in 0..(PageSize - 1) /\ n + PageSize - 1 = PageSize * q + m
  BY <1>1, <1>2, SMT
<1>4. PageSize * q \in Nat
  BY <1>1, <1>3
<1>5. PageRoundUp(n) = PageSize * q
  BY DEF PageRoundUp
<1> HIDE DEF q, m
<1> QED
  BY <1>1, <1>3, <1>4, <1>5

\* What is left of a region after aligning its start is not empty.
LEMMA RegionBounds ==
  ASSUME NEW r \in Regions
  PROVE  /\ Start(r) \in Nat
         /\ End(r) \in Nat
         /\ r.begin <= Start(r)
         /\ Start(r) < End(r)
<1>1. r.begin \in Nat /\ r.size \in Nat /\ r.size >= PageSize
  BY RegionsAssumption DEF RegionType
<1>2. PageSize \in Nat
  BY PageSizeAssumption
<1> QED
  BY <1>1, <1>2, PageRoundUpBounds DEF Start, End

\* Least-number principle, by which the runs below are searched.
LEMMA LessOnNat == OpToRel(<, Nat) = {ss \in Nat \X Nat : ss[1] < ss[2]}
  BY DEF OpToRel

\* Every non-empty set of naturals has a least element.
LEMMA LeastNat ==
  ASSUME NEW S \in SUBSET Nat, S # {}
  PROVE  \E m \in S : \A k \in S : m <= k
<1> DEFINE R == {ss \in Nat \X Nat : ss[1] < ss[2]}
<1>1. IsWellFoundedOn(R, Nat)
  BY NatLessThanWellFounded, LessOnNat
<1>2. ASSUME NEW a \in Nat, NEW b \in Nat, a < b
      PROVE  <<a, b>> \in R
  <2> DEFINE p == <<a, b>>
  <2>1. p \in Nat \X Nat /\ p[1] = a /\ p[2] = b
    OBVIOUS
  <2> HIDE DEF p
  <2>2. p \in R
    BY <2>1, <1>2
  <2> QED
    BY <2>2 DEF p
<1> HIDE DEF R
<1>3. PICK m \in S : \A k \in S : ~ (<<k, m>> \in R)
  BY <1>1, WFMin
<1>4. ASSUME NEW k \in S
      PROVE  m <= k
  <2>1. ~ (k < m)
    BY <1>2, <1>3
  <2> QED
    BY <2>1
<1> QED
  BY <1>4

-----------------------------------------------------------------------------
(* What the list operations of allocate() and free() return. *)

\* Length and type of a concatenation.
LEMMA ConcatType ==
  ASSUME NEW S, NEW a \in Seq(S), NEW c \in Seq(S)
  PROVE  a \o c \in Seq(S) /\ Len(a \o c) = Len(a) + Len(c)
  BY ConcatProperties

\* One element of a concatenation.
LEMMA ConcatElement ==
  ASSUME NEW S, NEW a \in Seq(S), NEW c \in Seq(S),
         NEW j \in 1..(Len(a) + Len(c))
  PROVE  (a \o c)[j] = IF j <= Len(a) THEN a[j] ELSE c[j - Len(a)]
  BY ConcatProperties

\* One element between two lists, as insert and merge leave it.
LEMMA GlueFacts ==
  ASSUME NEW S, NEW a \in Seq(S), NEW e \in S, NEW c \in Seq(S)
  PROVE  /\ (a \o <<e>>) \o c \in Seq(S)
         /\ Len((a \o <<e>>) \o c) = Len(a) + 1 + Len(c)
         /\ \A j \in 1..(Len(a) + 1 + Len(c)) : ((a \o <<e>>) \o c)[j] =
               IF j <= Len(a) THEN a[j]
               ELSE IF j = Len(a) + 1 THEN e ELSE c[j - (Len(a) + 1)]
<1> DEFINE b == <<e>>
<1>1. b \in Seq(S) /\ Len(b) = 1 /\ b[1] = e
  OBVIOUS
<1> HIDE DEF b
<1> DEFINE g == a \o b
<1>2. g \in Seq(S) /\ Len(g) = Len(a) + 1
  BY <1>1, ConcatType
<1>3. ASSUME NEW j \in 1..(Len(a) + 1)
      PROVE  g[j] = IF j <= Len(a) THEN a[j] ELSE e
  <2>1. g[j] = IF j <= Len(a) THEN a[j] ELSE b[j - Len(a)]
    BY <1>1, ConcatElement
  <2>2. ~(j <= Len(a)) => j - Len(a) = 1
    OBVIOUS
  <2> QED
    BY <1>1, <2>1, <2>2
<1> HIDE DEF g
<1>4. g \o c \in Seq(S) /\ Len(g \o c) = Len(a) + 1 + Len(c)
  BY <1>2, ConcatType
<1>5. ASSUME NEW j \in 1..(Len(a) + 1 + Len(c))
      PROVE  (g \o c)[j] = IF j <= Len(a) THEN a[j]
               ELSE IF j = Len(a) + 1 THEN e ELSE c[j - (Len(a) + 1)]
  <2>1. (g \o c)[j] = IF j <= Len(g) THEN g[j] ELSE c[j - Len(g)]
    BY <1>2, ConcatElement
  <2> QED
    BY <1>2, <1>3, <2>1
<1> QED
  BY <1>4, <1>5 DEF g, b

\* std::list::insert: everything from position i on moves up by one.
LEMMA InsertAtFacts ==
  ASSUME NEW S, NEW s \in Seq(S), NEW i \in 1..(Len(s) + 1), NEW e \in S
  PROVE  /\ InsertAt(s, i, e) \in Seq(S)
         /\ Len(InsertAt(s, i, e)) = Len(s) + 1
         /\ \A j \in 1..(Len(s) + 1) : InsertAt(s, i, e)[j] =
               IF j < i THEN s[j] ELSE IF j = i THEN e ELSE s[j-1]
<1> DEFINE a == SubSeq(s, 1, i - 1)
<1> DEFINE c == SubSeq(s, i, Len(s))
<1>0. Len(s) \in Nat /\ i \in Nat
  OBVIOUS
<1>1. a \in Seq(S) /\ Len(a) = i - 1 /\ \A j \in 1..(i - 1) : a[j] = s[j]
  BY SubSeqProperties
<1>2. c \in Seq(S) /\ Len(c) = Len(s) - i + 1
      /\ \A j \in 1..(Len(s) - i + 1) : c[j] = s[i + j - 1]
  BY SubSeqProperties
<1>3. InsertAt(s, i, e) = (a \o <<e>>) \o c
  BY DEF InsertAt
<1> DEFINE g == (a \o <<e>>) \o c
<1> HIDE DEF a, c
<1>4. /\ g \in Seq(S)
      /\ Len(g) = Len(s) + 1
      /\ \A j \in 1..(Len(s) + 1) : g[j] =
            IF j <= i - 1 THEN a[j] ELSE IF j = i THEN e ELSE c[j - i]
  BY <1>0, <1>1, <1>2, GlueFacts
<1> HIDE DEF g
<1>5. ASSUME NEW j \in 1..(Len(s) + 1)
      PROVE  g[j] = IF j < i THEN s[j] ELSE IF j = i THEN e ELSE s[j-1]
  <2>1. CASE j < i
    BY <2>1, <1>0, <1>1, <1>4
  <2>2. CASE j = i
    BY <2>2, <1>0, <1>4
  <2>3. CASE i < j
    <3>1. g[j] = c[j - i] /\ j - i \in 1..(Len(s) - i + 1)
      BY <2>3, <1>0, <1>4
    <3>2. c[j - i] = s[i + (j - i) - 1] /\ i + (j - i) - 1 = j - 1
      BY <3>1, <1>0, <1>2
    <3> QED
      BY <3>1, <3>2, <2>3, <1>0
  <2> QED
    BY <2>1, <2>2, <2>3, <1>0
<1> QED
  BY <1>3, <1>4, <1>5 DEF g

\* std::list::erase of one element: everything behind it moves down by one.
LEMMA RemoveAtFacts ==
  ASSUME NEW S, NEW s \in Seq(S), NEW i \in 1..Len(s)
  PROVE  /\ RemoveAt(s, i) \in Seq(S)
         /\ Len(RemoveAt(s, i)) = Len(s) - 1
         /\ \A j \in 1..(Len(s) - 1) : RemoveAt(s, i)[j] =
               IF j < i THEN s[j] ELSE s[j+1]
<1> DEFINE a == SubSeq(s, 1, i - 1)
<1> DEFINE c == SubSeq(s, i + 1, Len(s))
<1>0. Len(s) \in Nat /\ i \in Nat
  OBVIOUS
<1>1. a \in Seq(S) /\ Len(a) = i - 1 /\ \A j \in 1..(i - 1) : a[j] = s[j]
  BY SubSeqProperties
<1>2. c \in Seq(S) /\ Len(c) = Len(s) - i
      /\ \A j \in 1..(Len(s) - i) : c[j] = s[i + j]
  BY SubSeqProperties
<1>3. RemoveAt(s, i) = a \o c
  BY DEF RemoveAt
<1> HIDE DEF a, c
<1>4a. a \in Seq(S) /\ Len(a) = i - 1 /\ c \in Seq(S) /\ Len(c) = Len(s) - i
  BY <1>1, <1>2
<1>4b. a \o c \in Seq(S) /\ Len(a \o c) = Len(a) + Len(c)
  BY <1>4a, ConcatType
<1>4. a \o c \in Seq(S) /\ Len(a \o c) = Len(s) - 1
  BY <1>0, <1>4a, <1>4b
<1>5. ASSUME NEW j \in 1..(Len(s) - 1)
      PROVE  (a \o c)[j] = IF j < i THEN s[j] ELSE s[j+1]
  <2>1. (a \o c)[j] = IF j <= i - 1 THEN a[j] ELSE c[j - (i - 1)]
    BY <1>0, <1>1, <1>2, ConcatElement
  <2>2. CASE j < i
    BY <2>1, <2>2, <1>0, <1>1
  <2>3. CASE i <= j
    <3>1. (a \o c)[j] = c[j - (i - 1)] /\ j - (i - 1) \in 1..(Len(s) - i)
      BY <2>1, <2>3, <1>0
    <3>2. c[j - (i - 1)] = s[i + (j - (i - 1))]
      BY <3>1, <1>2
    <3>3. i + (j - (i - 1)) = j + 1
      BY <1>0
    <3>4. (a \o c)[j] = s[j+1]
      BY <3>1, <3>2, <3>3
    <3> QED
      BY <3>4, <2>3, <1>0
  <2>4. j < i \/ i <= j
    BY <1>0
  <2> QED
    BY <2>2, <2>3, <2>4
<1> QED
  BY <1>3, <1>4, <1>5

\* A run s[lo..hi] of a list that becomes one element, as free() merges it.
Splice(s, lo, hi, e) ==
  (SubSeq(s, 1, lo - 1) \o <<e>>) \o SubSeq(s, hi + 1, Len(s))

LEMMA SpliceFacts ==
  ASSUME NEW S, NEW s \in Seq(S), NEW lo \in 1..Len(s), NEW hi \in 1..Len(s),
         lo < hi, NEW e \in S
  PROVE  /\ Splice(s, lo, hi, e) \in Seq(S)
         /\ Len(Splice(s, lo, hi, e)) = Len(s) - (hi - lo)
         /\ \A j \in 1..(Len(s) - (hi - lo)) : Splice(s, lo, hi, e)[j] =
               IF j < lo THEN s[j] ELSE IF j = lo THEN e ELSE s[j + (hi - lo)]
<1> DEFINE a == SubSeq(s, 1, lo - 1)
<1> DEFINE c == SubSeq(s, hi + 1, Len(s))
<1>0. Len(s) \in Nat /\ lo \in Nat /\ hi \in Nat
  OBVIOUS
<1>1. a \in Seq(S) /\ Len(a) = lo - 1 /\ \A j \in 1..(lo - 1) : a[j] = s[j]
  BY SubSeqProperties
<1>2. c \in Seq(S) /\ Len(c) = Len(s) - hi
      /\ \A j \in 1..(Len(s) - hi) : c[j] = s[hi + j]
  BY SubSeqProperties
<1> DEFINE g == (a \o <<e>>) \o c
<1> HIDE DEF a, c
<1>3a. a \in Seq(S) /\ c \in Seq(S)
  BY <1>1, <1>2
<1>3b. /\ g \in Seq(S)
       /\ Len(g) = Len(a) + 1 + Len(c)
       /\ \A j \in 1..(Len(a) + 1 + Len(c)) : g[j] =
             IF j <= Len(a) THEN a[j]
             ELSE IF j = Len(a) + 1 THEN e ELSE c[j - (Len(a) + 1)]
  BY <1>3a, GlueFacts
<1> HIDE DEF g
<1>3c. Len(a) + 1 = lo /\ Len(a) + 1 + Len(c) = Len(s) - (hi - lo)
  BY <1>0, <1>1, <1>2
<1>4. /\ g \in Seq(S)
      /\ Len(g) = Len(s) - (hi - lo)
      /\ \A j \in 1..(Len(s) - (hi - lo)) : g[j] =
            IF j <= lo - 1 THEN a[j] ELSE IF j = lo THEN e ELSE c[j - lo]
  BY <1>0, <1>1, <1>3b, <1>3c
<1>5. ASSUME NEW j \in 1..(Len(s) - (hi - lo))
      PROVE  g[j] = IF j < lo THEN s[j]
                    ELSE IF j = lo THEN e ELSE s[j + (hi - lo)]
  <2>1. CASE j < lo
    BY <2>1, <1>0, <1>1, <1>4
  <2>2. CASE j = lo
    BY <2>2, <1>0, <1>4
  <2>3. CASE lo < j
    <3>1. g[j] = c[j - lo] /\ j - lo \in 1..(Len(s) - hi)
      BY <2>3, <1>0, <1>4
    <3>2. c[j - lo] = s[hi + (j - lo)] /\ hi + (j - lo) = j + (hi - lo)
      BY <3>1, <1>0, <1>2
    <3> QED
      BY <3>1, <3>2, <2>3, <1>0
  <2> QED
    BY <2>1, <2>2, <2>3, <1>0
<1> QED
  BY <1>4, <1>5 DEF a, c, g, Splice

-----------------------------------------------------------------------------
(* How the tiling of the owned regions survives each operation. *)

\* The fields of a block, as the provers use them.
LEMMA BlockFields ==
  ASSUME NEW b \in Block
  PROVE  /\ b.begin \in Nat /\ b.size \in Nat /\ b.first \in BOOLEAN
         /\ End(b) = b.begin + b.size /\ End(b) \in Nat
  BY DEF Block, End

\* Two blocks with the same contents are the same block.
LEMMA BlockEqual ==
  ASSUME NEW a \in Block, NEW b \in Block,
         a.begin = b.begin, a.size = b.size, a.first = b.first
  PROVE  a = b
  BY DEF Block

\* Distinct regions that blocks lie in keep those blocks apart.
LEMMA RegionsSeparate ==
  ASSUME NEW r \in Regions, NEW o \in Regions, Disjoint(r, o)
  PROVE  /\ End(r) <= Start(o) \/ End(o) <= Start(r)
         /\ Start(r) # Start(o)
<1>1. /\ Start(r) \in Nat /\ End(r) \in Nat /\ r.begin <= Start(r) /\ Start(r) < End(r)
      /\ Start(o) \in Nat /\ End(o) \in Nat /\ o.begin <= Start(o) /\ Start(o) < End(o)
  BY RegionBounds
<1>2. r.begin \in Nat /\ o.begin \in Nat
  BY RegionsAssumption DEF RegionType
<1> QED
  BY <1>1, <1>2 DEF Disjoint

\* allocate() cuts a block in two.
LEMMA SplitTiles ==
  ASSUME NEW O, RegionsDisjoint(O), NEW L, Tiles(O, L), NEW f \in L,
         NEW t \in Block, NEW q \in Block,
         t.begin = f.begin, t.first = f.first, t.size > 0,
         q.begin = End(t), q.size > 0, End(q) = End(f)
  PROVE  Tiles(O, (L \ {f}) \union {t, q})
<1> DEFINE M == (L \ {f}) \union {t, q}
<1>0. /\ L \subseteq Block /\ f \in Block
      /\ t.begin \in Nat /\ t.size \in Nat /\ End(t) = t.begin + t.size /\ End(t) \in Nat
      /\ q.begin \in Nat /\ q.size \in Nat /\ End(q) = q.begin + q.size
      /\ f.begin \in Nat /\ f.size \in Nat /\ End(f) = f.begin + f.size
  BY BlockFields DEF Tiles
<1>1. M \subseteq Block /\ \A b \in M : b.size > 0
  BY <1>0 DEF Tiles
<1>2. ASSUME NEW c \in L \ {f}
      PROVE  Disjoint(c, t) /\ Disjoint(t, c) /\ Disjoint(c, q) /\ Disjoint(q, c)
  <2>1. Disjoint(c, f) /\ c \in Block
    BY <1>0 DEF Tiles
  <2>2. c.begin \in Nat /\ End(c) \in Nat
    BY <2>1, BlockFields
  <2> QED
    BY <1>0, <2>1, <2>2 DEF Disjoint
<1>3. Disjoint(t, q) /\ Disjoint(q, t)
  BY <1>0 DEF Disjoint
<1>4. \A a, b \in M : a # b => Disjoint(a, b)
  BY <1>2, <1>3 DEF Tiles
<1>5. ASSUME NEW r \in O, NEW p \in Start(r)..(End(r) - 1)
      PROVE  \E b \in M : Covers(b, p)
  <2>0. p \in Int
    BY RegionBounds DEF RegionsDisjoint
  <2>1. PICK b \in L : Covers(b, p)
    BY DEF Tiles
  <2>2. CASE b # f
    BY <2>1, <2>2
  <2>3. CASE b = f
    <3>1. Covers(t, p) \/ Covers(q, p)
      BY <2>0, <2>1, <2>3, <1>0 DEF Covers
    <3> QED
      BY <3>1
  <2> QED
    BY <2>2, <2>3
<1>6. PICK o \in O : Within(f, o)
  BY DEF Tiles
<1>7. Start(o) \in Nat /\ End(o) \in Nat
  BY RegionBounds DEF RegionsDisjoint
<1>8. Within(t, o) /\ Within(q, o)
  BY <1>0, <1>6, <1>7 DEF Within
<1>9. \A b \in M : \E r \in O : Within(b, r)
  BY <1>8 DEF Tiles
<1>10. ASSUME NEW r \in O, q.begin = Start(r)
       PROVE  FALSE
  <2>1. r # o
    BY <1>0, <1>6, <1>7, <1>10 DEF Within
  <2>2. End(r) <= Start(o) \/ End(o) <= Start(r)
    BY <2>1, RegionsSeparate DEF RegionsDisjoint
  <2>3. Start(r) \in Nat /\ End(r) \in Nat /\ Start(r) < End(r)
    BY RegionBounds DEF RegionsDisjoint
  <2> QED
    BY <2>2, <2>3, <1>0, <1>6, <1>7, <1>10 DEF Within
<1>11. \A b \in M : \A r \in O : b.begin = Start(r) => b.first
  BY <1>10 DEF Tiles
<1> QED
  BY <1>1, <1>4, <1>5, <1>9, <1>11 DEF Tiles

\* free() joins two adjacent blocks, the second of which starts no region.
LEMMA JoinTiles ==
  ASSUME NEW O, RegionsDisjoint(O), NEW L, Tiles(O, L),
         NEW a \in L, NEW b \in L, End(a) = b.begin, ~b.first,
         NEW m \in Block,
         m.begin = a.begin, m.first = a.first, End(m) = End(b)
  PROVE  Tiles(O, (L \ {a, b}) \union {m})
<1> DEFINE M == (L \ {a, b}) \union {m}
<1>0. /\ L \subseteq Block /\ a \in Block /\ b \in Block
      /\ a.begin \in Nat /\ a.size \in Nat /\ End(a) = a.begin + a.size
      /\ b.begin \in Nat /\ b.size \in Nat /\ End(b) = b.begin + b.size
      /\ m.begin \in Nat /\ m.size \in Nat /\ End(m) = m.begin + m.size
      /\ a.size > 0 /\ b.size > 0
  BY BlockFields DEF Tiles
<1>0a. a.begin + a.size = b.begin /\ a.begin + m.size = b.begin + b.size
  BY <1>0
<1>0b. m.size > 0
  BY <1>0, <1>0a
<1>1. M \subseteq Block /\ \A c \in M : c.size > 0
  BY <1>0b DEF Tiles
<1>2. ASSUME NEW c \in L \ {a, b}
      PROVE  Disjoint(c, m) /\ Disjoint(m, c)
  <2>1. Disjoint(c, a) /\ Disjoint(c, b) /\ c \in Block /\ c.size > 0
    BY <1>0 DEF Tiles
  <2>2. c.begin \in Nat /\ c.size \in Nat /\ End(c) = c.begin + c.size
    BY <2>1, BlockFields
  <2> QED
    BY <1>0, <2>1, <2>2 DEF Disjoint
<1>3. \A c, d \in M : c # d => Disjoint(c, d)
  BY <1>2 DEF Tiles
<1>4. ASSUME NEW r \in O, NEW p \in Start(r)..(End(r) - 1)
      PROVE  \E c \in M : Covers(c, p)
  <2>0. p \in Int
    BY RegionBounds DEF RegionsDisjoint
  <2>1. PICK c \in L : Covers(c, p)
    BY DEF Tiles
  <2>2. CASE c \notin {a, b}
    BY <2>1, <2>2
  <2>3. CASE c \in {a, b}
    <3>1. \/ a.begin <= p /\ p < a.begin + a.size
          \/ b.begin <= p /\ p < b.begin + b.size
      BY <2>1, <2>3, <1>0 DEF Covers
    <3>2. Covers(m, p)
      BY <2>0, <3>1, <1>0, <1>0a DEF Covers
    <3> QED
      BY <3>2
  <2> QED
    BY <2>2, <2>3
<1>5. PICK r \in O : Within(a, r)
  BY DEF Tiles
<1>6. PICK o \in O : Within(b, o)
  BY DEF Tiles
<1>7. /\ Start(o) \in Nat /\ End(o) \in Nat /\ Start(o) < End(o)
      /\ Start(r) \in Nat /\ End(r) \in Nat /\ Start(r) < End(r)
  BY RegionBounds DEF RegionsDisjoint
<1>8. r = o
  <2>1. b.begin # Start(o)
    BY DEF Tiles
  <2>2. SUFFICES ASSUME r # o PROVE FALSE
    OBVIOUS
  <2>3. End(r) <= Start(o) \/ End(o) <= Start(r)
    BY <2>2, RegionsSeparate DEF RegionsDisjoint
  <2>4. /\ Start(r) <= a.begin /\ a.begin + a.size <= End(r)
        /\ Start(o) <= b.begin /\ b.begin + b.size <= End(o)
    BY <1>0, <1>5, <1>6 DEF Within
  <2> QED
    BY <2>1, <2>3, <2>4, <1>0, <1>0a, <1>7
<1>9. Within(m, r)
  BY <1>0, <1>5, <1>6, <1>7, <1>8 DEF Within
<1>10. \A c \in M : \E d \in O : Within(c, d)
  BY <1>9 DEF Tiles
<1>11. \A c \in M : \A d \in O : c.begin = Start(d) => c.first
  BY <1>0 DEF Tiles
<1> QED
  BY <1>1, <1>3, <1>4, <1>10, <1>11 DEF Tiles

\* add_memory() adds a region that the driver gave to nobody else.
LEMMA GrowTiles ==
  ASSUME NEW O, RegionsDisjoint(O), NEW L, Tiles(O, L),
         NEW r \in Regions, \A o \in O : Disjoint(r, o)
  PROVE  /\ WholeRegion(r) \in Block
         /\ WholeRegion(r) \notin L
         /\ RegionsDisjoint(O \union {r})
         /\ Tiles(O \union {r}, L \union {WholeRegion(r)})
<1> DEFINE w == WholeRegion(r)
<1>0. /\ Start(r) \in Nat /\ End(r) \in Nat /\ r.begin <= Start(r) /\ Start(r) < End(r)
      /\ r.begin \in Nat
  BY RegionBounds, RegionsAssumption DEF RegionType
<1>1. /\ w \in Block /\ w.begin = Start(r) /\ w.first = TRUE
      /\ w.size = End(r) - Start(r) /\ w.size \in Nat /\ w.size > 0
      /\ End(w) = End(r)
  <2>1. w = [begin |-> Start(r), size |-> End(r) - Start(r), first |-> TRUE]
    BY DEF WholeRegion
  <2>2. End(w) = w.begin + w.size
    BY DEF End
  <2> QED
    BY <1>0, <2>1, <2>2 DEF Block
<1>2. ASSUME NEW b \in L
      PROVE  /\ b \in Block /\ b.size > 0
             /\ b.begin \in Nat /\ b.size \in Nat /\ End(b) = b.begin + b.size
             /\ End(b) <= Start(r) \/ End(r) <= b.begin
  <2>1. b \in Block /\ b.size > 0
    BY DEF Tiles
  <2>2. b.begin \in Nat /\ b.size \in Nat /\ End(b) = b.begin + b.size
    BY <2>1, BlockFields
  <2>3. PICK o \in O : Within(b, o)
    BY DEF Tiles
  <2>4. End(r) <= Start(o) \/ End(o) <= Start(r)
    BY RegionsSeparate DEF RegionsDisjoint
  <2>5. Start(o) \in Nat /\ End(o) \in Nat
    BY RegionBounds DEF RegionsDisjoint
  <2> QED
    BY <2>1, <2>2, <2>3, <2>4, <2>5, <1>0 DEF Within
<1>3. w \notin L
  BY <1>0, <1>1, <1>2
<1>4. RegionsDisjoint(O \union {r})
  BY DEF RegionsDisjoint, Disjoint
<1>5. \A b \in L : Disjoint(b, w) /\ Disjoint(w, b)
  BY <1>0, <1>1, <1>2 DEF Disjoint
<1> HIDE DEF w
<1> DEFINE M == L \union {w}
<1>6. M \subseteq Block /\ (\A b \in M : b.size > 0)
  BY <1>1 DEF Tiles
<1>7. \A a, b \in M : a # b => Disjoint(a, b)
  BY <1>5 DEF Tiles
<1>8. ASSUME NEW o \in O \union {r}, NEW p \in Start(o)..(End(o) - 1)
      PROVE  \E b \in M : Covers(b, p)
  <2>1. CASE o \in O
    BY <2>1 DEF Tiles
  <2>2. CASE o = r
    BY <2>2, <1>0, <1>1 DEF Covers
  <2> QED
    BY <2>1, <2>2
<1>9. Within(w, r)
  BY <1>0, <1>1 DEF Within
<1>10. \A b \in M : \E o \in O \union {r} : Within(b, o)
  BY <1>9 DEF Tiles
<1>11. \A b \in L : b.begin # Start(r)
  BY <1>0, <1>2
<1>12. \A b \in M : \A o \in O \union {r} : b.begin = Start(o) => b.first
  BY <1>1, <1>11 DEF Tiles
<1> QED
  BY <1>1, <1>3, <1>4, <1>6, <1>7, <1>8, <1>10, <1>12 DEF Tiles, w

\* Blocks of a tiling are told apart by where they begin.
LEMMA DistinctBegins ==
  ASSUME NEW O, NEW L, Tiles(O, L), NEW a \in L, NEW b \in L, a # b
  PROVE  a.begin # b.begin
<1>1. Disjoint(a, b) /\ a \in Block /\ b \in Block /\ a.size > 0 /\ b.size > 0
  BY DEF Tiles
<1>2. /\ a.begin \in Nat /\ a.size \in Nat /\ End(a) = a.begin + a.size
      /\ b.begin \in Nat /\ b.size \in Nat /\ End(b) = b.begin + b.size
  BY <1>1, BlockFields
<1> QED
  BY <1>1, <1>2 DEF Disjoint

-----------------------------------------------------------------------------
(* The lists as sets: no operation puts a block in a list twice. *)

LEMMA ToSetFacts ==
  ASSUME NEW S, NEW s \in Seq(S)
  PROVE  ToSet(s) = {s[i] : i \in 1..Len(s)} /\ ToSet(s) \subseteq S
  BY DEF ToSet

\* free() inserts a block that is not in the list yet.
LEMMA InsertSet ==
  ASSUME NEW S, NEW s \in Seq(S), Once(s), NEW e \in S, e \notin ToSet(s),
         NEW i \in 1..(Len(s) + 1)
  PROVE  /\ InsertAt(s, i, e) \in Seq(S)
         /\ ToSet(InsertAt(s, i, e)) = ToSet(s) \union {e}
         /\ Once(InsertAt(s, i, e))
<1> DEFINE t == InsertAt(s, i, e)
<1>0. Len(s) \in Nat /\ i \in Nat
  OBVIOUS
<1>1a. t \in Seq(S)
  BY InsertAtFacts
<1>1b. Len(t) = Len(s) + 1
  BY InsertAtFacts
<1>1c. ASSUME NEW j \in 1..(Len(s) + 1)
       PROVE  t[j] = IF j < i THEN s[j] ELSE IF j = i THEN e ELSE s[j-1]
  BY InsertAtFacts
<1>1. /\ t \in Seq(S) /\ Len(t) = Len(s) + 1
      /\ \A j \in 1..(Len(s) + 1) :
            t[j] = IF j < i THEN s[j] ELSE IF j = i THEN e ELSE s[j-1]
  BY <1>1a, <1>1b, <1>1c
<1> HIDE DEF t
<1>2. ToSet(s) = {s[k] : k \in 1..Len(s)} /\ ToSet(t) = {t[k] : k \in 1..(Len(s) + 1)}
  BY <1>1, ToSetFacts
<1>3. ASSUME NEW j \in 1..Len(s)
      PROVE  s[j] \in ToSet(t)
  <2>1. CASE j < i
    <3>1. t[j] = s[j] /\ j \in 1..(Len(s) + 1)
      BY <2>1, <1>0, <1>1
    <3> QED
      BY <3>1, <1>2
  <2>2. CASE i <= j
    <3>1. t[j+1] = s[j] /\ j + 1 \in 1..(Len(s) + 1)
      BY <2>2, <1>0, <1>1
    <3> QED
      BY <3>1, <1>2
  <2> QED
    BY <2>1, <2>2, <1>0
<1>4. e \in ToSet(t)
  <2>1. t[i] = e
    BY <1>0, <1>1
  <2> QED
    BY <2>1, <1>2
<1>5. ASSUME NEW j \in 1..(Len(s) + 1)
      PROVE  /\ j < i => t[j] = s[j] /\ j \in 1..Len(s)
             /\ j = i => t[j] = e
             /\ j > i => t[j] = s[j-1] /\ j - 1 \in 1..Len(s)
  BY <1>0, <1>1
<1>6. ToSet(t) = ToSet(s) \union {e}
  <2>1. \A j \in 1..(Len(s) + 1) : t[j] \in ToSet(s) \union {e}
    BY <1>0, <1>2, <1>5
  <2> QED
    BY <2>1, <1>2, <1>3, <1>4
<1>7. ASSUME NEW j \in 1..(Len(s) + 1), NEW k \in 1..(Len(s) + 1), t[j] = t[k]
      PROVE  j = k
  <2>1. \A l \in 1..Len(s) : s[l] # e
    BY <1>2
  <2> QED
    BY <2>1, <1>0, <1>5, <1>7 DEF Once
<1> QED
  BY <1>1, <1>6, <1>7 DEF Once, t

\* allocate() erases a free block that it hands out whole.
LEMMA RemoveSet ==
  ASSUME NEW s \in Seq(Block), Once(s), NEW i \in 1..Len(s)
  PROVE  /\ RemoveAt(s, i) \in Seq(Block)
         /\ ToSet(RemoveAt(s, i)) = ToSet(s) \ {s[i]}
         /\ Once(RemoveAt(s, i))
<1> DEFINE t == RemoveAt(s, i)
<1>0. Len(s) \in Nat /\ i \in Nat
  OBVIOUS
<1>1. /\ t \in Seq(Block) /\ Len(t) = Len(s) - 1
      /\ \A j \in 1..(Len(s) - 1) : t[j] = IF j < i THEN s[j] ELSE s[j+1]
  BY RemoveAtFacts
<1> HIDE DEF t
<1>2. ToSet(s) = {s[k] : k \in 1..Len(s)} /\ ToSet(t) = {t[k] : k \in 1..(Len(s) - 1)}
  BY <1>1, ToSetFacts
<1>3. ASSUME NEW j \in 1..Len(s), j # i
      PROVE  s[j] \in ToSet(t)
  <2>1. CASE j < i
    <3>1. t[j] = s[j] /\ j \in 1..(Len(s) - 1)
      BY <2>1, <1>0, <1>1
    <3> QED
      BY <3>1, <1>2
  <2>2. CASE i < j
    <3>1. t[j-1] = s[j] /\ j - 1 \in 1..(Len(s) - 1)
      BY <2>2, <1>0, <1>1
    <3> QED
      BY <3>1, <1>2
  <2> QED
    BY <2>1, <2>2, <1>0, <1>3
<1>4. ASSUME NEW j \in 1..(Len(s) - 1)
      PROVE  /\ j < i => t[j] = s[j] /\ j \in 1..Len(s)
             /\ j >= i => t[j] = s[j+1] /\ j + 1 \in 1..Len(s)
  BY <1>0, <1>1
<1>5. ASSUME NEW j \in 1..(Len(s) - 1)
      PROVE  t[j] \in ToSet(s) \ {s[i]}
  BY <1>0, <1>2, <1>4 DEF Once
<1>6. ToSet(t) = ToSet(s) \ {s[i]}
  BY <1>2, <1>3, <1>5
<1>7. ASSUME NEW j \in 1..(Len(s) - 1), NEW k \in 1..(Len(s) - 1), t[j] = t[k]
      PROVE  j = k
  BY <1>0, <1>4, <1>7 DEF Once
<1> QED
  BY <1>1, <1>6, <1>7 DEF Once, t

\* allocate() leaves the rest of a split block in its place.
LEMMA ReplaceSet ==
  ASSUME NEW s \in Seq(Block), Once(s), NEW i \in 1..Len(s),
         NEW e \in Block, e \notin ToSet(s)
  PROVE  /\ ReplaceAt(s, i, e) \in Seq(Block)
         /\ ToSet(ReplaceAt(s, i, e)) = (ToSet(s) \ {s[i]}) \union {e}
         /\ Once(ReplaceAt(s, i, e))
<1> DEFINE t == [s EXCEPT ![i] = e]
<1>0. ReplaceAt(s, i, e) = t
  BY DEF ReplaceAt
<1>1. /\ t \in Seq(Block) /\ Len(t) = Len(s)
      /\ \A j \in 1..Len(s) : t[j] = IF j = i THEN e ELSE s[j]
  OBVIOUS
<1> HIDE DEF t
<1>2. ToSet(s) = {s[k] : k \in 1..Len(s)} /\ ToSet(t) = {t[k] : k \in 1..Len(s)}
  BY <1>1, ToSetFacts
<1>3. \A l \in 1..Len(s) : s[l] # e
  BY <1>2
<1>4. ToSet(t) = (ToSet(s) \ {s[i]}) \union {e}
  BY <1>1, <1>2 DEF Once
<1>5. Once(t)
  BY <1>1, <1>3 DEF Once
<1> QED
  BY <1>0, <1>1, <1>4, <1>5

\* add_memory() appends a block that is not in the list yet.
LEMMA AppendSet ==
  ASSUME NEW s \in Seq(Block), Once(s), NEW e \in Block, e \notin ToSet(s)
  PROVE  /\ Append(s, e) \in Seq(Block)
         /\ ToSet(Append(s, e)) = ToSet(s) \union {e}
         /\ Once(Append(s, e))
<1> DEFINE t == Append(s, e)
<1>0. Len(s) \in Nat
  OBVIOUS
<1>1. /\ t \in Seq(Block) /\ Len(t) = Len(s) + 1
      /\ \A j \in 1..Len(s) : t[j] = s[j]
      /\ t[Len(s) + 1] = e
  BY AppendProperties
<1> HIDE DEF t
<1>2. ToSet(s) = {s[k] : k \in 1..Len(s)} /\ ToSet(t) = {t[k] : k \in 1..(Len(s) + 1)}
  BY <1>1, ToSetFacts
<1>3. \A l \in 1..Len(s) : s[l] # e
  BY <1>2
<1>4. \A j \in 1..(Len(s) + 1) : j \in 1..Len(s) \/ j = Len(s) + 1
  BY <1>0
<1>5. ToSet(t) = ToSet(s) \union {e}
  BY <1>0, <1>1, <1>2, <1>4
<1>6. Once(t)
  BY <1>0, <1>1, <1>3, <1>4 DEF Once
<1> QED
  BY <1>1, <1>5, <1>6 DEF t

\* free() puts one block in the place of the run s[lo..hi].
LEMMA SpliceSet ==
  ASSUME NEW S, NEW s \in Seq(S), Once(s),
         NEW lo \in 1..Len(s), NEW hi \in 1..Len(s), lo < hi, NEW e \in S,
         e \notin ToSet(s) \ {s[k] : k \in lo..hi}
  PROVE  /\ Splice(s, lo, hi, e) \in Seq(S)
         /\ ToSet(Splice(s, lo, hi, e)) = (ToSet(s) \ {s[k] : k \in lo..hi}) \union {e}
         /\ Once(Splice(s, lo, hi, e))
<1> DEFINE g == Splice(s, lo, hi, e)
<1> DEFINE n == Len(s) - (hi - lo)
<1>0. Len(s) \in Nat /\ lo \in Nat /\ hi \in Nat
  OBVIOUS
<1>1a. g \in Seq(S)
  BY SpliceFacts
<1>1b. Len(g) = n
  BY SpliceFacts
<1>1c. ASSUME NEW j \in 1..n
       PROVE  g[j] = IF j < lo THEN s[j] ELSE IF j = lo THEN e ELSE s[j + (hi - lo)]
  BY SpliceFacts
<1>1. /\ g \in Seq(S) /\ Len(g) = n
      /\ \A j \in 1..n :
            g[j] = IF j < lo THEN s[j] ELSE IF j = lo THEN e ELSE s[j + (hi - lo)]
  BY <1>1a, <1>1b, <1>1c
<1> HIDE DEF g
<1>2. ToSet(s) = {s[k] : k \in 1..Len(s)} /\ ToSet(g) = {g[k] : k \in 1..n}
  BY <1>1, ToSetFacts
<1>3. ASSUME NEW j \in 1..Len(s), j \notin lo..hi
      PROVE  s[j] \in ToSet(g)
  <2>1. CASE j < lo
    <3>1. g[j] = s[j] /\ j \in 1..n
      BY <2>1, <1>0, <1>1
    <3> QED
      BY <3>1, <1>2
  <2>2. CASE hi < j
    <3> DEFINE l == j - (hi - lo)
    <3>1. l \in 1..n /\ lo < l /\ l + (hi - lo) = j
      BY <2>2, <1>0
    <3> HIDE DEF l
    <3>2. g[l] = s[l + (hi - lo)]
      BY <3>1, <1>0, <1>1
    <3> QED
      BY <3>1, <3>2, <1>2
  <2> QED
    BY <2>1, <2>2, <1>0, <1>3
<1>4. g[lo] = e /\ lo \in 1..n
  BY <1>0, <1>1
<1>5. ASSUME NEW j \in 1..n
      PROVE  /\ j < lo => g[j] = s[j] /\ j \in 1..Len(s) /\ j \notin lo..hi
             /\ j > lo => /\ g[j] = s[j + (hi - lo)]
                          /\ j + (hi - lo) \in 1..Len(s)
                          /\ j + (hi - lo) \notin lo..hi
  BY <1>0, <1>1
<1>6. ASSUME NEW j \in 1..n, j # lo
      PROVE  \E k \in (1..Len(s)) \ (lo..hi) : g[j] = s[k]
  BY <1>0, <1>5, <1>6
<1>7. ASSUME NEW k \in (1..Len(s)) \ (lo..hi)
      PROVE  s[k] \in ToSet(s) \ {s[l] : l \in lo..hi}
  <2>1. \A l \in lo..hi : l \in 1..Len(s)
    BY <1>0
  <2>2. \A l \in lo..hi : s[l] # s[k]
    BY <2>1 DEF Once
  <2> QED
    BY <2>2, <1>2
<1>7a. \A k \in (1..Len(s)) \ (lo..hi) : s[k] # e
  BY <1>7
<1>8. ToSet(g) \subseteq (ToSet(s) \ {s[k] : k \in lo..hi}) \union {e}
  BY <1>2, <1>4, <1>6, <1>7
<1>9. (ToSet(s) \ {s[k] : k \in lo..hi}) \union {e} \subseteq ToSet(g)
  BY <1>2, <1>3, <1>4
<1>10. ASSUME NEW j \in 1..n, NEW k \in 1..n, g[j] = g[k]
       PROVE  j = k
  <2>1. CASE j = lo \/ k = lo
    BY <2>1, <1>4, <1>6, <1>7a, <1>10
  <2>2. CASE j # lo /\ k # lo
    BY <2>2, <1>0, <1>5, <1>10 DEF Once
  <2> QED
    BY <2>1, <2>2
<1>11. Once(g)
  BY <1>1, <1>10 DEF Once
<1> QED
  BY <1>1, <1>8, <1>9, <1>11 DEF g

-----------------------------------------------------------------------------
(* free() merges a run of any length: joining its blocks one after the      *)
(* other keeps the tiling, so no shortest prefix of the run breaks it.      *)

LEMMA MergeRunTiles ==
  ASSUME NEW O, RegionsDisjoint(O), NEW L, Tiles(O, L),
         NEW s \in Seq(Block), Once(s), ToSet(s) \subseteq L,
         NEW lo \in 1..Len(s), NEW hi \in 1..Len(s), lo < hi,
         \A k \in lo..(hi - 1) : CanMerge(s, k)
  PROVE  /\ Merged(s, lo, hi) \in Block
         /\ Tiles(O, (L \ {s[k] : k \in lo..hi}) \union {Merged(s, lo, hi)})
<1> DEFINE Run(k) == {s[i] : i \in lo..k}
<1> DEFINE T(k) == (L \ Run(k)) \union {Merged(s, lo, k)}
<1> DEFINE P(k) == Merged(s, lo, k) \in Block /\ Tiles(O, T(k))
<1>0. Len(s) \in Nat /\ lo \in Nat /\ hi \in Nat
  OBVIOUS
<1>1. ASSUME NEW k \in 1..Len(s)
      PROVE  /\ s[k] \in L /\ s[k] \in Block /\ s[k].size > 0
             /\ s[k].begin \in Nat /\ s[k].size \in Nat /\ s[k].first \in BOOLEAN
             /\ End(s[k]) = s[k].begin + s[k].size
  <2>1. s[k] \in L /\ s[k] \in Block
    BY ToSetFacts
  <2> QED
    BY <2>1, BlockFields DEF Tiles
<1>2. ASSUME NEW k \in 1..Len(s), End(s[k]) - s[lo].begin \in Nat
      PROVE  /\ Merged(s, lo, k) \in Block
             /\ Merged(s, lo, k).begin = s[lo].begin
             /\ Merged(s, lo, k).size = End(s[k]) - s[lo].begin
             /\ Merged(s, lo, k).first = s[lo].first
             /\ End(Merged(s, lo, k)) = End(s[k])
  <2> DEFINE x == s[lo]
  <2> DEFINE z == End(s[k]) - s[lo].begin
  <2> DEFINE m == [x EXCEPT !.size = z]
  <2>1. x \in Block /\ x.begin \in Nat /\ End(s[k]) \in Nat /\ z \in Nat
    BY <1>1, <1>2
  <2>2. Merged(s, lo, k) = m
    BY DEF Merged
  <2>3. z = End(s[k]) - x.begin
    OBVIOUS
  <2> HIDE DEF x, z
  <2>4. m \in Block /\ m.begin = x.begin /\ m.size = z /\ m.first = x.first
    BY <2>1 DEF Block
  <2> HIDE DEF m
  <2>5. End(m) = x.begin + z
    BY <2>4 DEF End
  <2> QED
    BY <2>1, <2>2, <2>3, <2>4, <2>5 DEF x, z
<1>3. P(lo)
  <2>1. End(s[lo]) - s[lo].begin = s[lo].size
    BY <1>1
  <2>2. /\ Merged(s, lo, lo) \in Block
        /\ Merged(s, lo, lo).begin = s[lo].begin
        /\ Merged(s, lo, lo).size = s[lo].size
        /\ Merged(s, lo, lo).first = s[lo].first
    BY <1>1, <1>2, <2>1
  <2>3. Merged(s, lo, lo) = s[lo]
    BY <1>1, <2>2, BlockEqual
  <2>4. Run(lo) = {s[lo]}
    BY <1>0
  <2>5. T(lo) = L
    BY <1>1, <2>3, <2>4
  <2> QED
    BY <2>2, <2>5
<1>4. ASSUME NEW k \in lo..(hi - 1), P(k)
      PROVE  P(k + 1)
  <2> DEFINE a == Merged(s, lo, k)
  <2> DEFINE b == s[k+1]
  <2> DEFINE m == Merged(s, lo, k + 1)
  <2>0. k \in 1..Len(s) /\ k + 1 \in 1..Len(s) /\ k \in Nat
    BY <1>0
  <2>1. End(s[k]) = b.begin /\ ~b.first
    BY <1>0 DEF CanMerge
  <2>2. /\ b \in L /\ b \in Block /\ b.begin \in Nat /\ b.size \in Nat /\ b.size > 0
        /\ End(b) = b.begin + b.size /\ s[lo].begin \in Nat /\ s[lo] \in L
    BY <1>1, <2>0
  <2>3. /\ a \in Block /\ a \in T(k) /\ a.size \in Nat /\ a.size > 0
        /\ a.begin = s[lo].begin /\ a.first = s[lo].first
        /\ End(a) = End(s[k])
    <3>1. a \in Block /\ a \in T(k) /\ a.size > 0
      BY <1>4 DEF Tiles
    <3>2. a.begin = s[lo].begin /\ a.first = s[lo].first /\ a.size = End(s[k]) - s[lo].begin
      BY DEF Merged, Block
    <3>3. a.size \in Nat
      BY <3>1, BlockFields
    <3> QED
      BY <3>1, <3>2, <3>3, <1>2, <2>0
  <2>4. End(b) - s[lo].begin \in Nat
    <3>1. End(s[k]) = s[lo].begin + a.size
      BY <2>3, BlockFields
    <3> QED
      BY <3>1, <2>1, <2>2, <2>3
  <2>5. m \in Block /\ m.begin = a.begin /\ m.first = a.first /\ End(m) = End(b)
    BY <1>2, <2>0, <2>3, <2>4
  <2>6. b \notin Run(k)
    BY <1>0, <2>0 DEF Once
  <2>7. b \in T(k) /\ End(a) = b.begin
    BY <2>1, <2>2, <2>3, <2>6
  <2> HIDE DEF T
  <2>8. Tiles(O, (T(k) \ {a, b}) \union {m})
    BY <1>4, <2>1, <2>3, <2>5, <2>7, JoinTiles
  <2>9. Run(k + 1) = Run(k) \union {b}
    BY <1>0, <2>0
  <2>10. a \in L => a \in Run(k)
    <3>1. a \in L => a = s[lo]
      BY <2>2, <2>3, DistinctBegins
    <3>2. s[lo] \in Run(k)
      BY <1>0
    <3> QED
      BY <3>1, <3>2
  <2>11. (T(k) \ {a, b}) \union {m} = T(k + 1)
    <3> HIDE DEF Run, a, b, m
    <3>1. T(k) = (L \ Run(k)) \union {a}
      BY DEF T, a
    <3>2. T(k + 1) = (L \ Run(k + 1)) \union {m}
      BY DEF T, m
    <3> QED
      BY <2>9, <2>10, <3>1, <3>2
  <2> QED
    BY <2>5, <2>8, <2>11
<1> HIDE DEF P
<1>5. ASSUME NEW k \in lo..hi
      PROVE  P(k)
  <2> DEFINE Bad == {j \in lo..hi : ~P(j)}
  <2>1. SUFFICES ASSUME Bad # {} PROVE FALSE
    OBVIOUS
  <2>2. Bad \subseteq Nat
    BY <1>0
  <2>3. PICK j \in Bad : \A l \in Bad : j <= l
    BY <2>1, <2>2, LeastNat
  <2>4. j \in lo..hi /\ ~P(j) /\ j # lo
    BY <1>3, <2>3
  <2>5. j - 1 \in lo..(hi - 1) /\ j - 1 \in lo..hi /\ (j - 1) + 1 = j /\ ~(j <= j - 1)
    BY <1>0, <2>4
  <2>6. P(j - 1)
    BY <2>3, <2>5
  <2> QED
    BY <1>4, <2>4, <2>5, <2>6
<1>6. P(hi)
  BY <1>0, <1>5
<1> QED
  BY <1>6 DEF P

\* free() leaves a tiling whether or not it found a run to merge.
LEMMA CoalescedTiles ==
  ASSUME NEW O, RegionsDisjoint(O), NEW U, NEW s \in Seq(Block), Once(s),
         U \intersect ToSet(s) = {}, Tiles(O, U \union ToSet(s)),
         NEW t, IsCoalesced(s, t)
  PROVE  /\ t \in Seq(Block)
         /\ Once(t)
         /\ U \intersect ToSet(t) = {}
         /\ Tiles(O, U \union ToSet(t))
<1>1. CASE t = s
  BY <1>1
<1>2. CASE t # s
  <2>1. PICK lo, hi \in DOMAIN s : IsFirstRun(s, lo, hi) /\ t = ReplaceRun(s, lo, hi)
    BY <1>2 DEF IsCoalesced
  <2> DEFINE L == U \union ToSet(s)
  <2> DEFINE Run == {s[k] : k \in lo..hi}
  <2> DEFINE m == Merged(s, lo, hi)
  <2>2. lo \in 1..Len(s) /\ hi \in 1..Len(s) /\ lo < hi
    BY <2>1 DEF IsFirstRun
  <2>3. \A k \in lo..(hi - 1) : CanMerge(s, k)
    BY <2>1 DEF IsFirstRun
  <2>4. ToSet(s) \subseteq L
    OBVIOUS
  <2> HIDE DEF L
  <2>5. m \in Block /\ Tiles(O, (L \ Run) \union {m})
    BY <2>2, <2>3, <2>4, MergeRunTiles DEF L
  <2>6. m.begin = s[lo].begin
    <3>1. s[lo] \in Block
      BY <2>2
    <3> QED
      BY <3>1 DEF Merged, Block
  <2>7. s[lo] \in L /\ s[lo] \in Run
    <3>1. s[lo] \in ToSet(s)
      BY <2>2, ToSetFacts
    <3> QED
      BY <2>2, <2>4, <3>1
  <2> HIDE DEF Run, m
  <2>8. m \notin L \ Run
    BY <2>6, <2>7, DistinctBegins DEF L
  <2>9. t = Splice(s, lo, hi, m)
    BY <2>1 DEF ReplaceRun, Splice, m
  <2>10. m \notin ToSet(s) \ Run
    BY <2>4, <2>8
  <2>11. /\ t \in Seq(Block) /\ Once(t)
         /\ ToSet(t) = (ToSet(s) \ Run) \union {m}
    BY <2>2, <2>5, <2>9, <2>10, SpliceSet DEF Run
  <2>12. Run \subseteq ToSet(s)
    BY <2>2, ToSetFacts DEF Run
  <2>13. U \union ToSet(t) = (L \ Run) \union {m}
    BY <2>11, <2>12 DEF L
  <2>14. m \notin U
    BY <2>8, <2>12 DEF L
  <2> QED
    BY <2>5, <2>11, <2>13, <2>14
<1> QED
  BY <1>1, <1>2

\* free() inserts at a position of the list or behind its end.
LEMMA InsertPosInRange ==
  ASSUME free \in Seq(Block), NEW b
  PROVE  InsertPos(b) \in 1..(Len(free) + 1)
<1> DEFINE Higher == {i \in DOMAIN free : free[i].begin > b.begin}
<1>0. Len(free) \in Nat /\ DOMAIN free = 1..Len(free)
  OBVIOUS
<1>1. Higher \subseteq 1..Len(free)
  BY <1>0
<1>2. InsertPos(b) = IF Higher = {} THEN Len(free) + 1 ELSE Min(Higher)
  BY DEF InsertPos
<1> HIDE DEF Higher
<1>3. ASSUME Higher # {}
      PROVE  Min(Higher) \in Higher
  <2>1. Higher \subseteq Nat
    BY <1>0, <1>1
  <2>2. \E m \in Higher : \A k \in Higher : m <= k
    BY <1>3, <2>1, LeastNat
  <2> QED
    BY <2>2 DEF Min
<1>4. CASE Higher = {}
  BY <1>0, <1>2, <1>4
<1>5. CASE Higher # {}
  <2>1. InsertPos(b) \in 1..Len(free)
    BY <1>1, <1>2, <1>3, <1>5
  <2> QED
    BY <1>0, <2>1
<1> QED
  BY <1>4, <1>5

-----------------------------------------------------------------------------
(* The inductive invariant. *)

LEMMA InitInv == PoolInit => PoolInv
<1> SUFFICES ASSUME PoolInit PROVE PoolInv
  OBVIOUS
<1>1. PICK r \in Regions :
        /\ owned = {r} /\ used = {} /\ free = <<WholeRegion(r)>>
        /\ poolSize = WholeRegion(r).size /\ freeMem = WholeRegion(r).size
        /\ locked = FALSE
  BY DEF PoolInit
<1>2. RegionsDisjoint({}) /\ Tiles({}, {})
  BY DEF RegionsDisjoint, Tiles
<1>3. /\ WholeRegion(r) \in Block
      /\ RegionsDisjoint({} \union {r})
      /\ Tiles({} \union {r}, {} \union {WholeRegion(r)})
  BY <1>2, GrowTiles
<1> DEFINE w == WholeRegion(r)
<1>4. w.size \in Nat
  BY <1>3, BlockFields
<1> HIDE DEF w
<1>5. <<w>> \in Seq(Block) /\ ToSet(<<w>>) = {w} /\ Once(<<w>>)
  BY <1>3 DEF ToSet, Once, w
<1>6. owned = {r} /\ used = {} /\ free = <<w>> /\ poolSize = w.size /\ freeMem = w.size
  BY <1>1 DEF w
<1>7. RegionsDisjoint({r}) /\ Tiles({r}, {w})
  <2>1. {} \union {r} = {r} /\ {} \union {w} = {w}
    OBVIOUS
  <2> QED
    BY <1>3, <2>1 DEF w
<1>8. Tiles(owned, used \union ToSet(free)) /\ used \intersect ToSet(free) = {}
  <2>1. used \union ToSet(free) = {w}
    BY <1>5, <1>6
  <2> QED
    BY <1>6, <1>7, <2>1
<1>9. free \in Seq(Block) /\ Once(free)
  BY <1>5, <1>6
<1>10. poolSize \in Int /\ freeMem \in Int /\ locked \in BOOLEAN
  <2>1. poolSize \in Int /\ freeMem \in Int
    BY <1>4, <1>6
  <2>2. locked \in BOOLEAN
    BY <1>1
  <2> QED
    BY <2>1, <2>2
<1> QED
  BY <1>6, <1>7, <1>8, <1>9, <1>10 DEF PoolInv

LEMMA AddMemoryInv ==
  ASSUME PoolInv, NEW r \in Regions, Fresh(r), AddMemory(r)
  PROVE  PoolInv'
<1> DEFINE w == WholeRegion(r)
<1> DEFINE L == used \union ToSet(free)
<1>1. /\ w \in Block /\ w \notin L
      /\ RegionsDisjoint(owned \union {r})
      /\ Tiles(owned \union {r}, L \union {w})
  BY GrowTiles DEF PoolInv, Fresh
<1>2. w.size \in Nat
  BY <1>1, BlockFields
<1>3. /\ owned' = owned \union {r} /\ used' = used /\ free' = Append(free, w)
      /\ poolSize' = poolSize + w.size /\ freeMem' = freeMem + w.size
      /\ locked' = locked
  BY DEF AddMemory
<1> HIDE DEF w
<1>4. /\ Append(free, w) \in Seq(Block)
      /\ ToSet(Append(free, w)) = ToSet(free) \union {w}
      /\ Once(Append(free, w))
  BY <1>1, AppendSet DEF PoolInv
<1>5. L \union {w} = used' \union ToSet(free')
  BY <1>3, <1>4
<1>6. poolSize' \in Int /\ freeMem' \in Int /\ locked' \in BOOLEAN
  BY <1>2, <1>3 DEF PoolInv
<1>7. used' \intersect ToSet(free') = {}
  BY <1>1, <1>3, <1>4 DEF PoolInv
<1>8. RegionsDisjoint(owned') /\ Tiles(owned', used' \union ToSet(free'))
  BY <1>1, <1>3, <1>5
<1>9. free' \in Seq(Block) /\ Once(free')
  BY <1>3, <1>4
<1> QED
  BY <1>6, <1>7, <1>8, <1>9 DEF PoolInv

LEMMA FreeInv ==
  ASSUME PoolInv, NEW b \in used, Free(b)
  PROVE  PoolInv'
<1> DEFINE s == InsertAt(free, InsertPos(b), b)
<1> DEFINE U == used \ {b}
<1>1. /\ b \in Block /\ b \notin ToSet(free) /\ free \in Seq(Block) /\ Once(free)
      /\ RegionsDisjoint(owned)
  BY DEF PoolInv, Tiles
<1>2. /\ s \in Seq(Block) /\ ToSet(s) = ToSet(free) \union {b} /\ Once(s)
  BY <1>1, InsertPosInRange, InsertSet
<1>3. /\ IsCoalesced(s, free') /\ used' = U /\ freeMem' = freeMem + b.size
      /\ owned' = owned /\ poolSize' = poolSize /\ locked' = locked
  BY DEF Free
<1> HIDE DEF s
<1>4. U \union ToSet(s) = used \union ToSet(free) /\ U \intersect ToSet(s) = {}
  BY <1>2 DEF PoolInv
<1>5. Tiles(owned, U \union ToSet(s))
  BY <1>4 DEF PoolInv
<1> HIDE DEF U
<1>6. /\ free' \in Seq(Block) /\ Once(free') /\ U \intersect ToSet(free') = {}
      /\ Tiles(owned, U \union ToSet(free'))
  BY <1>1, <1>2, <1>3, <1>4, <1>5, CoalescedTiles
<1>7. poolSize' \in Int /\ freeMem' \in Int /\ locked' \in BOOLEAN
  BY <1>1, <1>3, BlockFields DEF PoolInv
<1> QED
  BY <1>1, <1>3, <1>6, <1>7 DEF PoolInv

\* The rest of a split block begins where no block of the lists begins.
LEMMA AllocateInv ==
  ASSUME PoolInv, NEW n \in Requests, NEW i \in DOMAIN free, Allocate(n, i)
  PROVE  /\ PoolInv'
         /\ Taken(free[i], n) \in Block /\ Taken(free[i], n).size > 0
         /\ Taken(free[i], n) \notin used
         /\ \E r \in owned : Within(Taken(free[i], n), r)
<1> DEFINE f == free[i]
<1> DEFINE t == Taken(f, n)
<1> DEFINE q == Rest(f, n)
<1> DEFINE L == used \union ToSet(free)
<1> DEFINE z == PageRoundUp(n)
<1>0. i \in 1..Len(free) /\ f \in Block /\ f \in L /\ f \in ToSet(free) /\ f.size > 0
  <2>1. free \in Seq(Block) /\ Tiles(owned, L)
    BY DEF PoolInv
  <2>2. i \in 1..Len(free) /\ f \in ToSet(free)
    BY <2>1, ToSetFacts
  <2> QED
    BY <2>1, <2>2 DEF Tiles
<1>1. z \in Nat /\ z > 0 /\ z <= f.size
  <2>1. n \in Nat /\ n > 0
    BY RequestsAssumption DEF Allocate
  <2>2. z \in Nat /\ n <= z
    BY <2>1, PageRoundUpBounds
  <2>3. z <= f.size
    BY DEF Allocate, IsBestFit, Fitting
  <2> QED
    BY <2>1, <2>2, <2>3
<1>2. f.begin \in Nat /\ f.size \in Nat /\ f.first \in BOOLEAN /\ End(f) = f.begin + f.size
  BY <1>0, BlockFields
<1>3. t = [begin |-> f.begin, size |-> z, first |-> f.first]
  BY DEF Taken
<1>4. q = [begin |-> f.begin + z, size |-> f.size - z, first |-> FALSE]
  BY DEF Rest
<1>5. /\ used' = used \union {t}
      /\ free' = IF f.size = z THEN RemoveAt(free, i) ELSE ReplaceAt(free, i, q)
      /\ freeMem' = freeMem - z
      /\ owned' = owned /\ poolSize' = poolSize /\ locked' = locked
  BY DEF Allocate
<1> HIDE DEF f, t, q, L, z
<1>6. /\ t \in Block /\ t.size > 0 /\ t.begin = f.begin /\ t.first = f.first
      /\ t.size = z /\ End(t) = f.begin + z
  BY <1>1, <1>2, <1>3 DEF Block, End
<1>7. /\ RegionsDisjoint(owned) /\ Tiles(owned, L) /\ used \subseteq L
      /\ used \intersect ToSet(free) = {} /\ free \in Seq(Block) /\ Once(free)
  BY DEF PoolInv, L
<1>8. t \notin used
  <2>1. ASSUME t \in used
        PROVE  FALSE
    <3>1. t = f
      BY <2>1, <1>0, <1>6, <1>7, DistinctBegins
    <3> QED
      BY <2>1, <3>1, <1>0, <1>7
  <2> QED
    BY <2>1
<1>9. \E r \in owned : Within(t, r)
  <2>1. PICK r \in owned : Within(f, r)
    BY <1>0, <1>7 DEF Tiles
  <2>2. Start(r) \in Nat /\ End(r) \in Nat
    BY <1>7, RegionBounds DEF RegionsDisjoint
  <2> QED
    BY <2>1, <2>2, <1>1, <1>2, <1>6 DEF Within
<1>10. freeMem' \in Int /\ poolSize' \in Int /\ locked' \in BOOLEAN
  BY <1>1, <1>5 DEF PoolInv
<1>11. CASE f.size = z
  <2>1. t = f
    BY <1>0, <1>6, <1>11, BlockEqual
  <2>2. free' = RemoveAt(free, i)
    BY <1>5, <1>11
  <2>3. free' \in Seq(Block) /\ Once(free') /\ ToSet(free') = ToSet(free) \ {f}
    BY <2>2, <1>0, <1>7, RemoveSet DEF f
  <2>4. used' \union ToSet(free') = L /\ used' \intersect ToSet(free') = {}
    BY <2>1, <2>3, <1>0, <1>5, <1>7 DEF L
  <2>5. PoolInv'
    BY <2>3, <2>4, <1>5, <1>7, <1>10 DEF PoolInv
  <2> QED
    BY <2>5, <1>6, <1>8, <1>9 DEF t, f
<1>12. CASE f.size # z
  <2>1. /\ q \in Block /\ q.begin = f.begin + z /\ q.size > 0
        /\ End(q) = End(f) /\ q.begin = End(t)
    <3>1. f.size - z \in Nat /\ f.size - z > 0
      BY <1>1, <1>2, <1>12
    <3>2. q \in Block /\ q.begin = f.begin + z /\ q.size = f.size - z
      BY <3>1, <1>1, <1>2, <1>4 DEF Block
    <3>3. End(q) = q.begin + q.size
      BY DEF End
    <3> QED
      BY <3>1, <3>2, <3>3, <1>1, <1>2, <1>6
  <2> DEFINE M == (L \ {f}) \union {t, q}
  <2>2. Tiles(owned, M)
    BY <2>1, <1>0, <1>6, <1>7, SplitTiles
  <2>3. q \notin L
    <3>1. ASSUME q \in L
          PROVE  FALSE
      <4>1. q # f
        BY <2>1, <1>1, <1>2
      <4>2. Disjoint(q, f)
        BY <3>1, <4>1, <1>0, <1>7 DEF Tiles
      <4>3. q.begin \in Nat /\ q.size \in Nat /\ End(q) = q.begin + q.size
        BY <2>1, BlockFields
      <4> QED
        BY <2>1, <4>2, <4>3, <1>1, <1>2 DEF Disjoint
    <3> QED
      BY <3>1
  <2>4. free' = ReplaceAt(free, i, q)
    BY <1>5, <1>12
  <2>5. /\ free' \in Seq(Block) /\ Once(free')
        /\ ToSet(free') = (ToSet(free) \ {f}) \union {q}
    BY <2>1, <2>3, <2>4, <1>0, <1>7, ReplaceSet DEF f, L
  <2>6. used' \union ToSet(free') = M
    BY <2>5, <1>0, <1>5, <1>7 DEF L
  <2>7. t # f /\ t # q
    BY <2>1, <1>1, <1>2, <1>6, <1>12
  <2>8. t \notin ToSet(free)
    BY <2>7, <1>0, <1>6, <1>7, DistinctBegins DEF L
  <2>9. used' \intersect ToSet(free') = {}
    BY <2>3, <2>5, <2>7, <2>8, <1>5, <1>7 DEF L
  <2>10. PoolInv'
    BY <2>2, <2>5, <2>6, <2>9, <1>5, <1>7, <1>10 DEF PoolInv
  <2> QED
    BY <2>10, <1>6, <1>8, <1>9 DEF t, f
<1> QED
  BY <1>11, <1>12

LEMMA NextInv == PoolInv /\ [PoolNext]_poolVars => PoolInv'
<1> SUFFICES ASSUME PoolInv, [PoolNext]_poolVars PROVE PoolInv'
  OBVIOUS
<1>1. ASSUME NEW r \in Regions, Fresh(r), AddMemory(r)
      PROVE  PoolInv'
  BY <1>1, AddMemoryInv
<1>2. ASSUME NEW n \in Requests, NEW i \in DOMAIN free, Allocate(n, i)
      PROVE  PoolInv'
  BY <1>2, AllocateInv
<1>3. ASSUME NEW n \in Requests, AllocateNothing(n)
      PROVE  PoolInv'
  BY <1>3 DEF AllocateNothing, poolVars, PoolInv
<1>4. CASE AllocateZero
  BY <1>4 DEF AllocateZero, PoolInv
<1>5. ASSUME NEW b \in used, Free(b)
      PROVE  PoolInv'
  BY <1>5, FreeInv
<1>6. CASE UNCHANGED poolVars
  BY <1>6 DEF poolVars, PoolInv
<1> QED
  BY <1>1, <1>2, <1>3, <1>4, <1>5, <1>6 DEF PoolNext

\* The tiling holds at every step of every pool, for every sequence of
\* allocate(), free() and add_memory() calls.
THEOREM PoolInvariant == PoolSpec => []PoolInv
<1> QED
  BY InitInv, NextInv, PTL DEF PoolSpec

-----------------------------------------------------------------------------
(* What follows from the invariant. *)

LEMMA InvImpliesType == PoolInv => PoolTypeOK
  BY ToSetFacts DEF PoolInv, PoolTypeOK, Tiles, RegionsDisjoint

LEMMA InvImpliesNoOverlap == PoolInv => NoOverlap
<1> SUFFICES ASSUME PoolInv PROVE NoOverlap
  OBVIOUS
<1> DEFINE L == used \union ToSet(free)
<1>1. \A a, b \in L : a # b => Disjoint(a, b)
  BY DEF PoolInv, Tiles
<1>2. DOMAIN free = 1..Len(free) /\ \A i \in DOMAIN free : free[i] \in ToSet(free)
  BY ToSetFacts DEF PoolInv
<1>3. \A b \in used, i \in DOMAIN free : b # free[i]
  BY <1>2 DEF PoolInv
<1>4. \A i, j \in DOMAIN free : i # j => free[i] # free[j]
  BY <1>2 DEF PoolInv, Once
<1> QED
  BY <1>1, <1>2, <1>3, <1>4 DEF NoOverlap

LEMMA InvImpliesNoLeak == PoolInv => NoLeak
<1> SUFFICES ASSUME PoolInv, NEW r \in owned, NEW p \in Start(r)..(End(r) - 1)
    PROVE  \/ \E b \in used : Covers(b, p)
           \/ \E i \in DOMAIN free : Covers(free[i], p)
  BY DEF NoLeak
<1>1. PICK b \in used \union ToSet(free) : Covers(b, p)
  BY DEF PoolInv, Tiles
<1>2. ASSUME b \in ToSet(free)
      PROVE  \E i \in DOMAIN free : b = free[i]
  BY <1>2 DEF ToSet
<1> QED
  BY <1>1, <1>2

\* Type correctness of the pool.
THEOREM PoolTypeCorrect == PoolSpec => []PoolTypeOK
<1> QED
  BY PoolInvariant, InvImpliesType, PTL

LEMMA InvImpliesTiling == PoolInv => BlocksTileRegions
<1>1. PoolInv => RegionsApart
  BY DEF PoolInv, Tiles, RegionsApart
<1> QED
  BY <1>1, InvImpliesNoOverlap, InvImpliesNoLeak DEF BlocksTileRegions

\* Whatever the page size, the regions and the requests: allocate() never
\* hands out memory that is in use or still free, no byte of an owned region
\* is lost between the two lists, and free() never joins two regions, even
\* adjacent ones (m_first suffices).
THEOREM BlocksAlwaysTile == PoolSpec => []BlocksTileRegions
<1> QED
  BY PoolInvariant, InvImpliesTiling, PTL

-----------------------------------------------------------------------------
(* The statistics. *)

\* What the lists consist of, by the tiling: no need to follow splits and merges.
OwnedBytes == Bytes({WholeRegion(r) : r \in owned})

AccountInv ==
  /\ IsFiniteSet(Bytes(used)) /\ Cardinality(Bytes(used)) = poolSize - freeMem
  /\ IsFiniteSet(OwnedBytes) /\ Cardinality(OwnedBytes) = poolSize

\* A block has as many bytes as its size says.
LEMMA BlockBytes ==
  ASSUME NEW b \in Block
  PROVE  IsFiniteSet(Bytes({b})) /\ Cardinality(Bytes({b})) = b.size
<1>1. b.begin \in Nat /\ b.size \in Nat /\ End(b) = b.begin + b.size
  BY BlockFields
<1>2. Bytes({b}) = b.begin..(End(b) - 1)
  BY DEF Bytes
<1> DEFINE first == b.begin
           last == End(b) - 1
<1>3. first \in Int /\ last \in Int
  BY <1>1
<1>4. b.size = IF first > last THEN 0 ELSE last - first + 1
  BY <1>1
<1>5. /\ IsFiniteSet(first..last)
      /\ Cardinality(first..last) = IF first > last THEN 0 ELSE last - first + 1
  <2> HIDE DEF first, last
  <2> QED
    BY <1>3, FS_Interval
<1> QED
  BY <1>2, <1>4, <1>5

\* A block apart from others adds its size.
LEMMA BytesAdded ==
  ASSUME NEW S, IsFiniteSet(Bytes(S)), NEW b \in Block,
         Bytes({b}) \intersect Bytes(S) = {}
  PROVE  /\ IsFiniteSet(Bytes(S \union {b}))
         /\ Cardinality(Bytes(S \union {b})) = Cardinality(Bytes(S)) + b.size
<1>1. Bytes(S \union {b}) = Bytes(S) \union Bytes({b})
  BY DEF Bytes
<1>2. IsFiniteSet(Bytes({b})) /\ Cardinality(Bytes({b})) = b.size
  BY BlockBytes
<1>3. Cardinality(Bytes(S)) \in Nat /\ b.size \in Nat
  BY FS_CardinalityType, BlockFields
<1>4. Bytes(S) \intersect Bytes({b}) = {}
  OBVIOUS
<1> DEFINE A == Bytes(S)
           B == Bytes({b})
<1>5. /\ IsFiniteSet(A \union B)
      /\ Cardinality(A \union B) = Cardinality(A) + Cardinality(B) - Cardinality(A \intersect B)
  <2>1. IsFiniteSet(A) /\ IsFiniteSet(B)
    BY <1>2
  <2> HIDE DEF A, B
  <2> QED
    BY <2>1, FS_Union
<1>6. Cardinality(A \intersect B) = 0
  BY <1>4, FS_EmptySet
<1>7. Cardinality(A) \in Nat /\ Cardinality(B) = b.size
  BY <1>2, <1>3
<1>8. Cardinality(A \union B) = Cardinality(A) + b.size
  <2> HIDE DEF A, B
  <2> QED
    BY <1>3, <1>5, <1>6, <1>7
<1> QED
  BY <1>1, <1>5, <1>8

\* Blocks of a tiling share no byte.
LEMMA BytesApart ==
  ASSUME NEW R, NEW L, Tiles(R, L), NEW S \in SUBSET L, NEW T \in SUBSET L,
         S \intersect T = {}
  PROVE  Bytes(S) \intersect Bytes(T) = {}
<1>1. SUFFICES ASSUME NEW a \in S, NEW b \in T, NEW p \in a.begin..(End(a) - 1),
                      p \in b.begin..(End(b) - 1)
               PROVE  FALSE
  BY DEF Bytes
<1>2. Disjoint(a, b) /\ a \in Block /\ b \in Block
  BY <1>1 DEF Tiles
<1>3. /\ a.begin \in Nat /\ End(a) \in Nat /\ b.begin \in Nat /\ End(b) \in Nat
  BY <1>2, BlockFields
<1> QED
  BY <1>1, <1>2, <1>3 DEF Disjoint

\* Both lists together have the bytes of the regions.
LEMMA AllBytes ==
  ASSUME PoolInv
  PROVE  /\ OwnedBytes = Bytes(ToSet(free)) \union Bytes(used)
         /\ Bytes(ToSet(free)) \intersect Bytes(used) = {}
<1> DEFINE L == used \union ToSet(free)
<1>1. Tiles(owned, L) /\ RegionsDisjoint(owned) /\ used \intersect ToSet(free) = {}
  BY DEF PoolInv
<1>2. \A r \in owned :
        /\ WholeRegion(r).begin = Start(r) /\ End(WholeRegion(r)) = End(r)
        /\ Start(r) \in Nat /\ End(r) \in Nat
  <2>1. SUFFICES ASSUME NEW r \in owned
                 PROVE  /\ WholeRegion(r).begin = Start(r) /\ End(WholeRegion(r)) = End(r)
                        /\ Start(r) \in Nat /\ End(r) \in Nat
    OBVIOUS
  <2>2. Start(r) \in Nat /\ End(r) \in Nat
    BY <1>1, RegionBounds DEF RegionsDisjoint
  <2>3. WholeRegion(r).begin = Start(r) /\ WholeRegion(r).size = End(r) - Start(r)
    BY DEF WholeRegion
  <2>4. End(WholeRegion(r)) = WholeRegion(r).begin + WholeRegion(r).size
    BY DEF End
  <2> QED
    BY <2>2, <2>3, <2>4
<1>3. OwnedBytes \subseteq Bytes(L)
  <2>1. SUFFICES ASSUME NEW r \in owned, NEW p \in Start(r)..(End(r) - 1)
                 PROVE  p \in Bytes(L)
    BY <1>2 DEF OwnedBytes, Bytes
  <2>2. PICK b \in L : Covers(b, p)
    BY <1>1, <2>1 DEF Tiles
  <2>3. b.begin \in Nat /\ End(b) \in Nat /\ p \in Int
    BY <1>1, <1>2, <2>1, <2>2, BlockFields DEF Tiles
  <2>4. p \in b.begin..(End(b) - 1)
    BY <2>2, <2>3 DEF Covers
  <2> QED
    BY <2>2, <2>4 DEF Bytes
<1>4. Bytes(L) \subseteq OwnedBytes
  <2>1. SUFFICES ASSUME NEW b \in L, NEW p \in b.begin..(End(b) - 1)
                 PROVE  p \in OwnedBytes
    BY DEF Bytes
  <2>2. PICK r \in owned : Within(b, r)
    BY <1>1, <2>1 DEF Tiles
  <2>3. b.begin \in Nat /\ End(b) \in Nat
    BY <1>1, <2>1, BlockFields DEF Tiles
  <2>4. p \in Start(r)..(End(r) - 1)
    BY <1>2, <2>1, <2>2, <2>3 DEF Within
  <2>5. p \in WholeRegion(r).begin..(End(WholeRegion(r)) - 1)
    BY <1>2, <2>2, <2>4
  <2> QED
    BY <2>2, <2>5 DEF OwnedBytes, Bytes
<1>5. Bytes(L) = Bytes(ToSet(free)) \union Bytes(used)
  BY DEF Bytes
<1>6. Bytes(ToSet(free)) \intersect Bytes(used) = {}
  BY <1>1, BytesApart
<1> QED
  BY <1>3, <1>4, <1>5, <1>6

LEMMA AccountsExact ==
  ASSUME PoolInv, AccountInv
  PROVE  AccountingExact
<1> DEFINE F == Bytes(ToSet(free))
           U == Bytes(used)
<1>1. OwnedBytes = F \union U /\ F \intersect U = {}
  BY AllBytes
<1>2. IsFiniteSet(F) /\ IsFiniteSet(U)
  <2>1. F \in SUBSET OwnedBytes /\ IsFiniteSet(OwnedBytes) /\ IsFiniteSet(U)
    BY <1>1 DEF AccountInv
  <2> HIDE DEF F, U
  <2> QED
    BY <2>1, FS_Subset
<1>3. Cardinality(F \union U) = Cardinality(F) + Cardinality(U) - Cardinality(F \intersect U)
  <2> HIDE DEF F, U
  <2> QED
    BY <1>2, FS_Union
<1>4. Cardinality(F) \in Nat /\ Cardinality(U) \in Nat /\ Cardinality(F \intersect U) = 0
  <2> HIDE DEF F, U
  <2> QED
    BY <1>1, <1>2, FS_CardinalityType, FS_EmptySet
<1>5. Cardinality(U) = poolSize - freeMem /\ Cardinality(F \union U) = poolSize
  BY <1>1 DEF AccountInv
<1>6. poolSize \in Int /\ freeMem \in Int
  BY DEF PoolInv
<1>7. Cardinality(F) = freeMem
  <2> HIDE DEF F, U
  <2> QED
    BY <1>3, <1>4, <1>5, <1>6
<1> QED
  BY <1>5, <1>7 DEF AccountingExact

LEMMA AccountInit == PoolInit => AccountInv
<1>1. SUFFICES ASSUME PoolInit PROVE AccountInv
  OBVIOUS
<1>2. PICK r \in Regions : /\ owned = {r} /\ used = {} /\ poolSize = WholeRegion(r).size
                           /\ freeMem = WholeRegion(r).size
  BY <1>1 DEF PoolInit
<1>3. WholeRegion(r) \in Block
  <2>1. RegionsDisjoint({}) /\ Tiles({}, {})
    BY DEF RegionsDisjoint, Tiles
  <2>2. /\ WholeRegion(r) \in Block
        /\ Tiles({} \union {r}, {} \union {WholeRegion(r)})
    BY <2>1, GrowTiles
  <2> QED
    BY <2>2
<1>4. OwnedBytes = Bytes({WholeRegion(r)})
  BY <1>2 DEF OwnedBytes
<1>5. Bytes(used) = {}
  BY <1>2 DEF Bytes
<1>6. /\ IsFiniteSet(OwnedBytes) /\ Cardinality(OwnedBytes) = WholeRegion(r).size
      /\ WholeRegion(r).size \in Nat
  BY <1>3, <1>4, BlockBytes, BlockFields
<1>7. IsFiniteSet(Bytes(used)) /\ Cardinality(Bytes(used)) = 0
  BY <1>5, FS_EmptySet
<1>8. Cardinality(Bytes(used)) = poolSize - freeMem
  BY <1>2, <1>6, <1>7
<1> QED
  BY <1>2, <1>6, <1>7, <1>8 DEF AccountInv

LEMMA AddMemoryAccount ==
  ASSUME PoolInv, AccountInv, NEW r \in Regions, Fresh(r), AddMemory(r)
  PROVE  AccountInv'
<1> DEFINE w == WholeRegion(r)
           W == {WholeRegion(o) : o \in owned}
<1>1. /\ owned' = owned \union {r} /\ used' = used
      /\ poolSize' = poolSize + w.size /\ freeMem' = freeMem + w.size
  BY DEF AddMemory
<1>2. w \in Block /\ RegionsDisjoint(owned)
  BY GrowTiles DEF PoolInv, Fresh
<1>3. {WholeRegion(o) : o \in owned'} = W \union {w}
  BY <1>1
<1>4. Bytes({w}) \intersect Bytes(W) = {}
  <2>1. SUFFICES ASSUME NEW o \in owned, NEW p \in w.begin..(End(w) - 1),
                        p \in WholeRegion(o).begin..(End(WholeRegion(o)) - 1)
                 PROVE  FALSE
    BY DEF Bytes
  <2>2. \A q \in Regions : /\ q.begin \in Nat /\ End(q) \in Nat /\ q.begin <= WholeRegion(q).begin
                           /\ WholeRegion(q).begin \in Nat /\ End(WholeRegion(q)) = End(q)
    <3>1. SUFFICES ASSUME NEW q \in Regions
                   PROVE  /\ q.begin \in Nat /\ End(q) \in Nat /\ q.begin <= WholeRegion(q).begin
                          /\ WholeRegion(q).begin \in Nat /\ End(WholeRegion(q)) = End(q)
      OBVIOUS
    <3>2. Start(q) \in Nat /\ End(q) \in Nat /\ q.begin <= Start(q) /\ q.begin \in Nat
      BY RegionBounds, RegionsAssumption DEF RegionType
    <3>3. WholeRegion(q).begin = Start(q) /\ WholeRegion(q).size = End(q) - Start(q)
      BY DEF WholeRegion
    <3>4. End(WholeRegion(q)) = WholeRegion(q).begin + WholeRegion(q).size
      BY DEF End
    <3> QED
      BY <3>2, <3>3, <3>4
  <2>3. Disjoint(r, o) /\ o \in Regions
    BY <1>2, <2>1 DEF Fresh, RegionsDisjoint
  <2>4. /\ r.begin <= w.begin /\ End(w) = End(r) /\ w.begin \in Nat /\ r.begin \in Nat
        /\ End(r) \in Nat
    BY <2>2
  <2> HIDE DEF w
  <2> QED
    BY <2>1, <2>2, <2>3, <2>4 DEF Disjoint
<1>5. OwnedBytes = Bytes(W) /\ OwnedBytes' = Bytes(W \union {w})
  BY <1>3 DEF OwnedBytes
<1>6. w.size \in Nat /\ poolSize \in Int /\ freeMem \in Int
  BY <1>2, BlockFields DEF PoolInv
<1> HIDE DEF w, W
<1>7. /\ IsFiniteSet(OwnedBytes')
      /\ Cardinality(OwnedBytes') = Cardinality(OwnedBytes) + w.size
  BY <1>2, <1>4, <1>5, BytesAdded DEF AccountInv
<1>8. Bytes(used)' = Bytes(used) /\ poolSize' - freeMem' = poolSize - freeMem
  BY <1>1, <1>6 DEF Bytes
<1> QED
  BY <1>1, <1>7, <1>8 DEF AccountInv

LEMMA AllocateAccount ==
  ASSUME PoolInv, AccountInv, NEW n \in Requests, NEW i \in DOMAIN free, Allocate(n, i)
  PROVE  AccountInv'
<1> DEFINE t == Taken(free[i], n)
<1>1. PoolInv' /\ t \in Block /\ t \notin used
  BY AllocateInv
<1>2. /\ owned' = owned /\ used' = used \union {t} /\ poolSize' = poolSize
      /\ freeMem' = freeMem - t.size
  BY DEF Allocate, Taken
<1> HIDE DEF t
<1>3. Bytes({t}) \intersect Bytes(used) = {}
  <2>1. Tiles(owned', used' \union ToSet(free'))
    BY <1>1 DEF PoolInv
  <2>2. {t} \subseteq used' \union ToSet(free') /\ used \subseteq used' \union ToSet(free')
        /\ {t} \intersect used = {}
    BY <1>1, <1>2
  <2> QED
    BY <2>1, <2>2, BytesApart
<1>4. /\ IsFiniteSet(Bytes(used \union {t}))
      /\ Cardinality(Bytes(used \union {t})) = Cardinality(Bytes(used)) + t.size
  BY <1>1, <1>3, BytesAdded DEF AccountInv
<1>5. Bytes(used)' = Bytes(used \union {t}) /\ OwnedBytes' = OwnedBytes
  BY <1>2 DEF Bytes, OwnedBytes
<1>6. t.size \in Nat /\ poolSize \in Int /\ freeMem \in Int
  BY <1>1, BlockFields DEF PoolInv
<1> QED
  BY <1>2, <1>4, <1>5, <1>6 DEF AccountInv

LEMMA FreeAccount ==
  ASSUME PoolInv, AccountInv, NEW b \in used, Free(b)
  PROVE  AccountInv'
<1> DEFINE U == used \ {b}
<1>1. /\ owned' = owned /\ used' = U /\ poolSize' = poolSize /\ freeMem' = freeMem + b.size
  BY DEF Free
<1>2. /\ b \in Block /\ b.size \in Nat /\ poolSize \in Int /\ freeMem \in Int
  BY BlockFields DEF PoolInv, Tiles
<1>3. Bytes({b}) \intersect Bytes(U) = {}
  <2>1. Tiles(owned, used \union ToSet(free))
    BY DEF PoolInv
  <2> QED
    BY <2>1, BytesApart
<1>4. IsFiniteSet(Bytes(U)) /\ U \union {b} = used
  <2>1. Bytes(U) \in SUBSET Bytes(used) /\ IsFiniteSet(Bytes(used))
    BY DEF AccountInv, Bytes
  <2> QED
    BY <2>1, FS_Subset
<1> HIDE DEF U
<1>5. Cardinality(Bytes(U \union {b})) = Cardinality(Bytes(U)) + b.size
  BY <1>2, <1>3, <1>4, BytesAdded
<1>6. Cardinality(Bytes(used)) = Cardinality(Bytes(U)) + b.size /\ Cardinality(Bytes(U)) \in Nat
  BY <1>4, <1>5, FS_CardinalityType
<1>7. Bytes(used)' = Bytes(U) /\ OwnedBytes' = OwnedBytes
  BY <1>1 DEF Bytes, OwnedBytes
<1> QED
  BY <1>1, <1>2, <1>4, <1>6, <1>7 DEF AccountInv

LEMMA AccountStep ==
  ASSUME PoolInv, AccountInv, [PoolNext]_poolVars
  PROVE  AccountInv'
<1>1. ASSUME UNCHANGED <<owned, used, poolSize, freeMem>>
      PROVE  AccountInv'
  BY <1>1 DEF AccountInv, OwnedBytes, Bytes
<1>2. ASSUME NEW n \in Requests, AllocateNothing(n)
      PROVE  AccountInv'
  BY <1>1, <1>2 DEF AllocateNothing, poolVars
<1>3. CASE AllocateZero
  BY <1>1, <1>3 DEF AllocateZero
<1>4. CASE UNCHANGED poolVars
  BY <1>1, <1>4 DEF poolVars
<1> QED
  BY <1>2, <1>3, <1>4, AddMemoryAccount, AllocateAccount, FreeAccount DEF PoolNext

\* The reported numbers of free and used bytes are exact, always.
THEOREM AccountsAreExact == PoolSpec => []AccountingExact
<1>1. PoolInit => AccountInv
  BY AccountInit
<1>2. PoolInv /\ AccountInv /\ [PoolNext]_poolVars => AccountInv'
  BY AccountStep
<1>3. PoolInv /\ AccountInv => AccountingExact
  BY AccountsExact
<1> QED
  BY <1>1, <1>2, <1>3, PoolInvariant, PTL DEF PoolSpec

-----------------------------------------------------------------------------
(* The pool implements Allocator. *)

RegionPiece(r) == [begin |-> Start(r), size |-> End(r) - Start(r)]
BlockPiece(b)  == [begin |-> b.begin, size |-> b.size]

Memory == {RegionPiece(r) : r \in owned}
Lent   == {BlockPiece(b) : b \in used}

LEMMA RegionPieceFacts ==
  ASSUME NEW r \in Regions
  PROVE  /\ RegionPiece(r) \in Abstract!Piece
         /\ RegionPiece(r).begin = Start(r)
         /\ RegionPiece(r).size = End(r) - Start(r)
         /\ Start(r) + (End(r) - Start(r)) = End(r)
<1>1. Start(r) \in Nat /\ End(r) \in Nat /\ Start(r) < End(r)
  BY RegionBounds
<1>2. End(r) - Start(r) \in Nat \ {0}
  BY <1>1
<1> QED
  BY <1>1, <1>2 DEF RegionPiece, Abstract!Piece

LEMMA BlockPieceFacts ==
  ASSUME NEW b \in Block, b.size > 0
  PROVE  /\ BlockPiece(b) \in Abstract!Piece
         /\ BlockPiece(b).begin = b.begin
         /\ BlockPiece(b).size = b.size
  BY BlockFields DEF BlockPiece, Abstract!Piece

LEMMA InitImplements == PoolInit => Abstract!AllocInit
<1> SUFFICES ASSUME PoolInit PROVE Abstract!AllocInit
  OBVIOUS
<1>1. PICK r \in Regions : owned = {r} /\ used = {}
  BY DEF PoolInit
<1>2. Memory = {RegionPiece(r)} /\ Lent = {}
  BY <1>1 DEF Memory, Lent
<1>3. RegionPiece(r) \in Abstract!Piece
  BY RegionPieceFacts
<1> QED
  BY <1>2, <1>3 DEF Abstract!AllocInit, Memory, Lent, RegionPiece, BlockPiece

LEMMA GrowImplements ==
  ASSUME PoolInv, NEW r \in Regions, Fresh(r), AddMemory(r)
  PROVE  Abstract!Grow
<1> DEFINE x == RegionPiece(r)
<1>1. /\ owned' = owned \union {r} /\ used' = used /\ owned \subseteq Regions
      /\ \A o \in owned : Disjoint(r, o)
  BY DEF AddMemory, PoolInv, RegionsDisjoint, Fresh
<1>2. x \in Abstract!Piece /\ x.begin = Start(r) /\ x.begin + x.size = End(r)
  BY RegionPieceFacts
<1>3. ASSUME NEW o \in owned
      PROVE  Abstract!Apart(RegionPiece(o), x) /\ RegionPiece(o) # x
  <2>1. o \in Regions /\ (End(r) <= Start(o) \/ End(o) <= Start(r)) /\ Start(r) # Start(o)
    BY <1>1, RegionsSeparate
  <2>2. RegionPiece(o).begin = Start(o) /\ RegionPiece(o).begin + RegionPiece(o).size = End(o)
    BY <2>1, RegionPieceFacts
  <2> QED
    BY <2>1, <2>2, <1>2 DEF Abstract!Apart
<1>4. Memory' = {RegionPiece(o) : o \in owned'} /\ Lent' = Lent
  BY <1>1 DEF Memory, Lent, RegionPiece, BlockPiece, Start, End
<1> HIDE DEF x
<1>5. Memory' = Memory \union {x} /\ x \notin Memory
  BY <1>1, <1>3, <1>4 DEF Memory, x
<1>6. \A m \in Memory : Abstract!Apart(m, x)
  BY <1>3 DEF Memory
<1>7. /\ x \in Memory' \ Memory /\ x \in Abstract!Piece
      /\ \A m \in Memory : Abstract!Apart(m, x)
      /\ Memory' = Memory \union {x} /\ Lent' = Lent
  BY <1>2, <1>4, <1>5, <1>6
<1> QED
  BY <1>7 DEF Abstract!Grow, Memory, Lent, RegionPiece, BlockPiece

LEMMA LendImplements ==
  ASSUME PoolInv, NEW n \in Requests, NEW i \in DOMAIN free, Allocate(n, i)
  PROVE  Abstract!Lend
<1> DEFINE t == Taken(free[i], n)
<1> DEFINE x == BlockPiece(t)
<1>1. /\ t \in Block /\ t.size > 0 /\ t \notin used /\ PoolInv'
      /\ \E r \in owned : Within(t, r)
  BY AllocateInv
<1>2. used' = used \union {t} /\ owned' = owned
  BY DEF Allocate
<1> HIDE DEF t
<1>3. /\ x \in Abstract!Piece /\ x.begin = t.begin /\ x.size = t.size
      /\ t.begin \in Nat /\ t.size \in Nat /\ End(t) = t.begin + t.size
  BY <1>1, BlockPieceFacts, BlockFields
<1>4. ASSUME NEW b \in used
      PROVE  Abstract!Apart(x, BlockPiece(b)) /\ BlockPiece(b) # x
  <2>1. b \in Block /\ b.size > 0 /\ Disjoint(t, b)
    <3>1. b \in used' \union ToSet(free)' /\ t \in used' \union ToSet(free)' /\ t # b
      BY <1>1, <1>2
    <3>2. Tiles(owned', used' \union ToSet(free)')
      BY <1>1 DEF PoolInv
    <3> QED
      BY <3>1, <3>2 DEF Tiles
  <2>2. /\ BlockPiece(b).begin = b.begin /\ BlockPiece(b).size = b.size
        /\ b.begin \in Nat /\ b.size \in Nat /\ End(b) = b.begin + b.size
    BY <2>1, BlockPieceFacts, BlockFields
  <2>3. Abstract!Apart(x, BlockPiece(b))
    BY <2>1, <2>2, <1>3 DEF Abstract!Apart, Disjoint
  <2> HIDE DEF x
  <2> QED
    BY <2>1, <2>2, <2>3, <1>1, <1>3 DEF Abstract!Apart
<1>5. Lent' = {BlockPiece(b) : b \in used'} /\ Memory' = Memory
  BY <1>2 DEF Memory, Lent, RegionPiece, BlockPiece, Start, End
<1>6. \E m \in Memory : Abstract!Inside(x, m)
  <2>1. PICK r \in owned : Within(t, r)
    BY <1>1
  <2>2. /\ RegionPiece(r).begin = Start(r)
        /\ RegionPiece(r).begin + RegionPiece(r).size = End(r)
    BY RegionPieceFacts DEF PoolInv, RegionsDisjoint
  <2>3. Abstract!Inside(x, RegionPiece(r))
    BY <2>1, <2>2, <1>3 DEF Within, Abstract!Inside
  <2> QED
    BY <2>3 DEF Memory
<1> HIDE DEF x
<1>7. Lent' = Lent \union {x} /\ x \notin Lent
  BY <1>2, <1>4, <1>5 DEF Lent, x
<1>8. \A q \in Lent : Abstract!Apart(x, q)
  BY <1>4 DEF Lent
<1>9. /\ x \in Lent' \ Lent /\ x \in Abstract!Piece
      /\ \E m \in Memory : Abstract!Inside(x, m)
      /\ \A q \in Lent : Abstract!Apart(x, q)
      /\ Lent' = Lent \union {x} /\ Memory' = Memory
  BY <1>3, <1>5, <1>6, <1>7, <1>8
<1> QED
  BY <1>9 DEF Abstract!Lend, Memory, Lent, RegionPiece, BlockPiece

LEMMA TakeBackImplements ==
  ASSUME PoolInv, NEW b \in used, Free(b)
  PROVE  Abstract!TakeBack
<1> DEFINE x == BlockPiece(b)
<1>1. used' = used \ {b} /\ owned' = owned
  BY DEF Free
<1>2. ASSUME NEW c \in used, c # b
      PROVE  BlockPiece(c) # x
  <2>1. c.begin # b.begin /\ b \in Block /\ c \in Block /\ b.size > 0 /\ c.size > 0
    <3> DEFINE L == used \union ToSet(free)
    <3>1. Tiles(owned, L) /\ b \in L /\ c \in L
      BY DEF PoolInv
    <3> HIDE DEF L
    <3>2. c.begin # b.begin
      BY <3>1, <1>2, DistinctBegins
    <3> QED
      BY <3>1, <3>2 DEF Tiles
  <2> QED
    BY <2>1, BlockPieceFacts
<1>3. Lent' = {BlockPiece(c) : c \in used'} /\ Memory' = Memory
  BY <1>1 DEF Memory, Lent, RegionPiece, BlockPiece, Start, End
<1> HIDE DEF x
<1>4. Lent' = Lent \ {x} /\ x \in Lent
  BY <1>1, <1>2, <1>3 DEF Lent, x
<1> QED
  BY <1>3, <1>4 DEF Abstract!TakeBack, Memory, Lent, RegionPiece, BlockPiece

LEMMA StepImplements ==
  PoolInv /\ [PoolNext]_poolVars => [Abstract!AllocNext]_(Abstract!allocVars)
<1> SUFFICES ASSUME PoolInv, [PoolNext]_poolVars
    PROVE  [Abstract!AllocNext]_(Abstract!allocVars)
  OBVIOUS
<1>1. ASSUME NEW r \in Regions, Fresh(r), AddMemory(r)
      PROVE  Abstract!AllocNext
  BY <1>1, GrowImplements DEF Abstract!AllocNext
<1>2. ASSUME NEW n \in Requests, NEW i \in DOMAIN free, Allocate(n, i)
      PROVE  Abstract!AllocNext
  BY <1>2, LendImplements DEF Abstract!AllocNext
<1>3. ASSUME owned' = owned /\ used' = used
      PROVE  UNCHANGED Abstract!allocVars
  BY <1>3 DEF Abstract!allocVars, Start, End
<1>4. ASSUME NEW n \in Requests, AllocateNothing(n)
      PROVE  UNCHANGED Abstract!allocVars
  BY <1>3, <1>4 DEF AllocateNothing, poolVars
<1>5. CASE AllocateZero
  BY <1>3, <1>5 DEF AllocateZero
<1>6. ASSUME NEW b \in used, Free(b)
      PROVE  Abstract!AllocNext
  BY <1>6, TakeBackImplements DEF Abstract!AllocNext
<1>7. CASE UNCHANGED poolVars
  BY <1>3, <1>7 DEF poolVars
<1> QED
  BY <1>1, <1>2, <1>3, <1>4, <1>5, <1>6, <1>7 DEF PoolNext

\* To its clients the pool is the abstract allocator.
THEOREM PoolImplementsAllocator == PoolSpec => ImplementsAllocator
<1> QED
  BY InitImplements, StepImplements, PoolInvariant, PTL
     DEF PoolSpec, ImplementsAllocator, Abstract!AllocSpec

-----------------------------------------------------------------------------
(* The threads that use the pool. *)

Labels == Carrying \union {"idle", "driverMalloc", "expandMalloc", "poolFree", "erase"}

\* Regions that are no part of the pool.
Loose == live \ owned

\* The piece a thread has inside a call, and all it has.
InHand(t) == IF pc[t] \in Carrying \union {"poolFree"} THEN {item[t]} ELSE {}
Has(t) == held[t] \union InHand(t)

ManagerTypes ==
  /\ live \subseteq Regions /\ owned \subseteq live
  /\ pc \in [Threads -> Labels]
  /\ item \in [Threads -> RegionType]
  /\ held \in [Threads -> SUBSET RegionType]

LiveApart == \A r, o \in live : r # o => Disjoint(r, o)

\* Nothing is in two hands.
OnePlace ==
  /\ \A t \in Threads : held[t] \intersect InHand(t) = {}
  /\ \A t, u \in Threads : t # u => Has(t) \intersect Has(u) = {}

\* What a thread was given is a region of its own or a block in use.
Known == \A t \in Threads : held[t] \subseteq Loose \union Lent

\* What the step of a call may take for granted of its item.
InCall(t) ==
  /\ pc[t] \in Carrying => item[t] \in Loose
  /\ pc[t] = "poolFree" => item[t] \in Lent
  /\ pc[t] = "erase" => item[t] \in owned

\* The table has the true size of p.
Listed(p) == p.begin \in DOMAIN allocated /\ allocated[p.begin] = p.size

\* The table is right about every region that a thread may free: an entry
\* that a ::cudaFree left behind was overwritten if its address came back.
TableRight(t) ==
  /\ \A p \in held[t] : p \in Loose => Listed(p)
  /\ pc[t] = "find" => Listed(item[t])

\* The inductive invariant.
ManagerInv ==
  /\ PoolInv
  /\ ManagerTypes
  /\ LiveApart
  /\ OnePlace
  /\ Known
  /\ \A t \in Threads : InCall(t) /\ TableRight(t)

-----------------------------------------------------------------------------
(* Regions and pieces. *)

\* The fields of a region.
LEMMA RegionFields ==
  ASSUME NEW r \in Regions
  PROVE  /\ r \in RegionType /\ r.begin \in Nat /\ r.size \in Nat /\ r.size > 0
         /\ End(r) = r.begin + r.size
<1>1. r.begin \in Nat /\ r.size \in Nat /\ r.size >= PageSize /\ r \in RegionType
  BY RegionsAssumption DEF RegionType
<1> QED
  BY <1>1, PageSizeAssumption DEF End

\* Loose regions are apart from each other and from the pool's.
LEMMA LooseRegions ==
  ASSUME ManagerInv, NEW p \in Loose
  PROVE  /\ p \in Regions /\ p \in live /\ p \notin owned
         /\ \A q \in live : q # p => Disjoint(p, q) /\ p.begin # q.begin
<1>1. p \in Regions /\ p \in live /\ p \notin owned
  BY DEF ManagerInv, ManagerTypes, Loose
<1>2. ASSUME NEW q \in live, q # p
      PROVE  Disjoint(p, q) /\ p.begin # q.begin
  <2>1. Disjoint(p, q) /\ q \in Regions
    BY <1>1, <1>2 DEF ManagerInv, ManagerTypes, LiveApart
  <2> QED
    BY <1>1, <2>1, RegionFields DEF Disjoint
<1> QED
  BY <1>1, <1>2

\* A block inside a region of the pool: the piece it is, and where it lies.
LEMMA BlockInRegion ==
  ASSUME ManagerInv, NEW b \in Block, b.size > 0, \E o \in owned : Within(b, o)
  PROVE  /\ b.begin \in Nat /\ b.size \in Nat /\ End(b) = b.begin + b.size
         /\ BlockPiece(b).begin = b.begin /\ BlockPiece(b).size = b.size
         /\ End(BlockPiece(b)) = End(b)
         /\ \E o \in owned : o \in live /\ o.begin <= b.begin /\ End(b) <= End(o)
<1>1. PICK o \in owned : Within(b, o)
  OBVIOUS
<1>2. o \in live /\ o \in Regions
  BY DEF ManagerInv, ManagerTypes
<1>3. Start(o) \in Nat /\ o.begin <= Start(o) /\ o.begin \in Nat
  BY <1>2, RegionBounds, RegionFields
<1>4. b.begin \in Nat /\ b.size \in Nat /\ End(b) = b.begin + b.size
  BY BlockFields
<1>5. o.begin <= b.begin /\ End(b) <= End(o)
  BY <1>1, <1>3, <1>4 DEF Within
<1>6. BlockPiece(b).begin = b.begin /\ BlockPiece(b).size = b.size
  BY DEF BlockPiece
<1> QED
  BY <1>2, <1>4, <1>5, <1>6 DEF End

\* So are the blocks in use.
LEMMA UsedBlocks ==
  ASSUME ManagerInv, NEW b \in used
  PROVE  /\ b \in Block /\ b.size > 0 /\ \E o \in owned : Within(b, o)
         /\ b.begin \in Nat /\ b.size \in Nat /\ End(b) = b.begin + b.size
         /\ BlockPiece(b).begin = b.begin /\ BlockPiece(b).size = b.size
         /\ End(BlockPiece(b)) = End(b)
         /\ \E o \in owned : o \in live /\ o.begin <= b.begin /\ End(b) <= End(o)
<1>1. b \in Block /\ b.size > 0 /\ \E o \in owned : Within(b, o)
  BY DEF ManagerInv, PoolInv, Tiles
<1> QED
  BY <1>1, BlockInRegion

\* Two blocks in use, or the pieces they are, begin at different places.
LEMMA PiecesDiffer ==
  ASSUME ManagerInv, NEW b \in used, NEW c \in used, b # c
  PROVE  b.begin # c.begin /\ Disjoint(b, c) /\ BlockPiece(b) # BlockPiece(c)
<1> DEFINE L == used \union ToSet(free)
<1>1. Tiles(owned, L) /\ b \in L /\ c \in L
  BY DEF ManagerInv, PoolInv
<1> HIDE DEF L
<1>2. b.begin # c.begin /\ Disjoint(b, c)
  BY <1>1, DistinctBegins DEF Tiles
<1>3. BlockPiece(b).begin = b.begin /\ BlockPiece(c).begin = c.begin
  BY UsedBlocks
<1> QED
  BY <1>2, <1>3

\* A block of the pool is apart from every loose region.
LEMMA BlockNotLoose ==
  ASSUME ManagerInv, NEW p \in Loose, NEW b \in Block, b.size > 0,
         \E o \in owned : Within(b, o)
  PROVE  Disjoint(p, BlockPiece(b)) /\ p.begin # b.begin /\ p # BlockPiece(b)
<1>1. PICK o \in owned : o \in live /\ o.begin <= b.begin /\ End(b) <= End(o)
  BY BlockInRegion
<1>2. p \in Regions /\ o \in Regions /\ Disjoint(p, o)
  BY <1>1, LooseRegions DEF ManagerInv, ManagerTypes
<1>3. /\ p.begin \in Nat /\ p.size \in Nat /\ p.size > 0 /\ End(p) = p.begin + p.size
      /\ o.begin \in Nat /\ o.size \in Nat /\ End(o) = o.begin + o.size
  BY <1>2, RegionFields
<1>4. /\ b.begin \in Nat /\ b.size \in Nat /\ b.size > 0 /\ End(b) = b.begin + b.size
      /\ BlockPiece(b).begin = b.begin /\ End(BlockPiece(b)) = End(b)
  BY BlockInRegion DEF End
<1>5. p.begin # b.begin
  BY <1>1, <1>2, <1>3, <1>4 DEF Disjoint
<1>6. Disjoint(p, BlockPiece(b))
  BY <1>1, <1>2, <1>3, <1>4 DEF Disjoint
<1> QED
  BY <1>4, <1>5, <1>6

\* No piece is both.
LEMMA LooseNotLent ==
  ASSUME ManagerInv
  PROVE  Loose \intersect Lent = {}
  BY UsedBlocks, BlockNotLoose DEF Lent

\* What a thread has is loose or lent, and is had once.
LEMMA HasFacts ==
  ASSUME ManagerInv, NEW t \in Threads
  PROVE  /\ Has(t) \subseteq Loose \union Lent
         /\ held[t] \subseteq Has(t)
         /\ pc[t] \in Carrying \union {"poolFree"} => item[t] \in Has(t) /\ item[t] \notin held[t]
         /\ \A u \in Threads : u # t => Has(t) \intersect Has(u) = {}
<1>1. InHand(t) \subseteq Loose \union Lent
  BY DEF ManagerInv, InCall, InHand
<1>2. held[t] \subseteq Loose \union Lent
  BY DEF ManagerInv, Known
<1>3. OnePlace
  BY DEF ManagerInv
<1>4. pc[t] \in Carrying \union {"poolFree"} => item[t] \in Has(t) /\ item[t] \notin held[t]
  BY <1>3 DEF OnePlace, Has, InHand
<1> QED
  BY <1>1, <1>2, <1>3, <1>4 DEF Has, OnePlace

-----------------------------------------------------------------------------
(* The invariant gives the properties. *)

LEMMA InvHeldApart == ManagerInv => HeldApartAndLive
<1> SUFFICES ASSUME ManagerInv PROVE HeldApartAndLive
  OBVIOUS
<1>1. ASSUME NEW t \in Threads, NEW u \in Threads, NEW p \in held[t], NEW q \in held[u],
             t # u \/ p # q
      PROVE  Disjoint(p, q)
  <2>1. p # q
    BY <1>1, HasFacts
  <2>2. p \in Loose \union Lent /\ q \in Loose \union Lent
    BY HasFacts
  <2>3. CASE p \in Loose /\ q \in Loose
    BY <2>1, <2>3, LooseRegions
  <2>4. CASE p \in Loose /\ q \in Lent
    BY <2>4, UsedBlocks, BlockNotLoose DEF Lent
  <2>5. CASE p \in Lent /\ q \in Loose
    <3>1. Disjoint(q, p)
      BY <2>5, UsedBlocks, BlockNotLoose DEF Lent
    <3> QED
      BY <3>1 DEF Disjoint
  <2>6. CASE p \in Lent /\ q \in Lent
    <3>1. PICK b \in used : p = BlockPiece(b)
      BY <2>6 DEF Lent
    <3>2. PICK c \in used : q = BlockPiece(c)
      BY <2>6 DEF Lent
    <3>3. Disjoint(b, c)
      BY <2>1, <3>1, <3>2, PiecesDiffer
    <3> QED
      BY <3>1, <3>2, <3>3, UsedBlocks DEF Disjoint
  <2> QED
    BY <2>2, <2>3, <2>4, <2>5, <2>6
<1>2. ASSUME NEW t \in Threads, NEW p \in held[t]
      PROVE  \E r \in live : r.begin <= p.begin /\ End(p) <= End(r)
  <2>1. p \in Loose \union Lent
    BY HasFacts
  <2>2. CASE p \in Loose
    <3>1. p \in live /\ p.begin \in Nat /\ End(p) \in Nat
      BY <2>2, LooseRegions, RegionFields
    <3> QED
      BY <3>1
  <2>3. CASE p \in Lent
    BY <2>3, UsedBlocks DEF Lent
  <2> QED
    BY <2>1, <2>2, <2>3
<1> QED
  BY <1>1, <1>2 DEF HeldApartAndLive

-----------------------------------------------------------------------------
(* The invariant is inductive. *)

\* What the step of one thread has to respect of the others: they stand still,
\* and what they have stays loose or lent, and listed.
LEMMA OtherThreads ==
  ASSUME ManagerInv, NEW t \in Threads,
         PoolInv', ManagerTypes', LiveApart',
         \A u \in Threads : u # t => /\ pc'[u] = pc[u] /\ item'[u] = item[u]
                                     /\ held'[u] = held[u],
         \A u \in Threads : u # t =>
            \A p \in Has(u) : /\ p \notin Has(t)'
                              /\ p \in Loose => p \in Loose'
                              /\ p \in Lent => p \in Lent'
                              /\ p \in Loose /\ Listed(p) => Listed(p)',
         owned \subseteq owned',
         held'[t] \subseteq Loose' \union Lent',
         held'[t] \intersect InHand(t)' = {},
         InCall(t)', TableRight(t)',
         Loose' \intersect Lent' = {}
  PROVE  ManagerInv'
<1>1. ASSUME NEW u \in Threads, u # t
      PROVE  /\ InHand(u)' = InHand(u) /\ Has(u)' = Has(u)
             /\ held'[u] = held[u] /\ pc'[u] = pc[u] /\ item'[u] = item[u]
             /\ Has(u) \intersect Has(t)' = {}
             /\ Has(u) \subseteq Loose' \union Lent'
  <2>1. pc'[u] = pc[u] /\ item'[u] = item[u] /\ held'[u] = held[u]
    BY <1>1
  <2>2. InHand(u)' = InHand(u) /\ Has(u)' = Has(u)
    BY <2>1 DEF InHand, Has
  <2>3. Has(u) \subseteq Loose \union Lent
    BY HasFacts
  <2> QED
    BY <1>1, <2>1, <2>2, <2>3
<1>2. OnePlace'
  <2>1. ASSUME NEW u \in Threads
        PROVE  held'[u] \intersect InHand(u)' = {}
    BY <1>1 DEF ManagerInv, OnePlace
  <2>2. ASSUME NEW u \in Threads, NEW v \in Threads, u # v
        PROVE  Has(u)' \intersect Has(v)' = {}
    <3>1. CASE u = t
      BY <1>1, <2>2, <3>1
    <3>2. CASE v = t
      BY <1>1, <2>2, <3>2
    <3>3. CASE u # t /\ v # t
      BY <1>1, <2>2, <3>3 DEF ManagerInv, OnePlace
    <3> QED
      BY <3>1, <3>2, <3>3
  <2> QED
    BY <2>1, <2>2 DEF OnePlace
<1>3. Known'
  BY <1>1 DEF Known, Has
<1>4. ASSUME NEW u \in Threads
      PROVE  InCall(u)'
  <2>1. CASE u = t
    BY <2>1
  <2>2. CASE u # t
    <3>1. InCall(u) /\ pc'[u] = pc[u] /\ item'[u] = item[u]
      BY <1>1, <2>2 DEF ManagerInv
    <3>2. pc[u] \in Carrying \union {"poolFree"} => item[u] \in Has(u)
      BY HasFacts
    <3> QED
      BY <2>2, <3>1, <3>2 DEF InCall
  <2> QED
    BY <2>1, <2>2
<1>5. ASSUME NEW u \in Threads
      PROVE  TableRight(u)'
  <2>1. CASE u = t
    BY <2>1
  <2>2. CASE u # t
    <3>1. TableRight(u) /\ InCall(u)
      BY DEF ManagerInv
    <3>2. pc'[u] = pc[u] /\ item'[u] = item[u] /\ held'[u] = held[u]
      BY <1>1, <2>2
    <3>3. ASSUME NEW p \in held[u], p \in Loose'
          PROVE  Listed(p)'
      <4>1. p \in Has(u) /\ p \in Loose \union Lent
        BY HasFacts
      <4>2. p \in Loose
        BY <2>2, <3>3, <4>1
      <4> QED
        BY <2>2, <3>1, <4>1, <4>2 DEF TableRight
    <3>4. ASSUME NEW p \in {item[u]}, pc[u] = "find"
          PROVE  Listed(p)'
      <4>1. p \in Has(u) /\ p \in Loose /\ Listed(p)
        BY <3>1, <3>4, HasFacts DEF Carrying, InCall, TableRight
      <4> QED
        BY <2>2, <4>1
    <3>5. pc'[u] = "find" => /\ item'[u].begin \in DOMAIN allocated'
                             /\ allocated'[item'[u].begin] = item'[u].size
      BY <3>2, <3>4 DEF Listed
    <3>6. \A p \in held'[u] : p \in Loose' => Listed(p)'
      BY <3>2, <3>3
    <3> QED
      BY <3>5, <3>6 DEF TableRight, Listed
  <2> QED
    BY <2>1, <2>2
<1> QED
  BY <1>2, <1>3, <1>4, <1>5 DEF ManagerInv

\* A call moves on, or gives up what it has, and changes no memory.
LEMMA QuietStep ==
  ASSUME ManagerInv, NEW t \in Threads, UNCHANGED <<poolVars, live, allocated>>,
         NEW l \in Labels, NEW x \in RegionType, NEW h \in SUBSET held[t],
         pc' = [pc EXCEPT ![t] = l], item' = [item EXCEPT ![t] = x],
         held' = [held EXCEPT ![t] = h],
         l \in Carrying \union {"poolFree"} => x \in Has(t) /\ x \notin h,
         l \in Carrying => x \in Loose,
         l = "poolFree" => x \in Lent,
         l = "erase" => x \in owned,
         l = "find" => Listed(x)
  PROVE  ManagerInv'
<1>1. /\ PoolInv' /\ Loose' = Loose /\ Lent' = Lent /\ LiveApart' /\ owned' = owned
      /\ \A p : Listed(p)' <=> Listed(p)
  BY DEF poolVars, PoolInv, ManagerInv, Loose, Lent, LiveApart, Listed, BlockPiece
<1>2. ManagerTypes
  BY DEF ManagerInv
<1>3. ManagerTypes'
  <2>1. h \in SUBSET RegionType
    BY <1>2 DEF ManagerTypes
  <2> QED
    BY <1>2, <2>1 DEF ManagerTypes, poolVars
<1>4. /\ pc'[t] = l /\ item'[t] = x /\ held'[t] = h
      /\ \A u \in Threads : u # t => /\ pc'[u] = pc[u] /\ item'[u] = item[u]
                                     /\ held'[u] = held[u]
  BY <1>2 DEF ManagerTypes
<1>5. h \subseteq Has(t) /\ InHand(t)' \subseteq Has(t) /\ h \intersect InHand(t)' = {}
  <2>1. InHand(t)' = IF l \in Carrying \union {"poolFree"} THEN {x} ELSE {}
    BY <1>4 DEF InHand
  <2> QED
    BY <2>1, HasFacts
<1>6. Has(t)' \subseteq Has(t)
  BY <1>4, <1>5 DEF Has
<1>7. \A u \in Threads : u # t => \A p \in Has(u) : p \notin Has(t)'
  BY <1>6, HasFacts
<1>8. InCall(t)'
  BY <1>1, <1>4 DEF InCall
<1>9. TableRight(t)'
  <2>1. \A p \in h : p \in Loose => Listed(p)
    BY DEF ManagerInv, TableRight
  <2>2. l = "find" => Listed(item'[t])
    BY <1>4
  <2>3. TableRight(t)' <=> /\ \A p \in held'[t] : p \in Loose' => Listed(p)'
                           /\ pc'[t] = "find" => /\ item'[t].begin \in DOMAIN allocated'
                                                 /\ allocated'[item'[t].begin] = item'[t].size
    BY DEF TableRight, Listed
  <2> QED
    BY <2>1, <2>2, <2>3, <1>1, <1>4 DEF Listed
<1>10. h \subseteq Loose' \union Lent'
  BY <1>1, <1>5, HasFacts
<1> QED
  BY <1>1, <1>3, <1>4, <1>5, <1>7, <1>8, <1>9, <1>10, LooseNotLent, OtherThreads

\* What a request is scaled and rounded to.
LEMMA FallbackType ==
  ASSUME NEW n \in Requests
  PROVE  Piece(0, FallbackSize(n)) \in RegionType
<1>1. n \in Nat /\ Factor \in Nat
  BY RequestsAssumption, ScalingAssumption
<1> DEFINE k == n \div 100
<1>2. k \in Nat
  BY <1>1
<1> HIDE DEF k
<1>3. Factor * k \in Nat
  BY <1>1, <1>2
<1>4. Scaled(n) \in Nat
  BY <1>1, <1>3 DEF Scaled, k
<1> QED
  BY <1>4, PageRoundUpBounds DEF FallbackSize, Piece, RegionType

\* The actions that change no memory.
LEMMA QuietActions ==
  ASSUME ManagerInv, NEW t \in Threads,
         \/ \E n \in Requests : PoolHasNoRoom(t, n)
         \/ DriverRefuses(t)
         \/ FindBlock(t) \/ FindMisses(t) \/ LimitPassed(t) \/ LimitReached(t)
         \/ \E n \in ExpandSizes : ExpandBegins(t, n)
  PROVE  ManagerInv'
<1>1. /\ ManagerTypes /\ InCall(t) /\ TableRight(t) /\ pc[t] \in Labels
      /\ item[t] \in RegionType /\ held = [held EXCEPT ![t] = held[t]]
  BY DEF ManagerInv, ManagerTypes
<1>2. NoItem \in RegionType
  BY DEF NoItem, Piece, RegionType
<1>3. ASSUME Return(t), UNCHANGED <<poolVars, live, allocated, held>>
      PROVE  ManagerInv'
  BY <1>1, <1>2, <1>3, QuietStep DEF Return, Labels, Carrying
<1>4. ASSUME NEW n \in Requests, PoolHasNoRoom(t, n)
      PROVE  ManagerInv'
  <2>1. UNCHANGED <<poolVars, live, allocated, held>>
    BY <1>4 DEF PoolHasNoRoom, AllocateNothing
  <2>2. Piece(0, FallbackSize(n)) \in RegionType
    BY FallbackType
  <2>3. GoTo(t, "driverMalloc", Piece(0, FallbackSize(n)))
    BY <1>4 DEF PoolHasNoRoom
  <2> QED
    BY <1>1, <2>1, <2>2, <2>3, QuietStep DEF GoTo, Labels, Carrying
<1>5. CASE DriverRefuses(t)
  BY <1>3, <1>5 DEF DriverRefuses
<1>6. CASE FindBlock(t)
  <2>1. /\ pc[t] = "find" /\ item[t] \in Loose /\ Listed(item[t])
    BY <1>1, <1>6 DEF FindBlock, InCall, TableRight, Carrying
  <2>2. Piece(item[t].begin, allocated[item[t].begin]) = item[t]
    BY <1>1, <2>1 DEF Piece, Listed, RegionType
  <2>3. GoTo(t, "freeLimit", item[t]) /\ UNCHANGED <<poolVars, live, allocated, held>>
    BY <1>6, <2>2 DEF FindBlock
  <2>4. item[t] \in Has(t) /\ item[t] \notin held[t]
    BY <2>1, HasFacts DEF Carrying
  <2> QED
    BY <1>1, <2>1, <2>3, <2>4, QuietStep DEF GoTo, Labels, Carrying
<1>7. CASE FindMisses(t)
  BY <1>3, <1>7 DEF FindMisses
<1>8. CASE LimitPassed(t)
  <2> DEFINE l == IF pc[t] = "freeLimit" THEN "freeAdd" ELSE "expandAdd"
  <2>1. /\ item[t] \in Loose /\ item[t] \in Has(t) /\ item[t] \notin held[t]
    BY <1>1, <1>8, HasFacts DEF LimitPassed, InCall, Carrying
  <2>2. GoTo(t, l, item[t]) /\ UNCHANGED <<poolVars, live, allocated, held>>
    BY <1>8 DEF LimitPassed
  <2>3. l \in Labels /\ l \notin {"find", "poolFree", "erase"}
    BY DEF Labels, Carrying
  <2> HIDE DEF l
  <2> QED
    BY <1>1, <2>1, <2>2, <2>3, QuietStep DEF GoTo
<1>9. CASE LimitReached(t)
  BY <1>3, <1>9 DEF LimitReached
<1>10. ASSUME NEW n \in ExpandSizes, ExpandBegins(t, n)
       PROVE  ManagerInv'
  <2>1. Piece(0, n) \in RegionType
    BY ExpandAssumption DEF Piece, RegionType
  <2>2. GoTo(t, "expandMalloc", Piece(0, n)) /\ UNCHANGED <<poolVars, live, allocated, held>>
    BY <1>10 DEF ExpandBegins
  <2> QED
    BY <1>1, <2>1, <2>2, QuietStep DEF GoTo, Labels, Carrying
<1> QED
  BY <1>4, <1>5, <1>6, <1>7, <1>8, <1>9, <1>10

\* cudaFreeAsync asks the pool: a block in use, or a region of its own.
LEMMA FreeBeginsInv ==
  ASSUME ManagerInv, NEW t \in Threads, NEW p \in held[t], FreeBegins(t, p)
  PROVE  ManagerInv'
<1>1. p \in Loose \union Lent /\ p \in Has(t) /\ p \in RegionType
  BY HasFacts DEF ManagerInv, ManagerTypes
<1>2. IsAllocated(p) <=> p \in Lent
  <2>1. ASSUME p \in Lent
        PROVE  IsAllocated(p)
    BY <2>1, UsedBlocks DEF Lent, IsAllocated
  <2>2. ASSUME p \in Loose
        PROVE  ~IsAllocated(p)
    BY <2>2, UsedBlocks, BlockNotLoose DEF IsAllocated
  <2> QED
    BY <2>1, <2>2, <1>1
<1>3. p \in Loose => Listed(p)
  BY DEF ManagerInv, TableRight
<1> DEFINE l == IF IsAllocated(p) THEN "poolFree"
                ELSE IF useAsyncFree THEN "find" ELSE "driverFree"
<1>4. /\ GoTo(t, l, p) /\ UNCHANGED <<poolVars, live, allocated>>
      /\ held' = [held EXCEPT ![t] = @ \ {p}]
  BY DEF FreeBegins
<1>5. /\ l \in Labels /\ l # "erase" /\ (l = "poolFree" => p \in Lent)
      /\ (l # "poolFree" => p \in Loose)
  BY <1>1, <1>2 DEF Labels, Carrying
<1>6. l \in Carrying => l # "poolFree"
  BY DEF Carrying
<1> HIDE DEF l
<1> QED
  BY <1>1, <1>3, <1>4, <1>5, <1>6, QuietStep DEF GoTo

\* cudaMalloc returns a region that is new to everyone.
LEMMA UnusedRegion ==
  ASSUME ManagerInv, NEW r \in Regions, Unused(r)
  PROVE  /\ r \notin live /\ r \notin Loose /\ r \notin Lent
         /\ \A t \in Threads : r \notin Has(t)
<1>1. r \in RegionType /\ r.begin \in Nat /\ r.size \in Nat /\ r.size > 0 /\ End(r) = r.begin + r.size
  BY RegionFields
<1>2. r \notin live
  BY <1>1 DEF Unused, Disjoint
<1>3. r \notin Lent
  <2>1. ASSUME NEW b \in used, r = BlockPiece(b)
        PROVE  FALSE
    <3>1. PICK o \in owned : o \in live /\ o.begin <= b.begin /\ End(b) <= End(o)
      BY UsedBlocks
    <3>2. Disjoint(o, r) /\ o \in Regions
      BY <3>1 DEF Unused, ManagerInv, ManagerTypes
    <3>3. o.begin \in Nat /\ o.size \in Nat /\ End(o) = o.begin + o.size
      BY <3>2, RegionFields
    <3>4. b.begin = r.begin /\ End(b) = End(r)
      BY <2>1, UsedBlocks
    <3> QED
      BY <1>1, <3>1, <3>2, <3>3, <3>4 DEF Disjoint
  <2> QED
    BY <2>1 DEF Lent
<1> QED
  BY <1>2, <1>3, HasFacts DEF Loose

LEMMA DriverMallocInv ==
  ASSUME ManagerInv, NEW t \in Threads, NEW r \in Regions, DriverMalloc(t, r)
  PROVE  ManagerInv'
<1> DEFINE l == IF pc[t] = "driverMalloc" THEN "register" ELSE "expandLimit"
<1>1. /\ pc[t] \in {"driverMalloc", "expandMalloc"} /\ Unused(r)
      /\ live' = live \union {r} /\ held' = held
      /\ pc' = [pc EXCEPT ![t] = l] /\ item' = [item EXCEPT ![t] = r]
      /\ UNCHANGED <<poolVars, allocated>>
  BY DEF DriverMalloc, GoTo
<1>2. l \in {"register", "expandLimit"}
  OBVIOUS
<1> HIDE DEF l
<1>3. ManagerTypes /\ LiveApart /\ r \in RegionType
  BY RegionFields DEF ManagerInv
<1>4. /\ r \notin live /\ r \notin Loose /\ r \notin Lent
      /\ \A u \in Threads : r \notin Has(u)
  BY <1>1, UnusedRegion
<1>5. PoolInv' /\ Lent' = Lent /\ owned' = owned /\ \A p : Listed(p)' <=> Listed(p)
  BY <1>1 DEF poolVars, PoolInv, ManagerInv, Lent, BlockPiece, Listed
<1>6. Loose' = Loose \union {r}
  BY <1>1, <1>3, <1>4, <1>5 DEF Loose, ManagerTypes
<1>7. ManagerTypes'
  BY <1>1, <1>2, <1>3, <1>5 DEF ManagerTypes, Labels, Carrying
<1>8. LiveApart'
  BY <1>1, <1>3 DEF LiveApart, Unused, Disjoint, End
<1>9. /\ pc'[t] = l /\ item'[t] = r /\ held'[t] = held[t]
      /\ \A u \in Threads : u # t => /\ pc'[u] = pc[u] /\ item'[u] = item[u]
                                     /\ held'[u] = held[u]
  BY <1>1, <1>3 DEF ManagerTypes
<1>10. InHand(t)' = {r} /\ Has(t)' = held[t] \union {r}
  BY <1>2, <1>9 DEF InHand, Has, Carrying
<1>11. /\ held[t] \subseteq Has(t) /\ held[t] \subseteq Loose \union Lent
       /\ \A u \in Threads : u # t => Has(u) \intersect Has(t) = {}
  BY HasFacts
<1>12. \A u \in Threads : u # t => \A p \in Has(u) : p \notin Has(t)'
  BY <1>4, <1>10, <1>11
<1>13. InCall(t)'
  BY <1>2, <1>6, <1>9 DEF InCall
<1>14. TableRight(t)'
  <2>1. \A p \in held[t] : p \in Loose => Listed(p)
    BY DEF ManagerInv, TableRight
  <2>2. \A p \in held'[t] : p \in Loose' => Listed(p)'
    BY <2>1, <1>4, <1>5, <1>6, <1>9, <1>11
  <2> QED
    BY <2>2, <1>2, <1>9 DEF TableRight
<1> QED
  BY <1>4, <1>5, <1>6, <1>7, <1>8, <1>9, <1>10, <1>11, <1>12, <1>13, <1>14,
     LooseNotLent, OtherThreads

\* The call returns; others see the table changed at one address, which no
\* region of theirs begins at.
LEMMA RegisterInv ==
  ASSUME ManagerInv, NEW t \in Threads, Register(t)
  PROVE  ManagerInv'
<1>1. PICK x : /\ x = item[t] /\ pc[t] = "register" /\ x \in Loose
               /\ x \in Has(t) /\ x \notin held[t] /\ x \in RegionType
  BY HasFacts DEF ManagerInv, ManagerTypes, InCall, Register, Carrying
<1>2. /\ allocated' = Entered(x.begin, x.size)
      /\ held' = [held EXCEPT ![t] = held[t] \union {x}]
      /\ pc' = [pc EXCEPT ![t] = "idle"] /\ item' = [item EXCEPT ![t] = NoItem]
      /\ UNCHANGED <<poolVars, live>>
  BY <1>1 DEF Register, Give, Return
<1>3. /\ ManagerTypes /\ NoItem \in RegionType
  BY DEF ManagerInv, NoItem, Piece, RegionType
<1>4. /\ PoolInv' /\ Loose' = Loose /\ Lent' = Lent /\ LiveApart' /\ owned' = owned
  BY <1>2 DEF poolVars, PoolInv, ManagerInv, Loose, Lent, LiveApart, BlockPiece
<1>5. /\ pc'[t] = "idle" /\ held'[t] = held[t] \union {x}
      /\ \A u \in Threads : u # t => /\ pc'[u] = pc[u] /\ item'[u] = item[u]
                                     /\ held'[u] = held[u]
  BY <1>2, <1>3 DEF ManagerTypes
<1>6. ManagerTypes'
  <2>1. held[t] \union {x} \in SUBSET RegionType
    BY <1>1, <1>3 DEF ManagerTypes
  <2> QED
    BY <2>1, <1>2, <1>3, <1>4 DEF ManagerTypes, Labels, poolVars
<1>7. Listed(x)'
  BY <1>2 DEF Listed, Entered
<1>8. ASSUME NEW p \in Loose, p # x, Listed(p)
      PROVE  Listed(p)'
  <2>1. p.begin # x.begin
    BY <1>1, <1>8, LooseRegions
  <2> QED
    BY <2>1, <1>2, <1>8 DEF Listed, Entered
<1>9. InHand(t)' = {} /\ Has(t)' = held[t] \union {x}
  BY <1>5 DEF InHand, Has, Carrying
<1>10. /\ held[t] \subseteq Has(t) /\ held[t] \subseteq Loose \union Lent
       /\ \A u \in Threads : u # t => Has(u) \intersect Has(t) = {}
  BY HasFacts
<1>11. InCall(t)'
  BY <1>5 DEF InCall, Carrying
<1>12. TableRight(t)'
  <2>1. \A p \in held[t] : p \in Loose => Listed(p)
    BY DEF ManagerInv, TableRight
  <2>2. \A p \in held'[t] : p \in Loose' => Listed(p)'
    BY <2>1, <1>1, <1>4, <1>5, <1>7, <1>8
  <2> QED
    BY <2>2, <1>5 DEF TableRight
<1>13. \A u \in Threads : u # t => \A p \in Has(u) : p \notin Has(t)' /\ p # x
  BY <1>1, <1>9, <1>10
<1>14. /\ held'[t] \subseteq Loose' \union Lent' /\ held'[t] \intersect InHand(t)' = {}
       /\ Loose' \intersect Lent' = {}
  BY <1>1, <1>4, <1>5, <1>9, <1>10, LooseNotLent
<1> QED
  BY <1>4, <1>5, <1>6, <1>8, <1>11, <1>12, <1>13, <1>14, OtherThreads

\* A block of the pool goes to the thread.
LEMMA PoolAllocateInv ==
  ASSUME ManagerInv, NEW t \in Threads, NEW n \in Requests, NEW i \in DOMAIN free,
         PoolAllocate(t, n, i)
  PROVE  ManagerInv'
<1>1. /\ Allocate(n, i) /\ PoolInv /\ ManagerTypes
      /\ UNCHANGED <<live, allocated, pc, item>>
  BY DEF PoolAllocate, ManagerInv
<1>2. PICK b : /\ b = Taken(free[i], n) /\ PoolInv'
               /\ b \in Block /\ b.size > 0 /\ b \notin used
               /\ \E o \in owned : Within(b, o)
  BY <1>1, AllocateInv
<1>3. PICK x : x = BlockPiece(b)
  OBVIOUS
<1>4. /\ used' = used \union {b} /\ owned' = owned
      /\ held' = [held EXCEPT ![t] = held[t] \union {x}]
  <2>1. Piece(free[i].begin, PageRoundUp(n)) = x
    BY <1>2, <1>3 DEF Taken, BlockPiece, Piece
  <2> QED
    BY <2>1, <1>1, <1>2 DEF PoolAllocate, Give, Allocate
<1>5. /\ x \notin Loose /\ x.begin = b.begin /\ x \in RegionType
  <2>1. x.begin = b.begin /\ x.size = b.size /\ b.begin \in Nat /\ b.size \in Nat
    BY <1>2, <1>3, BlockInRegion
  <2>2. x \in RegionType
    BY <2>1, <1>3 DEF BlockPiece, RegionType
  <2> QED
    BY <2>1, <2>2, <1>2, <1>3, BlockNotLoose
<1>6. x \notin Lent
  <2>1. ASSUME NEW c \in used
        PROVE  c.begin # b.begin
    <3>1. Tiles(owned', used' \union ToSet(free'))
      BY <1>2 DEF PoolInv
    <3>2. /\ c \in used' \union ToSet(free') /\ b \in used' \union ToSet(free') /\ b # c
      BY <1>2, <1>4
    <3> QED
      BY <3>1, <3>2, DistinctBegins
  <2>2. \A c \in used : BlockPiece(c).begin = c.begin
    BY UsedBlocks
  <2> QED
    BY <2>1, <2>2, <1>5 DEF Lent
<1>7. Lent' = Lent \union {x} /\ Loose' = Loose /\ LiveApart'
  BY <1>1, <1>3, <1>4 DEF Lent, Loose, BlockPiece, ManagerInv, LiveApart
<1>8. ManagerTypes'
  <2>1. held[t] \union {x} \in SUBSET RegionType
    BY <1>1, <1>5 DEF ManagerTypes
  <2> QED
    BY <2>1, <1>1, <1>4 DEF ManagerTypes
<1>9. /\ held'[t] = held[t] \union {x}
      /\ \A u \in Threads : u # t => held'[u] = held[u]
  BY <1>1, <1>4 DEF ManagerTypes
<1>10. /\ pc[t] = "idle" /\ pc'[t] = "idle"
       /\ InHand(t)' = {} /\ Has(t)' = held[t] \union {x}
  BY <1>1, <1>9 DEF PoolAllocate, InHand, Has, Carrying
<1>11. /\ held[t] \subseteq Has(t) /\ held[t] \subseteq Loose \union Lent
       /\ \A u \in Threads : Has(u) \subseteq Loose \union Lent
       /\ \A u \in Threads : u # t => Has(u) \intersect Has(t) = {}
  BY HasFacts
<1>12. \A p : Listed(p)' <=> Listed(p)
  BY <1>1 DEF Listed
<1>13. InCall(t)' /\ TableRight(t)'
  <2>1. \A p \in held[t] : p \in Loose => Listed(p)
    BY DEF ManagerInv, TableRight
  <2>2. \A p \in held'[t] : p \in Loose' => Listed(p)'
    BY <2>1, <1>5, <1>7, <1>9, <1>12
  <2> QED
    BY <2>2, <1>10 DEF InCall, TableRight, Carrying
<1>14. \A u \in Threads : u # t => \A p \in Has(u) : p \notin Has(t)'
  BY <1>5, <1>6, <1>10, <1>11
<1>15. /\ held'[t] \subseteq Loose' \union Lent' /\ held'[t] \intersect InHand(t)' = {}
       /\ Loose' \intersect Lent' = {}
  BY <1>5, <1>7, <1>9, <1>10, <1>11, LooseNotLent
<1> QED
  BY <1>1, <1>2, <1>4, <1>7, <1>8, <1>9, <1>12, <1>13, <1>14, <1>15, OtherThreads

\* The step ends a call that had x in hand; what others have is not x.
LEMMA HandingOver ==
  ASSUME ManagerInv, NEW t \in Threads, NEW x, x = item[t],
         pc[t] \in Carrying \union {"poolFree", "erase"},
         NEW l \in {"idle", "erase"}, NEW y \in RegionType,
         pc' = [pc EXCEPT ![t] = l], item' = [item EXCEPT ![t] = y], held' = held,
         PoolInv', owned \subseteq owned', live' \subseteq live, owned' \subseteq live',
         l = "erase" => y \in owned',
         Loose' \subseteq Loose, Loose \subseteq Loose' \union {x},
         Lent' \subseteq Lent, Lent \subseteq Lent' \union {x},
         pc[t] = "erase" => Lent' = Lent /\ Loose' = Loose,
         \A p \in Loose : p # x /\ Listed(p) => Listed(p)'
  PROVE  ManagerInv'
<1>1. ManagerTypes /\ LiveApart
  BY DEF ManagerInv
<1>2. ManagerTypes'
  BY <1>1 DEF ManagerTypes, Labels, Carrying
<1>3. LiveApart'
  BY <1>1 DEF LiveApart
<1>4. /\ pc'[t] = l /\ item'[t] = y /\ held'[t] = held[t]
      /\ \A u \in Threads : u # t => /\ pc'[u] = pc[u] /\ item'[u] = item[u]
                                     /\ held'[u] = held[u]
  BY <1>1 DEF ManagerTypes
<1>5. InHand(t)' = {} /\ Has(t)' = held[t]
  BY <1>4 DEF InHand, Has, Carrying
<1>6. /\ held[t] \subseteq Has(t) /\ held[t] \subseteq Loose \union Lent
      /\ \A u \in Threads : u # t => Has(u) \intersect Has(t) = {}
  BY HasFacts
<1>7. pc[t] # "erase" => x \in Has(t) /\ x \notin held[t]
  BY HasFacts
<1>8. pc[t] = "erase" => x \notin Loose
  BY DEF Loose, ManagerInv, InCall
<1>9. ASSUME NEW p, p \in held[t] \/ \E u \in Threads : u # t /\ p \in Has(u)
      PROVE  (p \in Loose => p # x /\ p \in Loose') /\ (p \in Lent => p \in Lent')
  BY <1>6, <1>7, <1>8, <1>9
<1>10. InCall(t)'
  BY <1>4 DEF InCall, Carrying
<1>11. TableRight(t)'
  <2>1. \A p \in held[t] : p \in Loose => Listed(p)
    BY DEF ManagerInv, TableRight
  <2>2. \A p \in held'[t] : p \in Loose' => Listed(p)'
    BY <2>1, <1>4, <1>9
  <2> QED
    BY <2>2, <1>4 DEF TableRight
<1>12. held'[t] \subseteq Loose' \union Lent'
  BY <1>4, <1>6, <1>9
<1>13. \A u \in Threads : u # t =>
         \A p \in Has(u) : /\ p \notin Has(t)'
                           /\ p \in Loose => p \in Loose'
                           /\ p \in Lent => p \in Lent'
                           /\ p \in Loose /\ Listed(p) => Listed(p)'
  BY <1>5, <1>6, <1>9
<1> QED
  BY <1>2, <1>3, <1>4, <1>5, <1>10, <1>11, <1>12, <1>13, LooseNotLent, OtherThreads

\* The block that is_allocated() found is still in use when free() takes it
\* back, although the two are separate critical sections.
LEMMA PoolFreeInv ==
  ASSUME ManagerInv, NEW t \in Threads, PoolFree(t)
  PROVE  /\ ManagerInv'
         /\ \E b \in used : Free(b)
<1>1. PICK b \in used : b.begin = item[t].begin /\ Free(b)
  BY DEF PoolFree
<1>2. PICK x : x = item[t]
  OBVIOUS
<1>3. /\ pc[t] = "poolFree" /\ x \in Lent /\ PoolInv
  BY <1>2 DEF ManagerInv, PoolFree, InCall
<1>4. x = BlockPiece(b)
  <2>1. PICK c \in used : x = BlockPiece(c)
    BY <1>3 DEF Lent
  <2>2. c.begin = b.begin
    BY <1>1, <1>2, <2>1, UsedBlocks
  <2> QED
    BY <2>1, <2>2, PiecesDiffer
<1>5. PoolInv' /\ used' = used \ {b} /\ owned' = owned
  BY <1>1, <1>3, FreeInv DEF Free
<1>6. Lent' = {BlockPiece(c) : c \in used'}
  BY DEF Lent, BlockPiece
<1>7. Lent' \subseteq Lent /\ Lent \subseteq Lent' \union {x}
  BY <1>4, <1>5, <1>6 DEF Lent
<1>8. /\ UNCHANGED <<live, allocated, held>> /\ NoItem \in RegionType
      /\ pc' = [pc EXCEPT ![t] = "idle"] /\ item' = [item EXCEPT ![t] = NoItem]
  BY DEF PoolFree, Return, NoItem, Piece, RegionType
<1>9. Loose' = Loose /\ \A p : Listed(p) => Listed(p)'
  BY <1>5, <1>8 DEF Loose, Listed
<1>10. owned' \subseteq live'
  BY <1>5, <1>8 DEF ManagerInv, ManagerTypes
<1> QED
  BY <1>1, <1>2, <1>3, <1>5, <1>7, <1>8, <1>9, <1>10, HandingOver

\* A region goes to the pool: it is loose, hence apart from the pool's.
LEMMA AddToPoolInv ==
  ASSUME ManagerInv, NEW t \in Threads, AddToPool(t)
  PROVE  /\ ManagerInv'
         /\ \E r \in Regions : Fresh(r) /\ AddMemory(r)
<1>1. PICK x : x = item[t]
  OBVIOUS
<1>2. /\ pc[t] \in {"freeAdd", "expandAdd"} /\ x \in Loose /\ AddMemory(x)
      /\ PoolInv /\ ManagerTypes /\ x \in RegionType
  BY <1>1 DEF ManagerInv, ManagerTypes, AddToPool, InCall, Carrying
<1>3. x \in Regions /\ x \in live /\ x \notin owned /\ Fresh(x)
  <2>1. \A q \in owned : q \in live /\ q # x
    BY <1>2 DEF ManagerTypes, Loose
  <2> QED
    BY <2>1, <1>2, LooseRegions DEF Fresh
<1>4. PoolInv' /\ owned' = owned \union {x} /\ used' = used
  BY <1>2, <1>3, AddMemoryInv DEF AddMemory
<1> DEFINE l == IF pc[t] = "freeAdd" THEN "erase" ELSE "idle"
<1> DEFINE y == IF pc[t] = "freeAdd" THEN x ELSE NoItem
<1>5. /\ UNCHANGED <<live, allocated, held>>
      /\ pc' = [pc EXCEPT ![t] = l] /\ item' = [item EXCEPT ![t] = y]
  BY <1>1, <1>2 DEF AddToPool, GoTo, Return
<1>6. l \in {"idle", "erase"} /\ y \in RegionType /\ (l = "erase" => y \in owned')
  BY <1>2, <1>4 DEF NoItem, Piece, RegionType
<1> HIDE DEF l, y
<1>7. Loose' = Loose \ {x} /\ Lent' = Lent /\ \A p : Listed(p) => Listed(p)'
  BY <1>4, <1>5 DEF Loose, Lent, BlockPiece, Listed
<1>8. owned' \subseteq live'
  BY <1>2, <1>3, <1>4, <1>5 DEF ManagerTypes
<1>9. PICK m : m = l
  OBVIOUS
<1>10. PICK z : z = y
  OBVIOUS
<1>11. ManagerInv'
  BY <1>1, <1>2, <1>4, <1>5, <1>6, <1>7, <1>8, <1>9, <1>10, HandingOver DEF Carrying
<1> QED
  BY <1>2, <1>3, <1>11

\* The entry of a region that is in the pool now is erased.
LEMMA EraseInv ==
  ASSUME ManagerInv, NEW t \in Threads, Erase(t)
  PROVE  ManagerInv'
<1>1. PICK x : x = item[t]
  OBVIOUS
<1>2. /\ pc[t] = "erase" /\ x \in owned /\ x \in live /\ owned \subseteq live
  BY <1>1 DEF ManagerInv, ManagerTypes, Erase, InCall
<1>3. /\ UNCHANGED <<poolVars, live, held>> /\ NoItem \in RegionType
      /\ pc' = [pc EXCEPT ![t] = "idle"] /\ item' = [item EXCEPT ![t] = NoItem]
      /\ allocated' = [a \in DOMAIN allocated \ {x.begin} |-> allocated[a]]
  BY <1>1 DEF Erase, Return, NoItem, Piece, RegionType
<1>4. PoolInv' /\ Loose' = Loose /\ Lent' = Lent /\ owned' = owned
  BY <1>3 DEF poolVars, PoolInv, ManagerInv, Loose, Lent, BlockPiece
<1>5. ASSUME NEW p \in Loose, Listed(p)
      PROVE  Listed(p)'
  <2>1. p.begin # x.begin
    BY <1>2, LooseRegions
  <2> QED
    BY <2>1, <1>3, <1>5 DEF Listed
<1> QED
  BY <1>1, <1>2, <1>3, <1>4, <1>5, HandingOver

\* ::cudaFree: nobody else had the region.
LEMMA DriverFreeInv ==
  ASSUME ManagerInv, NEW t \in Threads, DriverFree(t)
  PROVE  ManagerInv'
<1>1. PICK x : x = item[t]
  OBVIOUS
<1>2. /\ pc[t] = "driverFree" /\ x \in Loose /\ owned \subseteq live
  BY <1>1 DEF ManagerInv, ManagerTypes, DriverFree, InCall, Carrying
<1>3. /\ UNCHANGED <<poolVars, allocated, held>> /\ NoItem \in RegionType
      /\ pc' = [pc EXCEPT ![t] = "idle"] /\ item' = [item EXCEPT ![t] = NoItem]
      /\ live' = live \ {x}
  BY <1>1 DEF DriverFree, Return, NoItem, Piece, RegionType
<1>4. /\ PoolInv' /\ Lent' = Lent /\ owned' = owned /\ Loose' = Loose \ {x}
      /\ \A p : Listed(p) => Listed(p)'
  BY <1>3 DEF poolVars, PoolInv, ManagerInv, Loose, Lent, BlockPiece, Listed
<1>5. owned' \subseteq live'
  BY <1>2, <1>3, <1>4 DEF Loose
<1> QED
  BY <1>1, <1>2, <1>3, <1>4, <1>5, HandingOver DEF Carrying

\* Steps that leave alone what the invariant speaks of.
LEMMA OutsideSteps ==
  ASSUME ManagerInv, PoolInv',
         UNCHANGED <<owned, used, live, allocated, pc, item, held>>
  PROVE  ManagerInv'
<1>1. Loose' = Loose /\ Lent' = Lent
  BY DEF Loose, Lent, BlockPiece
<1>2. ManagerTypes' /\ LiveApart'
  BY DEF ManagerInv, ManagerTypes, LiveApart
<1>3. OnePlace'
  BY DEF ManagerInv, OnePlace, Has, InHand
<1>4. Known'
  BY <1>1 DEF ManagerInv, Known
<1>5. \A t \in Threads : InCall(t)' /\ TableRight(t)'
  BY <1>1 DEF ManagerInv, InCall, TableRight, Listed
<1> QED
  BY <1>2, <1>3, <1>4, <1>5 DEF ManagerInv

LEMMA ManagerInitInv == ManagerInit => ManagerInv
<1> SUFFICES ASSUME ManagerInit PROVE ManagerInv
  OBVIOUS
<1>1. PoolInv
  BY InitInv DEF ManagerInit
<1>2. /\ live = owned /\ owned \subseteq Regions /\ NoItem \in RegionType
      /\ pc = [t \in Threads |-> "idle"] /\ item = [t \in Threads |-> NoItem]
      /\ held = [t \in Threads |-> {}]
  BY <1>1 DEF ManagerInit, PoolInv, RegionsDisjoint, NoItem, Piece, RegionType
<1>3. ManagerTypes
  BY <1>2 DEF ManagerTypes, Labels
<1>4. LiveApart
  BY <1>1, <1>2 DEF LiveApart, PoolInv, RegionsDisjoint
<1>5. OnePlace
  BY <1>2 DEF OnePlace, Has, InHand, Carrying
<1>6. Known
  BY <1>2 DEF Known
<1>7. \A t \in Threads : InCall(t) /\ TableRight(t)
  BY <1>2 DEF InCall, TableRight, Carrying
<1> QED
  BY <1>1, <1>3, <1>4, <1>5, <1>6, <1>7 DEF ManagerInv

\* Every step keeps the invariant, and is a step of the pool or none to it.
LEMMA ManagerStep ==
  ASSUME ManagerInv, [ManagerNext]_vars
  PROVE  ManagerInv' /\ [PoolNext]_poolVars
<1>1. PoolInv
  BY DEF ManagerInv
<1>2. CASE UNCHANGED vars
  <2>1. UNCHANGED poolVars /\ PoolInv'
    BY <1>1, <1>2 DEF vars, poolVars, PoolInv
  <2> QED
    BY <2>1, <1>2, OutsideSteps DEF vars, managerVars, poolVars
<1>3. ASSUME NEW t \in Threads, Begin(t)
      PROVE  ManagerInv' /\ [PoolNext]_poolVars
  <2>1. ASSUME NEW n \in Requests, NEW i \in DOMAIN free, PoolAllocate(t, n, i)
        PROVE  ManagerInv' /\ PoolNext
    BY <2>1, PoolAllocateInv DEF PoolAllocate, PoolNext
  <2>2. ASSUME NEW n \in Requests, PoolHasNoRoom(t, n)
        PROVE  ManagerInv' /\ PoolNext
    BY <2>2, QuietActions DEF PoolHasNoRoom, PoolNext
  <2>3. CASE 0 \in Requests /\ PoolRejectsZero(t)
    <3>1. PoolNext
      BY <2>3 DEF PoolRejectsZero, PoolNext
    <3>2. PoolInv'
      BY <3>1, <1>1, NextInv
    <3> QED
      BY <2>3, <3>1, <3>2, OutsideSteps DEF PoolRejectsZero, AllocateZero, managerVars
  <2>4. ASSUME NEW p \in held[t], FreeBegins(t, p)
        PROVE  ManagerInv' /\ UNCHANGED poolVars
    BY <2>4, FreeBeginsInv DEF FreeBegins
  <2>5. ASSUME NEW n \in ExpandSizes, ExpandBegins(t, n)
        PROVE  ManagerInv' /\ UNCHANGED poolVars
    BY <2>5, QuietActions DEF ExpandBegins
  <2>6. ASSUME NEW set \in BOOLEAN, SetAsyncFreeFlag(t, set)
        PROVE  ManagerInv' /\ UNCHANGED poolVars
    <3>1. UNCHANGED poolVars /\ PoolInv'
      BY <2>6, <1>1 DEF SetAsyncFreeFlag, poolVars, PoolInv
    <3> QED
      BY <2>6, <3>1, OutsideSteps DEF SetAsyncFreeFlag, poolVars
  <2> QED
    BY <1>3, <2>1, <2>2, <2>3, <2>4, <2>5, <2>6 DEF Begin
<1>4. ASSUME NEW t \in Threads, Continue(t)
      PROVE  ManagerInv' /\ [PoolNext]_poolVars
  <2>1. ASSUME NEW r \in Regions, DriverMalloc(t, r)
        PROVE  ManagerInv' /\ UNCHANGED poolVars
    BY <2>1, DriverMallocInv DEF DriverMalloc
  <2>2. CASE DriverRefuses(t) \/ FindBlock(t) \/ FindMisses(t) \/ LimitPassed(t) \/ LimitReached(t)
    BY <2>2, QuietActions DEF DriverRefuses, FindBlock, FindMisses, LimitPassed, LimitReached
  <2>3. CASE Register(t)
    BY <2>3, RegisterInv DEF Register
  <2>4. CASE PoolFree(t)
    BY <2>4, PoolFreeInv DEF PoolNext
  <2>5. CASE AddToPool(t)
    BY <2>5, AddToPoolInv DEF PoolNext
  <2>6. CASE Erase(t)
    BY <2>6, EraseInv DEF Erase
  <2>7. CASE DriverFree(t)
    BY <2>7, DriverFreeInv DEF DriverFree
  <2> QED
    BY <1>4, <2>1, <2>2, <2>3, <2>4, <2>5, <2>6, <2>7 DEF Continue
<1> QED
  BY <1>2, <1>3, <1>4 DEF ManagerNext

\* A step of thread t forgets nothing if a region that was new to the driver,
\* or that t had, is still somewhere.
LEMMA KeptByStep ==
  ASSUME NothingForgotten, NEW t \in Threads,
         owned \subseteq owned', lost \subseteq lost',
         \A u \in Threads : u # t => /\ pc'[u] = pc[u] /\ item'[u] = item[u]
                                     /\ held'[u] = held[u],
         \A r \in live' :
           (r \in live => r \in held[t] \/ (pc[t] \in Carrying /\ item[t] = r))
           => \/ r \in owned' \/ r \in lost'
              \/ r \in held'[t] \/ (pc'[t] \in Carrying /\ item'[t] = r)
  PROVE  NothingForgotten'
<1> SUFFICES ASSUME NEW r \in live'
    PROVE  \/ r \in owned' \/ r \in lost'
           \/ \E u \in Threads : r \in held'[u] \/ (pc'[u] \in Carrying /\ item'[u] = r)
  BY DEF NothingForgotten, Carrying
<1>1. CASE r \notin live \/ r \in held[t] \/ (pc[t] \in Carrying /\ item[t] = r)
  BY <1>1
<1>2. CASE r \in live /\ (r \in owned \/ r \in lost)
  BY <1>2
<1>3. ASSUME r \in live, NEW u \in Threads, u # t,
             r \in held[u] \/ (pc[u] \in Carrying /\ item[u] = r)
      PROVE  r \in held'[u] \/ (pc'[u] \in Carrying /\ item'[u] = r)
  BY <1>3
<1> QED
  BY <1>1, <1>2, <1>3 DEF NothingForgotten

\* Loose memory that a thread gives up goes with the call.
LEMMA FreeKeeps ==
  ASSUME ManagerInv, NEW t \in Threads, NEW p \in held[t], FreeBegins(t, p),
         NEW r \in live, r \in held[t]
  PROVE  r \in owned \/ r \in held'[t] \/ (pc'[t] \in Carrying /\ item'[t] = r)
<1>1. /\ ManagerTypes
      /\ held' = [held EXCEPT ![t] = @ \ {p}] /\ item' = [item EXCEPT ![t] = p]
      /\ pc' = [pc EXCEPT ![t] = IF IsAllocated(p) THEN "poolFree"
                                 ELSE IF useAsyncFree THEN "find" ELSE "driverFree"]
  BY DEF FreeBegins, GoTo, ManagerInv
<1>2. CASE r # p
  BY <1>1, <1>2 DEF ManagerTypes
<1>3. CASE r = p /\ r \notin owned
  <2>1. p \in Loose
    BY <1>3 DEF Loose
  <2>2. ~IsAllocated(p)
    BY <2>1, UsedBlocks, BlockNotLoose DEF IsAllocated
  <2> QED
    BY <1>1, <1>3, <2>2 DEF ManagerTypes, Carrying
<1> QED
  BY <1>2, <1>3

LEMMA ForgetNothing ==
  ASSUME ManagerInv, NothingForgotten, [ManagerNext]_vars
  PROVE  NothingForgotten'
<1>0. ManagerTypes
  BY DEF ManagerInv
<1>1. CASE UNCHANGED vars
  BY <1>1 DEF vars, managerVars, poolVars, NothingForgotten
<1>2. ASSUME NEW t \in Threads, Begin(t)
      PROVE  NothingForgotten'
  <2> DEFINE Same == /\ owned' = owned /\ lost' = lost
                     /\ \A u \in Threads : u # t =>
                          pc'[u] = pc[u] /\ item'[u] = item[u] /\ held'[u] = held[u]
  <2>1. ASSUME NEW n \in Requests, NEW i \in DOMAIN free, PoolAllocate(t, n, i)
        PROVE  NothingForgotten'
    <3>1. Same /\ live' = live /\ held[t] \subseteq held'[t] /\ pc[t] \notin Carrying
      BY <2>1, <1>0 DEF PoolAllocate, Allocate, Give, ManagerTypes, Carrying
    <3> QED
      BY <3>1, KeptByStep
  <2>2. ASSUME NEW p \in held[t], FreeBegins(t, p)
        PROVE  NothingForgotten'
    <3>1. Same /\ live' = live /\ pc[t] \notin Carrying
      BY <2>2, <1>0 DEF FreeBegins, GoTo, ManagerTypes, Carrying, poolVars
    <3> QED
      BY <2>2, <3>1, FreeKeeps, KeptByStep
  <2>3. CASE \/ \E n \in Requests : PoolHasNoRoom(t, n)
             \/ PoolRejectsZero(t)
             \/ \E n \in ExpandSizes : ExpandBegins(t, n)
             \/ \E set \in BOOLEAN : SetAsyncFreeFlag(t, set)
    <3>1. Same /\ live' = live /\ held' = held /\ pc[t] \notin Carrying
      BY <2>3, <1>0 DEF PoolHasNoRoom, AllocateNothing, PoolRejectsZero, AllocateZero,
         ExpandBegins, SetAsyncFreeFlag, GoTo, ManagerTypes, Carrying, poolVars, managerVars
    <3> QED
      BY <3>1, KeptByStep
  <2> QED
    BY <1>2, <2>1, <2>2, <2>3 DEF Begin
<1>3. ASSUME NEW t \in Threads, Continue(t)
      PROVE  NothingForgotten'
  <2> DEFINE Others == \A u \in Threads : u # t =>
                         pc'[u] = pc[u] /\ item'[u] = item[u] /\ held'[u] = held[u]
  <2> DEFINE Kept(r) == \/ r \in owned' \/ r \in lost' \/ r \in held'[t]
                        \/ (pc'[t] \in Carrying /\ item'[t] = r)
  <2>1. ASSUME NEW r \in Regions, DriverMalloc(t, r)
        PROVE  NothingForgotten'
    <3>1. /\ Others /\ owned' = owned /\ lost' = lost /\ held' = held
          /\ live' = live \union {r} /\ pc[t] \notin Carrying /\ Kept(r)
      BY <2>1, <1>0 DEF DriverMalloc, GoTo, ManagerTypes, Carrying, poolVars
    <3> QED
      BY <3>1, KeptByStep
  <2>2. CASE DriverRefuses(t) \/ PoolFree(t) \/ Erase(t)
    <3>1. /\ Others /\ owned' = owned /\ lost' = lost /\ held' = held
          /\ live' = live /\ pc[t] \notin Carrying
      BY <2>2, <1>0 DEF DriverRefuses, PoolFree, Free, Erase, Return, ManagerTypes,
         Carrying, poolVars
    <3> QED
      BY <3>1, KeptByStep
  <2>3. CASE Register(t) \/ LimitPassed(t) \/ FindMisses(t) \/ LimitReached(t) \/ AddToPool(t)
    <3>1. /\ Others /\ owned \subseteq owned' /\ lost \subseteq lost'
          /\ held[t] \subseteq held'[t] /\ live' = live /\ Kept(item[t])
      BY <2>3, <1>0 DEF Register, Give, LimitPassed, FindMisses, LimitReached, AddToPool,
         AddMemory, GoTo, Return, ManagerTypes, Carrying, poolVars
    <3> QED
      BY <3>1, KeptByStep
  <2>4. CASE FindBlock(t)
    <3>1. Listed(item[t]) /\ item[t] \in RegionType
      BY <2>4, <1>0 DEF FindBlock, ManagerInv, TableRight, ManagerTypes
    <3>2. Piece(item[t].begin, allocated[item[t].begin]) = item[t]
      BY <3>1 DEF Listed, Piece, RegionType
    <3>3. /\ Others /\ owned' = owned /\ lost' = lost /\ held' = held
          /\ live' = live /\ Kept(item[t])
      BY <2>4, <3>2, <1>0 DEF FindBlock, GoTo, ManagerTypes, Carrying, poolVars
    <3> QED
      BY <3>3, KeptByStep
  <2>5. CASE DriverFree(t)
    <3>1. /\ Others /\ owned' = owned /\ lost' = lost /\ held' = held
          /\ live' = live \ {item[t]}
      BY <2>5, <1>0 DEF DriverFree, Return, ManagerTypes, poolVars
    <3> QED
      BY <3>1, KeptByStep
  <2> QED
    BY <1>3, <2>1, <2>2, <2>3, <2>4, <2>5 DEF Continue
<1> QED
  BY <1>1, <1>2, <1>3 DEF ManagerNext

-----------------------------------------------------------------------------
(* The limit. *)

\* Finitely many numbers have a greatest one: otherwise the next greater number
\* of the set maps it one-to-one to itself without its least.
LEMMA GreatestOfFinite ==
  ASSUME NEW S \in SUBSET Nat, S # {}, IsFiniteSet(S)
  PROVE  \E n \in S : \A k \in S : k <= n
<1>1. SUFFICES ASSUME \A n \in S : \E k \in S : k > n PROVE FALSE
  OBVIOUS
<1>2. \A n \in S : \E m \in S : m > n /\ \A k \in S : k > n => m <= k
  <2>1. SUFFICES ASSUME NEW n \in S
                 PROVE  \E m \in S : m > n /\ \A k \in S : k > n => m <= k
    OBVIOUS
  <2> DEFINE N == {k \in S : k > n}
  <2>2. N \in SUBSET Nat /\ N # {}
    BY <1>1
  <2>3. PICK m \in N : \A k \in N : m <= k
    BY <2>2, LeastNat
  <2> QED
    BY <2>3
<1> DEFINE g == [n \in S |-> CHOOSE m \in S : m > n /\ \A k \in S : k > n => m <= k]
<1>3. \A n \in S : g[n] \in S /\ g[n] > n /\ \A k \in S : k > n => g[n] <= k
  BY <1>2
<1> HIDE DEF g
<1>4. PICK least \in S : \A k \in S : least <= k
  BY LeastNat
<1> DEFINE T == S \ {least}
<1>5. \A n \in S : g[n] \in T
  BY <1>3, <1>4
<1>6. \A a, b \in S : g[a] = g[b] => a = b
  <2>1. SUFFICES ASSUME NEW a \in S, NEW b \in S, g[a] = g[b], a < b PROVE FALSE
    OBVIOUS
  <2>2. g[a] <= b /\ g[b] > b /\ g[a] \in Nat /\ g[b] \in Nat
    BY <1>3, <2>1
  <2> QED
    BY <2>1, <2>2
<1>7. g \in Injection(S, T)
  <2>1. g \in [S -> T]
    BY <1>5 DEF g
  <2> QED
    BY <2>1, <1>6 DEF Injection, IsInjective
<1>8. IsFiniteSet(T) /\ Cardinality(T) = Cardinality(S) - 1 /\ Cardinality(S) \in Nat
  BY FS_RemoveElement, FS_CardinalityType
<1>9. Cardinality(S) <= Cardinality(T)
  BY <1>7, <1>8, FS_Injection
<1> QED
  BY <1>8, <1>9

\* No region is larger than Largest.
LEMMA LargestRegion ==
  ASSUME Regions # {}
  PROVE  Largest \in Nat /\ \A r \in Regions : r.size <= Largest
<1> DEFINE S == {r.size : r \in Regions}
           f == [r \in Regions |-> r.size]
<1>1. S \in SUBSET Nat /\ S # {}
  BY RegionFields
<1>2. f \in Surjection(Regions, S)
  BY DEF Surjection
<1>3. IsFiniteSet(S)
  BY <1>2, FiniteAssumption, FS_Surjection
<1>4. PICK n \in S : \A k \in S : k <= n
  BY <1>1, <1>3, GreatestOfFinite
<1>5. \A r \in Regions : r.size \in S
  OBVIOUS
<1>6. Largest = CHOOSE m \in S : \A r \in Regions : r.size <= m
  BY DEF Largest
<1> HIDE DEF S
<1>7. Largest \in S /\ \A r \in Regions : r.size <= Largest
  BY <1>4, <1>5, <1>6
<1> QED
  BY <1>1, <1>7

\* The threads between the limit test of add_memory and its critical section.
Adding == {t \in Threads : pc[t] \in {"freeAdd", "expandAdd"}}
Bound == MaxSize + (Cardinality(Threads) - 1) * Largest

\* The last of them to have tested saw what the others had added by then, and
\* those still to add are as many regions at most.
Room(t) == poolSize + item[t].size + (Cardinality(Adding) - 1) * Largest <= Bound

RaceInv ==
  MaxSize # 0 =>
    /\ poolSize <= Bound
    /\ Adding # {} => \E t \in Adding : Room(t)

LEMMA RaceNumbers ==
  ASSUME Regions # {}
  PROVE  /\ Largest \in Nat /\ MaxSize \in Nat /\ Bound \in Int
         /\ IsFiniteSet(Adding) /\ Cardinality(Adding) \in Nat
         /\ IsFiniteSet(Adding') /\ Cardinality(Adding') \in Nat
         /\ Cardinality(Threads) \in Nat \ {0}
         /\ \A k \in Int : k * Largest \in Int
         /\ \A k \in Nat : k * Largest \in Nat
         /\ \A k \in Int : k * Largest = (k - 1) * Largest + Largest
<1>1. Largest \in Nat /\ MaxSize \in Nat
  BY LargestRegion, MaxSizeAssumption
<1>2. IsFiniteSet(Threads) /\ Cardinality(Threads) \in Nat \ {0}
  BY FiniteAssumption, FS_CardinalityType, FS_EmptySet
<1>3. /\ IsFiniteSet(Adding) /\ Cardinality(Adding) \in Nat
      /\ IsFiniteSet(Adding') /\ Cardinality(Adding') \in Nat
  <2>1. Adding \in SUBSET Threads /\ Adding' \in SUBSET Threads
    BY DEF Adding
  <2> QED
    BY <1>2, <2>1, FS_Subset, FS_CardinalityType
<1> HIDE DEF Largest
<1>4. \A k \in Int : k * Largest \in Int /\ k * Largest = (k - 1) * Largest + Largest
  BY <1>1
<1>5. \A k \in Nat : k * Largest \in Nat
  BY <1>1
<1>6. Bound \in Int
  BY <1>1, <1>2, <1>4 DEF Bound
<1> QED
  BY <1>1, <1>2, <1>3, <1>4, <1>5, <1>6

\* Steps of threads that do not come or leave between test and critical section.
LEMMA RaceKept ==
  ASSUME RaceInv, poolSize' = poolSize, Adding' = Adding,
         \A t \in Adding : item'[t] = item[t]
  PROVE  RaceInv'
  BY DEF RaceInv, Room, Bound

\* The test: this thread is now the last to have passed it.
LEMMA LimitPassedRace ==
  ASSUME ManagerInv, RaceInv, NEW t \in Threads, LimitPassed(t)
  PROVE  RaceInv'
<1>1. /\ pc[t] \in {"freeLimit", "expandLimit"} /\ WithinLimit(item[t])
      /\ poolSize' = poolSize /\ item[t] \in Regions
      /\ poolSize \in Int /\ pc \in [Threads -> Labels] /\ item \in [Threads -> RegionType]
  BY LooseRegions DEF LimitPassed, ManagerInv, ManagerTypes, InCall, Carrying, poolVars, PoolInv
<1>2. item'[t] = item[t] /\ Adding' = Adding \union {t} /\ t \notin Adding
  BY <1>1 DEF LimitPassed, GoTo, Adding
<1>3. item[t].size \in Nat
  BY <1>1, RegionFields
<1>4. /\ Cardinality(Adding') = Cardinality(Adding) + 1
      /\ Cardinality(Adding') <= Cardinality(Threads)
  <2>1. Adding' \in SUBSET Threads
    BY DEF Adding
  <2>2. Cardinality(Adding') <= Cardinality(Threads)
    BY <2>1, FiniteAssumption, FS_Subset
  <2> QED
    BY <1>1, <1>2, <2>2, RaceNumbers, FS_AddElement
<1>5. ASSUME MaxSize # 0 PROVE poolSize' <= Bound' /\ Room(t)'
  <2>1. poolSize + item[t].size <= MaxSize
    BY <1>1, <1>3, <1>5, MaxSizeAssumption DEF WithinLimit
  <2> DEFINE c == Cardinality(Adding') - 1
             n == Cardinality(Threads) - 1
  <2>2. c \in Nat /\ n \in Nat /\ c <= n /\ Largest \in Nat
    <3>1. Regions # {}
      BY <1>1
    <3>2. /\ Cardinality(Adding) \in Nat /\ Cardinality(Threads) \in Nat \ {0}
          /\ Largest \in Nat
      BY <3>1, RaceNumbers
    <3>3. c = Cardinality(Adding)
      BY <1>4, <3>2
    <3> HIDE DEF c
    <3> QED
      BY <1>4, <3>2, <3>3
  <2>3. c * Largest <= n * Largest /\ c * Largest \in Nat /\ n * Largest \in Nat
    <3> HIDE DEF c, n, Largest
    <3> QED
      BY <2>2
  <2>4. poolSize + item[t].size + c * Largest <= MaxSize + n * Largest
    <3> HIDE DEF c, n
    <3> QED
      BY <1>1, <1>3, <2>1, <2>3, MaxSizeAssumption
  <2>5. poolSize <= MaxSize + n * Largest
    <3> HIDE DEF c, n
    <3> QED
      BY <1>1, <1>3, <2>3, <2>4, MaxSizeAssumption
  <2> QED
    BY <1>1, <1>2, <2>4, <2>5 DEF Room, Bound
<1> QED
  BY <1>2, <1>5 DEF RaceInv

\* The critical section: one region more, one thread less.
LEMMA AddToPoolRace ==
  ASSUME ManagerInv, RaceInv, NEW t \in Threads, AddToPool(t)
  PROVE  RaceInv'
<1>1. /\ pc[t] \in {"freeAdd", "expandAdd"} /\ item[t] \in Regions
      /\ poolSize \in Int /\ pc \in [Threads -> Labels] /\ item \in [Threads -> RegionType]
      /\ poolSize' = poolSize + WholeRegion(item[t]).size
  BY LooseRegions DEF AddToPool, AddMemory, ManagerInv, ManagerTypes, InCall, Carrying, PoolInv
<1>2. /\ t \in Adding /\ Adding' = Adding \ {t}
      /\ \A u \in Adding' : item'[u] = item[u]
  BY <1>1 DEF AddToPool, GoTo, Return, Adding
<1>3. Cardinality(Adding') = Cardinality(Adding) - 1
  BY <1>1, <1>2, RaceNumbers, FS_RemoveElement
<1>4. /\ \A u \in Adding : item[u] \in Regions /\ item[u].size \in Nat /\ item[u].size <= Largest
      /\ WholeRegion(item[t]).size \in Nat /\ WholeRegion(item[t]).size <= item[t].size
  <2>1. \A u \in Adding : item[u] \in Regions
    BY LooseRegions DEF Adding, ManagerInv, InCall, Carrying
  <2>2. WholeRegion(item[t]).size = End(item[t]) - Start(item[t])
    BY DEF WholeRegion
  <2>3. /\ item[t].begin <= Start(item[t]) /\ Start(item[t]) < End(item[t])
        /\ End(item[t]) = item[t].begin + item[t].size
        /\ Start(item[t]) \in Nat /\ item[t].begin \in Nat /\ item[t].size \in Nat
    BY <1>1, RegionBounds, RegionFields
  <2> QED
    BY <1>1, <2>1, <2>2, <2>3, LargestRegion, RegionFields
<1>5. ASSUME MaxSize # 0
      PROVE  poolSize' <= Bound /\ (Adding' # {} => \E u \in Adding' : Room(u)')
  <2> DEFINE c == Cardinality(Adding)
             size == WholeRegion(item[t]).size
  <2>1. /\ c \in Nat \ {0} /\ Largest \in Nat /\ Bound \in Int
        /\ (c - 1) * Largest \in Nat
        /\ (c - 1) * Largest = (c - 2) * Largest + Largest
        /\ (c - 2) * Largest \in Int
        /\ Adding' # {} => (c - 2) * Largest \in Nat
    <3>1. c \in Nat \ {0}
      BY <1>1, <1>2, RaceNumbers, FS_EmptySet
    <3>2. Adding' # {} => c - 1 # 0
      BY <1>1, <1>3, RaceNumbers, FS_EmptySet
    <3>3. c - 1 \in Nat /\ c - 2 \in Int /\ (Adding' # {} => c - 2 \in Nat)
      BY <3>1, <3>2
    <3>4. c - 2 = (c - 1) - 1 /\ Regions # {}
      BY <1>1, <3>1
    <3> HIDE DEF c
    <3>5. /\ Largest \in Nat /\ Bound \in Int
          /\ \A k \in Int : k * Largest \in Int
          /\ \A k \in Nat : k * Largest \in Nat
          /\ \A k \in Int : k * Largest = (k - 1) * Largest + Largest
      BY <3>4, RaceNumbers
    <3>6. (c - 1) * Largest = ((c - 1) - 1) * Largest + Largest
      BY <3>3, <3>5
    <3>7. (c - 1) * Largest \in Nat /\ (c - 2) * Largest \in Int
      BY <3>3, <3>5
    <3>8. Adding' # {} => (c - 2) * Largest \in Nat
      BY <3>3, <3>5
    <3> QED
      BY <3>1, <3>4, <3>5, <3>6, <3>7, <3>8
  <2>2. PICK w \in Adding : poolSize + item[w].size + (c - 1) * Largest <= Bound
    BY <1>2, <1>5 DEF RaceInv, Room
  <2>3. Bound' = Bound
    BY DEF Bound
  <2>4. poolSize' \in Int /\ poolSize' <= poolSize + size /\ size \in Nat /\ size <= Largest
        /\ size <= item[t].size /\ item[w].size \in Nat /\ item[w].size <= Largest
    BY <1>1, <1>2, <1>4, <2>1
  <2> HIDE DEF c, size
  <2>5. CASE Adding' = {}
    <3>1. w = t
      BY <1>2, <2>5
    <3> QED
      BY <1>1, <2>1, <2>2, <2>4, <2>5, <3>1
  <2>6. CASE Adding' # {} /\ w # t
    <3>1. w \in Adding' /\ item'[w] = item[w]
      BY <1>2, <2>6
    <3>2. poolSize' + item[w].size + (c - 2) * Largest <= Bound
      BY <1>1, <2>1, <2>2, <2>4
    <3>3. Cardinality(Adding') - 1 = c - 2
      BY <1>3, <2>1 DEF c
    <3>4. Room(w)'
      BY <2>3, <3>1, <3>2, <3>3 DEF Room
    <3>5. poolSize' <= Bound
      BY <1>1, <2>1, <2>4, <2>6, <3>2
    <3> QED
      BY <3>1, <3>4, <3>5
  <2>7. CASE Adding' # {} /\ w = t
    <3>1. PICK u \in Adding' : TRUE
      BY <2>7
    <3>2. u \in Adding /\ item'[u] = item[u] /\ item[u].size \in Nat /\ item[u].size <= Largest
      BY <1>2, <1>4
    <3>3. poolSize' + item[u].size + (c - 2) * Largest <= Bound
      BY <1>1, <2>1, <2>2, <2>4, <2>7, <3>2
    <3>4. Cardinality(Adding') - 1 = c - 2
      BY <1>3, <2>1 DEF c
    <3>5. Room(u)'
      BY <2>3, <3>2, <3>3, <3>4 DEF Room
    <3>6. poolSize' <= Bound
      BY <1>1, <2>1, <2>4, <2>7, <3>2, <3>3
    <3> QED
      BY <3>5, <3>6
  <2> QED
    BY <2>5, <2>6, <2>7
<1>6. Bound' = Bound
  BY DEF Bound
<1> QED
  BY <1>5, <1>6 DEF RaceInv

LEMMA RaceInit == ManagerInit => RaceInv
<1>1. SUFFICES ASSUME ManagerInit, MaxSize # 0 PROVE poolSize <= Bound /\ Adding = {}
  BY DEF RaceInv
<1>2. PICK r \in Regions : r.size <= MaxSize /\ poolSize = WholeRegion(r).size
  BY <1>1 DEF ManagerInit, PoolInit
<1>3. poolSize \in Nat /\ poolSize <= MaxSize
  <2>1. WholeRegion(r).size = End(r) - Start(r)
    BY DEF WholeRegion
  <2> QED
    BY <1>2, <2>1, RegionBounds, RegionFields, MaxSizeAssumption
<1>4. (Cardinality(Threads) - 1) * Largest \in Nat
  <2>1. Regions # {}
    BY <1>2
  <2>2. Cardinality(Threads) - 1 \in Nat
    <3>1. Cardinality(Threads) \in Nat \ {0}
      BY <2>1, RaceNumbers
    <3> QED
      BY <3>1
  <2> QED
    BY <2>1, <2>2, RaceNumbers
<1>5. poolSize <= Bound
  BY <1>3, <1>4, MaxSizeAssumption DEF Bound
<1> QED
  BY <1>1, <1>5 DEF ManagerInit, Adding

LEMMA RaceStep ==
  ASSUME ManagerInv, RaceInv, [ManagerNext]_vars
  PROVE  RaceInv'
<1>1. pc \in [Threads -> Labels] /\ item \in [Threads -> RegionType]
  BY DEF ManagerInv, ManagerTypes
<1>2. CASE UNCHANGED vars
  BY <1>2, RaceKept DEF vars, poolVars, managerVars, Adding
<1>3. ASSUME NEW t \in Threads, NEW l, NEW x, pc[t] \notin {"freeAdd", "expandAdd"},
             l \notin {"freeAdd", "expandAdd"}, GoTo(t, l, x), poolSize' = poolSize
      PROVE  RaceInv'
  <2>1. Adding' = Adding /\ \A u \in Adding : item'[u] = item[u]
    BY <1>1, <1>3 DEF GoTo, Adding
  <2> QED
    BY <1>3, <2>1, RaceKept
<1>4. ASSUME NEW t \in Threads, pc[t] \notin {"freeAdd", "expandAdd"}, Return(t),
             poolSize' = poolSize
      PROVE  RaceInv'
  BY <1>3, <1>4 DEF GoTo, Return
<1>5. ASSUME NEW t \in Threads, pc' = pc, item' = item, poolSize' = poolSize
      PROVE  RaceInv'
  BY <1>5, RaceKept DEF Adding
<1>6. ASSUME NEW t \in Threads, Begin(t)
      PROVE  RaceInv'
  <2>1. ASSUME NEW n \in Requests, NEW i \in DOMAIN free, PoolAllocate(t, n, i)
        PROVE  RaceInv'
    BY <1>5, <2>1 DEF PoolAllocate, Allocate
  <2>2. ASSUME NEW n \in Requests, PoolHasNoRoom(t, n) PROVE RaceInv'
    BY <1>3, <2>2 DEF PoolHasNoRoom, AllocateNothing, poolVars
  <2>3. CASE PoolRejectsZero(t)
    BY <1>5, <2>3 DEF PoolRejectsZero, AllocateZero, managerVars
  <2>4. ASSUME NEW p \in held[t], FreeBegins(t, p) PROVE RaceInv'
    BY <1>3, <2>4 DEF FreeBegins, poolVars
  <2>5. ASSUME NEW n \in ExpandSizes, ExpandBegins(t, n) PROVE RaceInv'
    BY <1>3, <2>5 DEF ExpandBegins, poolVars
  <2>6. ASSUME NEW set \in BOOLEAN, SetAsyncFreeFlag(t, set) PROVE RaceInv'
    BY <1>5, <2>6 DEF SetAsyncFreeFlag, poolVars
  <2> QED
    BY <1>6, <2>1, <2>2, <2>3, <2>4, <2>5, <2>6 DEF Begin
<1>7. ASSUME NEW t \in Threads, Continue(t)
      PROVE  RaceInv'
  <2>1. ASSUME NEW r \in Regions, DriverMalloc(t, r) PROVE RaceInv'
    BY <1>3, <2>1 DEF DriverMalloc, poolVars
  <2>2. CASE \/ DriverRefuses(t) \/ Register(t) \/ PoolFree(t) \/ FindMisses(t)
             \/ LimitReached(t) \/ Erase(t) \/ DriverFree(t)
    BY <1>4, <2>2 DEF DriverRefuses, Register, PoolFree, Free, FindMisses, LimitReached,
                      Erase, DriverFree, poolVars
  <2>3. CASE FindBlock(t)
    BY <1>3, <2>3 DEF FindBlock, poolVars
  <2> QED
    BY <1>7, <2>1, <2>2, <2>3, LimitPassedRace, AddToPoolRace DEF Continue
<1> QED
  BY <1>2, <1>6, <1>7 DEF ManagerNext

-----------------------------------------------------------------------------
(* The theorems. *)

\* Loose regions and blocks in use are in one hand each, and the table is
\* right about what may be freed, whatever the threads do.
THEOREM ManagerInvariant == ManagerSpec => []ManagerInv
<1>1. ManagerInit => ManagerInv
  BY ManagerInitInv
<1>2. ManagerInv /\ [ManagerNext]_vars => ManagerInv'
  BY ManagerStep
<1> QED
  BY <1>1, <1>2, PTL DEF ManagerSpec

\* Under any number of threads the pool only takes the steps of MemoryPool:
\* what is_allocated() answered still holds when free() acts on it, and regions
\* are new to the pool when they are added.
THEOREM ManagerImplementsPool == ManagerSpec => ImplementsPool
<1>1. ManagerInit => PoolInit
  BY DEF ManagerInit
<1>2. ManagerInv /\ [ManagerNext]_vars => [PoolNext]_poolVars
  BY ManagerStep
<1> QED
  BY <1>1, <1>2, ManagerInvariant, PTL DEF ManagerSpec, ImplementsPool, PoolSpec

\* So it is the abstract allocator to them.
THEOREM ManagerImplementsAllocator == ManagerSpec => ImplementsAllocator
<1> QED
  BY ManagerImplementsPool, PoolImplementsAllocator DEF ImplementsPool

\* Threads never share a byte, nor use what the driver has back.
THEOREM AlwaysHeldApart == ManagerSpec => []HeldApartAndLive
<1> QED
  BY ManagerInvariant, InvHeldApart, PTL

\* Though the limit is tested outside the critical section, threads that race
\* for it pass it by one region each at most, and one of them by none.
THEOREM OvershootIsBounded == ManagerSpec => []OvershootBounded
<1>1. ManagerInit => RaceInv
  BY RaceInit
<1>2. ManagerInv /\ RaceInv /\ [ManagerNext]_vars => RaceInv'
  BY RaceStep
<1>3. RaceInv => OvershootBounded
  BY DEF RaceInv, Bound, OvershootBounded
<1> QED
  BY <1>1, <1>2, <1>3, ManagerInvariant, PTL DEF ManagerSpec

\* And driver memory is lost to everybody only where an exception dropped it.
THEOREM NeverForgets == ManagerSpec => []NothingForgotten
<1>1. ManagerInit => NothingForgotten
  BY DEF ManagerInit, NothingForgotten
<1>2. ManagerInv /\ NothingForgotten /\ [ManagerNext]_vars => NothingForgotten'
  BY ForgetNothing
<1> QED
  BY <1>1, <1>2, ManagerInvariant, PTL DEF ManagerSpec
-----------------------------------------------------------------------------
(* Resources: of whatever the driver has given, the pool or the table knows *)
(* and the pool or a buffer has it, and as long as no pool was destroyed    *)
(* with blocks in use, each buffer has a live address to itself.            *)

Filled(o, b) == memory[o][b] # None

HasIt(p) == \E o \in Objects, b \in Buffers : memory[o][b] = p

\* Objects belong to Resources that are there.
UsersInv ==
  /\ \A o \in active : rsc[o] # None
  /\ \A o \in Objects : rsc[o] # None => device[rsc[o]] # None

\* A pool that is gone has no regions, and blocks are of the pool's regions.
PoolsInv ==
  /\ ~devicePool => ownedPtrs = {}
  /\ usedBlocks \subseteq ownedPtrs

\* What is allocated can be found again, and is somebody's.
FoundInv ==
  /\ \A p \in Places : driver[p] # None => p \in ownedPtrs \union table
  /\ \A p \in Places : driver[p] # None => p \in ownedPtrs \/ HasIt(p)
  /\ \A p \in usedBlocks : HasIt(p)

Sound ==
  \A o \in Objects, b \in Buffers : Filled(o, b) =>
    /\ driver[memory[o][b]] # None
    /\ memory[o][b] \in ownedPtrs => memory[o][b] \in usedBlocks

Single ==
  \A o1, o2 \in Objects, b1, b2 \in Buffers :
    Filled(o1, b1) /\ memory[o1][b1] = memory[o2][b2] => o1 = o2 /\ b1 = b2

Kept ==
  ~warned =>
    /\ ~terminated
    /\ \A p \in ownedPtrs : driver[p] # None
    /\ Sound
    /\ Single

IInv == TypeOK /\ UsersInv /\ PoolsInv /\ FoundInv /\ Kept

-----------------------------------------------------------------------------
\* A buffer gets another content.

LEMMA BufferSet ==
  ASSUME TypeOK, NEW o \in Objects, NEW b \in Buffers,
         NEW v \in Places \union {None},
         memory' = [memory EXCEPT ![o][b] = v]
  PROVE  /\ memory' \in [Objects -> [Buffers -> Places \union {None}]]
         /\ memory'[o][b] = v
         /\ \A o1 \in Objects, b1 \in Buffers :
              o1 # o \/ b1 # b => memory'[o1][b1] = memory[o1][b1]
  BY DEF TypeOK

LEMMA HeldIs ==
  ASSUME NEW o \in Objects
  PROVE  \A p : p \in Held(o) <=> p # None /\ \E b \in Buffers : memory[o][b] = p
  BY DEF Held

LEMMA InitIInv == Init => IInv
<1> SUFFICES ASSUME Init PROVE IInv
  OBVIOUS
<1>1. TypeOK
  BY DEF Init, TypeOK, Clear
<1>2. \A o \in Objects, b \in Buffers : memory[o][b] = None
  BY DEF Init, Clear
<1>3. UsersInv /\ PoolsInv
  BY DEF Init, UsersInv, PoolsInv
<1>4. FoundInv
  BY DEF Init, FoundInv
<1>5. Kept
  BY <1>2 DEF Init, Kept, Sound, Single, Filled
<1> QED
  BY <1>1, <1>3, <1>4, <1>5 DEF IInv

-----------------------------------------------------------------------------
\* Steps that leave all memory where it is.

LEMMA MemoryStays ==
  ASSUME IInv, TypeOK', UsersInv',
         UNCHANGED <<memory, driver, devicePool, ownedPtrs, usedBlocks, table, warned,
                     terminated>>
  PROVE  IInv'
<1>1. PoolsInv' /\ FoundInv' /\ Kept'
  BY DEF IInv, PoolsInv, FoundInv, HasIt, Kept, Sound, Single, Filled
<1> QED
  BY <1>1 DEF IInv

LEMMA CallsKeep ==
  ASSUME IInv,
         \/ \E h \in Handles : CreateResourcesThrows(h)
         \/ \E o \in Objects, h \in Handles : CreateObject(o, h)
         \/ \E h \in Handles, kind \in {"compute", "setup"} : BeginCall(h, kind)
         \/ EndCall
         \/ \E o \in Objects : BeginDestroy(o) \/ EndDestroy(o)
  PROVE  IInv'
<1> USE NoneAssumption DEF IInv, TypeOK, UsersInv, poolsVars, userVars
<1>1. CASE \E h \in Handles : CreateResourcesThrows(h)
  <2>1. TypeOK' /\ UsersInv'
    BY <1>1 DEF CreateResourcesThrows
  <2> QED
    BY <1>1, <2>1, MemoryStays DEF CreateResourcesThrows
<1>2. ASSUME NEW o \in Objects, NEW h \in Handles, CreateObject(o, h)
      PROVE  IInv'
  <2>1. TypeOK' /\ UsersInv'
    BY <1>2 DEF CreateObject
  <2> QED
    BY <1>2, <2>1, MemoryStays DEF CreateObject
<1>3. ASSUME NEW h \in Handles, NEW kind \in {"compute", "setup"},
             BeginCall(h, kind)
      PROVE  IInv'
  <2>1. TypeOK' /\ UsersInv'
    BY <1>3 DEF BeginCall
  <2> QED
    BY <1>3, <2>1, MemoryStays DEF BeginCall
<1>4. CASE EndCall
  <2>1. TypeOK' /\ UsersInv'
    BY <1>4 DEF EndCall
  <2> QED
    BY <1>4, <2>1, MemoryStays DEF EndCall
<1>5. ASSUME NEW o \in Objects, BeginDestroy(o)
      PROVE  IInv'
  <2>1. TypeOK' /\ UsersInv'
    BY <1>5 DEF BeginDestroy
  <2> QED
    BY <1>5, <2>1, MemoryStays DEF BeginDestroy
<1>6. ASSUME NEW o \in Objects, EndDestroy(o)
      PROVE  IInv'
  <2>1. TypeOK' /\ UsersInv'
    BY <1>6 DEF EndDestroy
  <2> QED
    BY <1>6, <2>1, MemoryStays DEF EndDestroy
<1> QED
  BY <1>1, <1>2, <1>3, <1>4, <1>5, <1>6

-----------------------------------------------------------------------------
\* The pools come and go.

LEMMA CreateKeeps ==
  ASSUME IInv, NEW h \in Handles, NEW d \in Devices, CreateResources(h, d)
  PROVE  IInv'
<1>1. CASE devicePool
  <2>1. UNCHANGED <<driver, devicePool, ownedPtrs, usedBlocks>>
    BY <1>1 DEF CreateResources, MakeDevicePool
  <2>2. TypeOK' /\ UsersInv'
    BY <2>1, NoneAssumption DEF IInv, TypeOK, UsersInv, CreateResources
  <2> QED
    BY <2>1, <2>2, MemoryStays DEF CreateResources
<1>2. CASE ~devicePool
  <2>1. PICK p \in Places :
          /\ driver[p] = None
          /\ driver' = [driver EXCEPT ![p] = d]
          /\ devicePool' = TRUE /\ ownedPtrs' = {p} /\ usedBlocks' = {}
    BY <1>2 DEF CreateResources, MakeDevicePool
  <2>2. ownedPtrs = {} /\ usedBlocks = {}
    BY <1>2 DEF IInv, PoolsInv
  <2>3. /\ driver'[p] # None
        /\ \A q \in Places : q # p => driver'[q] = driver[q]
    BY <2>1, NoneAssumption DEF IInv, TypeOK
  <2>4. TypeOK' /\ UsersInv'
    BY <2>1, NoneAssumption DEF IInv, TypeOK, UsersInv, CreateResources
  <2>5. PoolsInv' /\ FoundInv'
    BY <2>1, <2>2, <2>3 DEF IInv, PoolsInv, FoundInv, HasIt, CreateResources
  <2>6. Kept'
    <3> SUFFICES ASSUME ~warned PROVE ~terminated' /\ Sound' /\ Single' /\
                                      \A q \in ownedPtrs' : driver'[q] # None
      BY DEF Kept, CreateResources
    <3>1. Sound /\ Single /\ ~terminated
      BY DEF IInv, Kept
    <3>2. \A o \in Objects, b \in Buffers : Filled(o, b) =>
            memory[o][b] \in Places /\ memory[o][b] # p
      BY <2>1, <3>1 DEF IInv, TypeOK, Sound, Filled
    <3> QED
      BY <2>1, <2>3, <3>1, <3>2 DEF Sound, Single, Filled, CreateResources
  <2> QED
    BY <2>4, <2>5, <2>6 DEF IInv
<1> QED
  BY <1>1, <1>2

LEMMA FreeResourcesKeeps ==
  ASSUME IInv, FreeResources, UNCHANGED <<memory, table>>, TypeOK', UsersInv'
  PROVE  IInv'
<1>1. \A p \in Places : /\ p \in ownedPtrs => driver'[p] = None
                        /\ p \notin ownedPtrs => driver'[p] = driver[p]
  BY DEF FreeResources
<1>2. PoolsInv' /\ FoundInv'
  BY <1>1 DEF IInv, FreeResources, PoolsInv, FoundInv, HasIt
<1>3. Kept'
  <2> SUFFICES ASSUME ~warned
               PROVE  ~terminated' /\ (usedBlocks = {} => Sound' /\ Single')
    BY DEF Kept, FreeResources
  <2>1. Sound /\ Single /\ \A p \in ownedPtrs : driver[p] # None
    BY DEF IInv, Kept
  <2>2. usedBlocks = {} => \A o \in Objects, b \in Buffers : Filled(o, b) =>
          memory[o][b] \in Places /\ memory[o][b] \notin ownedPtrs
    BY <2>1 DEF IInv, TypeOK, Sound, Filled
  <2> QED
    BY <1>1, <2>1, <2>2 DEF Sound, Single, Filled, FreeResources
<1> QED
  BY <1>2, <1>3 DEF IInv

LEMMA DestructionsKeep ==
  ASSUME IInv, Finalize \/ \E h \in Handles : DestroyResources(h)
  PROVE  IInv'
<1>1. CASE Finalize
  <2>1. TypeOK' /\ UsersInv'
    BY <1>1 DEF Finalize, FreeResources, IInv, TypeOK, UsersInv, userVars
  <2> QED
    BY <1>1, <2>1, FreeResourcesKeeps DEF Finalize
<1>2. ASSUME NEW h \in Handles, DestroyResources(h)
      PROVE  IInv'
  <2>1. TypeOK'
    BY <1>2 DEF DestroyResources, FreeResources, IInv, TypeOK
  <2>2. UsersInv'
    BY <1>2 DEF DestroyResources, IInv, TypeOK, UsersInv
  <2> QED
    BY <1>2, <2>1, <2>2, FreeResourcesKeeps DEF DestroyResources
<1> QED
  BY <1>1, <1>2

-----------------------------------------------------------------------------
\* Buffers are filled.

LEMMA TakesKeep ==
  ASSUME IInv, NEW o \in Objects, NEW b \in Buffers, NEW p \in Places,
         TakeFromPool(o, b, p) \/ TakeFromDriver(o, b, p)
  PROVE  IInv'
<1>1. /\ MayTake(o, b)
      /\ memory' = [memory EXCEPT ![o][b] = p]
      /\ UNCHANGED <<userVars, pinnedPool, devicePool, ownedPtrs, asyncFree,
                     warned, terminated>>
  BY DEF TakeFromPool, TakeFromDriver, poolsVars
<1>2. /\ memory' \in [Objects -> [Buffers -> Places \union {None}]]
      /\ memory'[o][b] = p
      /\ \A o1 \in Objects, b1 \in Buffers :
           o1 # o \/ b1 # b => memory'[o1][b1] = memory[o1][b1]
  BY <1>1, BufferSet DEF IInv
<1>3. memory[o][b] = None /\ p # None
  BY <1>1, NoneAssumption DEF MayTake
<1>4. UsersInv'
  BY <1>1 DEF IInv, UsersInv, userVars
<1>5. HasIt(p)' /\ \A q \in Places : HasIt(q) => HasIt(q)'
  BY <1>2, <1>3, NoneAssumption DEF HasIt
<1>6. device[rsc[o]] \in Devices
  <2>1. rsc[o] \in Handles
    BY <1>1 DEF MayTake, IInv, UsersInv, TypeOK
  <2> QED
    BY <2>1, NoneAssumption DEF IInv, UsersInv, TypeOK
<1>7. CASE TakeFromPool(o, b, p)
  <2>1. /\ p \in ownedPtrs \ usedBlocks
        /\ usedBlocks' = usedBlocks \union {p}
        /\ UNCHANGED <<driver, table>>
    BY <1>7 DEF TakeFromPool
  <2>2. TypeOK'
    BY <1>1, <1>2, <2>1 DEF IInv, TypeOK, userVars
  <2>3. PoolsInv' /\ FoundInv'
    BY <1>1, <1>5, <2>1 DEF IInv, TypeOK, PoolsInv, FoundInv
  <2>4. Kept'
    <3> SUFFICES ASSUME ~warned
                 PROVE  /\ ~terminated /\ Sound' /\ Single'
                        /\ \A q \in ownedPtrs : driver[q] # None
      BY <1>1, <2>1 DEF Kept
    <3>1. Sound /\ Single /\ ~terminated /\ \A q \in ownedPtrs : driver[q] # None
      BY DEF IInv, Kept
    <3>2. \A o1 \in Objects, b1 \in Buffers : Filled(o1, b1) => memory[o1][b1] # p
      BY <2>1, <3>1 DEF Sound
    <3>3. Sound'
      BY <1>1, <1>2, <2>1, <3>1 DEF Sound, Filled
    <3>4. Single'
      BY <1>2, <1>3, <3>1, <3>2 DEF Single, Filled
    <3> QED
      BY <3>1, <3>3, <3>4
  <2> QED
    BY <1>4, <2>2, <2>3, <2>4 DEF IInv
<1>8. CASE TakeFromDriver(o, b, p)
  <2>1. /\ driver[p] = None
        /\ driver' = [driver EXCEPT ![p] = device[rsc[o]]]
        /\ table' = table \union {p}
        /\ usedBlocks' = usedBlocks
    BY <1>8 DEF TakeFromDriver, poolsVars
  <2>2. /\ driver'[p] # None
        /\ \A q \in Places : q # p => driver'[q] = driver[q]
    BY <1>6, <2>1, NoneAssumption DEF IInv, TypeOK
  <2>3. TypeOK'
    BY <1>1, <1>2, <1>6, <2>1 DEF IInv, TypeOK, userVars
  <2>4. PoolsInv' /\ FoundInv'
    BY <1>1, <1>5, <2>1, <2>2 DEF IInv, TypeOK, PoolsInv, FoundInv
  <2>5. Kept'
    <3> SUFFICES ASSUME ~warned
                 PROVE  /\ ~terminated /\ Sound' /\ Single'
                        /\ \A q \in ownedPtrs : driver'[q] # None
      BY <1>1 DEF Kept
    <3>1. Sound /\ Single /\ ~terminated /\ \A q \in ownedPtrs : driver[q] # None
      BY DEF IInv, Kept
    <3>2. /\ \A o1 \in Objects, b1 \in Buffers : Filled(o1, b1) => memory[o1][b1] # p
          /\ p \notin ownedPtrs
      BY <2>1, <3>1 DEF Sound
    <3>3. \A q \in ownedPtrs : driver'[q] # None
      BY <2>2, <3>1, <3>2 DEF IInv, TypeOK
    <3>4. Sound'
      BY <1>1, <1>2, <2>1, <2>2, <3>1, <3>2 DEF Sound, Filled, IInv, TypeOK
    <3>5. Single'
      BY <1>2, <1>3, <3>1, <3>2 DEF Single, Filled
    <3> QED
      BY <3>1, <3>3, <3>4, <3>5
  <2> QED
    BY <1>4, <2>3, <2>4, <2>5 DEF IInv
<1> QED
  BY <1>7, <1>8

-----------------------------------------------------------------------------
\* Buffers are released.

LEMMA FreesKeep ==
  ASSUME IInv, NEW o \in Objects, NEW b \in Buffers,
         FreeToPool(o, b) \/ FreeLater(o, b) \/ FreeAtOnce(o, b)
  PROVE  IInv'
<1> DEFINE p == memory[o][b]
<1>1. /\ GiveUp(o, b)
      /\ UNCHANGED <<userVars, pinnedPool, devicePool, asyncFree, warned>>
  BY DEF FreeToPool, FreeLater, FreeAtOnce, poolsVars
<1>2. /\ memory' \in [Objects -> [Buffers -> Places \union {None}]]
      /\ memory'[o][b] = None
      /\ \A o1 \in Objects, b1 \in Buffers :
           o1 # o \/ b1 # b => memory'[o1][b1] = memory[o1][b1]
  BY <1>1, BufferSet DEF IInv, GiveUp
<1>3. p \in Places /\ p # None /\ Filled(o, b)
  BY <1>1 DEF GiveUp, IInv, TypeOK, Filled
<1>4. UsersInv'
  BY <1>1 DEF IInv, UsersInv, userVars
<1>5. \A q \in Places : HasIt(q) /\ q # p => HasIt(q)'
  BY <1>2 DEF HasIt
<1>6. \A o1 \in Objects, b1 \in Buffers : Filled(o1, b1)' =>
        /\ Filled(o1, b1) /\ memory'[o1][b1] = memory[o1][b1]
        /\ Single => memory[o1][b1] # p
  BY <1>2, <1>3 DEF Filled, Single
<1>7. Single => Single'
  BY <1>6 DEF Single, Filled
<1> HIDE DEF p
<1>8. CASE FreeToPool(o, b)
  <2>1. /\ p \in usedBlocks /\ usedBlocks' = usedBlocks \ {p}
        /\ UNCHANGED <<driver, ownedPtrs, table, terminated>>
    BY <1>8 DEF FreeToPool, p
  <2>2. TypeOK'
    BY <1>1, <1>2, <2>1 DEF IInv, TypeOK, userVars
  <2>3. PoolsInv' /\ FoundInv'
    BY <1>1, <1>5, <2>1 DEF IInv, TypeOK, PoolsInv, FoundInv
  <2>4. Kept'
    <3>1. ~warned => Sound'
      BY <1>6, <2>1 DEF IInv, Kept, Sound
    <3> QED
      BY <1>1, <1>7, <2>1, <3>1 DEF IInv, Kept
  <2> QED
    BY <1>4, <2>2, <2>3, <2>4 DEF IInv
<1>9. CASE FreeLater(o, b)
  <2>1. /\ p \notin usedBlocks
        /\ IF p \in table
           THEN /\ ownedPtrs' = ownedPtrs \union {p} /\ table' = table \ {p}
                /\ terminated' = terminated
           ELSE /\ terminated' = TRUE
                /\ ownedPtrs' = ownedPtrs /\ table' = table
        /\ driver' = driver /\ usedBlocks' = usedBlocks /\ devicePool
    BY <1>9 DEF FreeLater, p
  <2>2. TypeOK'
    BY <1>1, <1>2, <1>3, <2>1 DEF IInv, TypeOK, userVars
  <2>3. PoolsInv' /\ FoundInv'
    BY <1>1, <1>5, <2>1 DEF IInv, TypeOK, PoolsInv, FoundInv
  <2>4. Kept'
    <3> SUFFICES ASSUME ~warned
                 PROVE  /\ ~terminated' /\ Sound' /\ Single'
                        /\ \A q \in ownedPtrs' : driver[q] # None
      BY <1>1, <2>1 DEF Kept
    <3>1. Sound /\ Single /\ ~terminated /\ \A q \in ownedPtrs : driver[q] # None
      BY DEF IInv, Kept
    <3>2. p \notin ownedPtrs /\ driver[p] # None
      BY <1>3, <2>1, <3>1 DEF Sound, p
    <3>3. p \in table
      BY <1>3, <3>2 DEF IInv, FoundInv
    <3>4. Sound'
      BY <1>6, <2>1, <3>1, <3>3 DEF Sound
    <3> QED
      BY <1>7, <2>1, <3>1, <3>2, <3>3, <3>4
  <2> QED
    BY <1>4, <2>2, <2>3, <2>4 DEF IInv
<1>10. CASE FreeAtOnce(o, b)
  <2>1. /\ devicePool => p \notin usedBlocks
        /\ driver' = [driver EXCEPT ![p] = None]
        /\ terminated' = (driver[p] = None)
        /\ UNCHANGED <<ownedPtrs, usedBlocks, table>>
    BY <1>10 DEF FreeAtOnce, p, poolsVars
  <2>2. /\ driver'[p] = None
        /\ \A q \in Places : q # p => driver'[q] = driver[q]
    BY <1>3, <2>1 DEF IInv, TypeOK
  <2>3. TypeOK'
    BY <1>1, <1>2, <2>1 DEF IInv, TypeOK, userVars
  <2>4. p \notin usedBlocks
    BY <2>1 DEF IInv, PoolsInv
  <2>5. PoolsInv' /\ FoundInv'
    BY <1>1, <1>5, <2>1, <2>2, <2>4 DEF IInv, TypeOK, PoolsInv, FoundInv
  <2>6. Kept'
    <3> SUFFICES ASSUME ~warned
                 PROVE  /\ ~terminated' /\ Sound' /\ Single'
                        /\ \A q \in ownedPtrs : driver'[q] # None
      BY <1>1, <2>1 DEF Kept
    <3>1. Sound /\ Single /\ \A q \in ownedPtrs : driver[q] # None
      BY DEF IInv, Kept
    <3>2. p \notin ownedPtrs /\ driver[p] # None
      BY <1>3, <2>4, <3>1 DEF Sound, p
    <3>3. \A q \in ownedPtrs : driver'[q] # None
      BY <2>2, <3>1, <3>2 DEF IInv, TypeOK
    <3>4. Sound'
      <4> SUFFICES ASSUME NEW o1 \in Objects, NEW b1 \in Buffers,
                          Filled(o1, b1)'
                   PROVE  /\ driver'[memory'[o1][b1]] # None
                          /\ memory'[o1][b1] \in ownedPtrs' => memory'[o1][b1] \in usedBlocks'
        BY DEF Sound
      <4>1. /\ Filled(o1, b1) /\ memory'[o1][b1] = memory[o1][b1]
            /\ memory[o1][b1] # p
        BY <1>6, <3>1
      <4>2. memory[o1][b1] \in Places
        BY <4>1 DEF Filled, IInv, TypeOK
      <4> QED
        BY <2>1, <2>2, <3>1, <4>1, <4>2 DEF Sound
    <3> QED
      BY <1>7, <2>1, <3>1, <3>2, <3>3, <3>4
  <2> QED
    BY <1>4, <2>3, <2>5, <2>6 DEF IInv
<1> QED
  BY <1>8, <1>9, <1>10

-----------------------------------------------------------------------------

LEMMA StepKeepsIInv == IInv /\ [Next]_resourcesVars => IInv'
<1> SUFFICES ASSUME IInv, [Next]_resourcesVars PROVE IInv'
  OBVIOUS
<1>1. CASE UserStep
  BY <1>1, CallsKeep, CreateKeeps, DestructionsKeep DEF UserStep
<1>2. CASE BufferStep
  BY <1>2, TakesKeep, FreesKeep DEF BufferStep
<1>3. CASE UNCHANGED resourcesVars
  <2>1. TypeOK' /\ UsersInv'
    BY <1>3 DEF resourcesVars, userVars, poolsVars, IInv, TypeOK, UsersInv
  <2> QED
    BY <1>3, <2>1, MemoryStays DEF resourcesVars, poolsVars
<1> QED
  BY <1>1, <1>2, <1>3 DEF Next

\* The inductive invariant, and with it the types, of every behaviour.
THEOREM ResourcesInvariant == Spec => []IInv
  BY InitIInv, StepKeepsIInv, PTL DEF Spec

\* Whatever Resources and objects a process has, and on however many devices:
\* as long as no pool dies with blocks in use, every buffer keeps memory of its
\* own.
THEOREM MemoryIsKept == Spec => []MemoryKept
<1>1. IInv => MemoryKept
  <2> SUFFICES ASSUME IInv, ~warned
               PROVE  /\ ~terminated
                      /\ \A o \in Objects : \A p \in Held(o) :
                           driver[p] # None /\ (p \in ownedPtrs => p \in usedBlocks)
                      /\ \A o1, o2 \in Objects, b1, b2 \in Buffers :
                           memory[o1][b1] = memory[o2][b2] /\ memory[o1][b1] # None
                             => o1 = o2 /\ b1 = b2
    BY DEF MemoryKept
  <2>1. ~terminated /\ Sound /\ Single
    BY DEF IInv, Kept
  <2> QED
    BY <2>1, HeldIs DEF Sound, Single, Filled
<1> QED
  BY <1>1, ResourcesInvariant, PTL

\* And however the pools die: what the driver gave is in the pool or a buffer.
THEOREM NothingIsLost == Spec => []NothingLost
<1>1. IInv => NothingLost
  <2> SUFFICES ASSUME IInv PROVE NothingLost
    OBVIOUS
  <2>1. \A p \in Places : HasIt(p) => \E o \in Objects : p \in Held(o)
    BY HeldIs, NoneAssumption DEF HasIt
  <2> QED
    BY <2>1 DEF IInv, TypeOK, PoolsInv, FoundInv, NothingLost
<1> QED
  BY <1>1, ResourcesInvariant, PTL
=============================================================================
