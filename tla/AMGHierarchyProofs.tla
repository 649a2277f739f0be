------------------------- MODULE AMGHierarchyProofs -------------------------
(***************************************************************************)
(* Proofs about AMGHierarchy, for every set of addresses, every bound on   *)
(* levels and rows, every coarsening and every sequence of setups.         *)
(*                                                                         *)
(* The levels of each memory space are a chain (IsChain): no level has two *)
(* predecessors, none leads back to the root, and whatever holds of the    *)
(* root and is passed on along the links holds of every level (Rooted).    *)
(* Pointers between the spaces may be left behind by an earlier setup, and *)
(* an address may have been used again since; the invariant says nothing   *)
(* of them, and that the destructor is only run where it meets each level  *)
(* once (Deletable) is what keeps it off the rest of the chain.            *)
(***************************************************************************)
EXTENDS AMGHierarchy, FiniteSetTheorems, TLAPS

O == Other(Primary)
Places == Addresses \union {Null}

MatrixType == [rows : Nat, version : Nat]

LevelType ==
  [space : Spaces, index : Nat, A : MatrixType, isSetup : BOOLEAN,
   smoother : MatrixType, aggregates : Nat, vectors : Nat,
   next : [Spaces -> Places]]

Loop == {"top", "vertices", "matrices", "built"}
Stages == Loop \union {"new", "fine", "split", "copy", "ready", "failed",
                       "crashed", "destroyed"}

HeapOK(h) == DOMAIN h \subseteq Addresses /\ h \in [DOMAIN h -> LevelType]

TypeOK ==
  /\ cfg \in Configs
  /\ HeapOK(heap)
  /\ fine \in [Spaces -> Places]
  /\ coarse \in [Spaces -> [exists : BOOLEAN, A : MatrixType]]
  /\ reuse \in ReuseChoices \union {0}
  /\ numLevels \in Nat /\ setups \in Nat /\ damaged \in BOOLEAN
  /\ pc \in Stages /\ space \in Spaces
  /\ cur \in Places /\ prev \in Places /\ last \in Places

-----------------------------------------------------------------------------
(* Chains: n maps each element to the next one, or to Null. *)

\* Everything comes from r.
Rooted(n, r) ==
  \A R \in SUBSET DOMAIN n :
    /\ r \in DOMAIN n => r \in R
    /\ \A b \in R : n[b] \in DOMAIN n => n[b] \in R
    => R = DOMAIN n

IsChain(n, r) ==
  /\ DOMAIN n \subseteq Addresses
  /\ r # Null => r \in DOMAIN n
  /\ \A a \in DOMAIN n : n[a] # Null => n[a] \in DOMAIN n /\ n[a] # r
  /\ \A a, b \in DOMAIN n : n[a] = n[b] /\ n[a] # Null => a = b
  /\ Rooted(n, r)

-----------------------------------------------------------------------------
(* Heaps. *)

\* The levels of a memory space, and how they are linked there.
In(h, s) == {a \in DOMAIN h : h[a].space = s}
NextIn(h, s) == [a \in In(h, s) |-> h[a].next[s]]

\* The level after a, wherever it is, when there is at most one.
NextOf(h, a) == IF h[a].next[Primary] # Null THEN h[a].next[Primary] ELSE h[a].next[O]
Joined(h) == [a \in DOMAIN h |-> NextOf(h, a)]

\* Indices count the levels of a memory space.
Indexed(h, s) ==
  \A a \in In(h, s) : h[a].next[s] \in In(h, s) =>
    h[h[a].next[s]].index = h[a].index + 1

\* Levels of the other memory space link to none of the mode's.
Apart(h) == \A a \in In(h, O) : h[a].next[Primary] = Null

\* They, and the root there, link to none that came to their successor's place.
Typed(h, r) ==
  /\ r \in DOMAIN h => r \in In(h, O)
  /\ \A a \in In(h, O) : h[a].next[O] \in DOMAIN h => h[a].next[O] \in In(h, O)

\* Levels of the mode's space that link to none of the other.
Unlinked(h) == \A a \in In(h, Primary) : h[a].next[O] = Null

\* The coarsening of a level is good enough.
Shrinks(l) ==
  100 * l.aggregates <= Threshold * l.A.rows /\ l.aggregates < l.A.rows

\* What holds of a level of the mode's space, whatever was thrown before: one
\* that is followed by another had more than the k rows at which coarsening
\* ends, and its coarsening is the one that the next level was set up with.
LevelOK(h, a, k) ==
  LET b == h[a].next[Primary]
  IN  /\ h[a].aggregates <= h[a].A.rows
      /\ ~h[a].isSetup => b = Null /\ h[a].aggregates = 0
      /\ b # Null => h[a].A.rows > k /\ h[a].index + 1 < MaxLevels
      /\ b # Null /\ h[b].isSetup => Shrinks(h[a]) /\ h[b].A.rows = h[a].aggregates

LevelsOK(h, k) == \A a \in In(h, Primary) : LevelOK(h, a, k)

\* The chain of the mode's memory space, from r on.
Upper(h, r) ==
  /\ IsChain(NextIn(h, Primary), r)
  /\ r # Null /\ h[r].index = 0
  /\ Indexed(h, Primary)

\* What is left of the chain of the other, from r on.
Lower(h, r) ==
  Apart(h) /\ Typed(h, r) /\ Rooted(NextIn(h, O), r)

-----------------------------------------------------------------------------
(* The structure of the hierarchy. *)

Alive == pc \notin {"crashed", "destroyed"}
Running == Alive /\ ~Resting

\* No level is in the other memory space yet.
Single == Running /\ space = Primary /\ ~(pc = "copy" /\ prev # Null)

\* Where the levels of the other memory space begin: the copies of a running
\* setup hang on a local of it.
Base == IF pc = "copy" THEN first ELSE fine[O]

Structure ==
  /\ Alive => /\ Upper(heap, fine[Primary]) /\ LevelsOK(heap, MinFine)
              /\ Lower(heap, Base)
  /\ Running => IsChain(NextIn(heap, O), Base)
  /\ Single => Base = Null
  /\ pc = "destroyed" => DOMAIN heap = {}

-----------------------------------------------------------------------------
(* Where the setup is. *)

Next1 == heap[cur].next[space]

\* The level the loop works on, and the next one while it is made.
Working ==
  /\ pc = "fine" => space = Primary /\ numLevels = 1
  /\ pc \in Loop =>
       /\ cur \in In(heap, space)
       /\ heap[cur].index + 1 = numLevels /\ heap[cur].isSetup
       /\ space = O => Hybrid
       /\ pc \in {"vertices", "matrices"} =>
            /\ Next1 \in In(heap, space) /\ heap[Next1].index = numLevels
            /\ numLevels < MaxLevels /\ heap[cur].A.rows > MinRows
            /\ space = O => heap[Next1].next[O] = Null
       /\ pc = "vertices" => ~heap[Next1].isSetup
       /\ pc = "built" \/ (pc = "top" /\ space = O) => Next1 = Null

\* In the mode's space prev is the level before, or the coarsest itself.
Behind ==
  pc \in Loop /\ space = Primary =>
    \/ prev = Null /\ cur = fine[Primary]
    \/ prev \in In(heap, Primary) /\ heap[prev].next[Primary] = cur
    \/ pc = "built" /\ prev = cur

\* The copying of host levels.
Copying ==
  /\ pc \in {"split", "copy"} => space = Primary /\ ~Hybrid /\ cfg.hostRows > 0
  /\ pc = "copy" =>
       /\ cur \in In(heap, Primary) \union {Null}
       /\ last \in In(heap, Primary) \union {Null}
       /\ prev # Null => prev \in In(heap, O) /\ heap[prev].next[O] = Null
       /\ first \in Places /\ (first = Null <=> prev = Null) /\ fine[O] = Null

Counted ==
  /\ numLevels <= 1 \/ numLevels <= MaxLevels
  /\ Running => setups > 0

\* Hierarchies that never left the memory space of the mode.
InPlace ==
  /\ Alive /\ ~Hybrid /\ (cfg.hostRows = 0 \/ setups = 0 \/ (setups = 1 /\ pc # "ready")) =>
       Unlinked(heap)
  /\ Plain /\ Alive /\ fine[O] # Null =>
       fine[O] \in DOMAIN heap /\ heap[fine[O]].next = NoNext
  /\ Plain => pc # "crashed"

HierarchyInv ==
  TypeOK /\ Structure /\ Working /\ Behind /\ Copying /\ Counted /\ InPlace

-----------------------------------------------------------------------------
(* What the setup has done. *)

\* This setup is done with a level that another one follows.
Settled(h, a) ==
  /\ h[a].A.version = setups /\ h[a].smoother = h[a].A
  /\ h[a].vectors = h[a].aggregates
  /\ h[a].next[Primary] # Null /\ h[h[a].next[Primary]].isSetup

SettledAbove == \A a \in In(heap, Primary) : heap[a].index + 1 < numLevels => Settled(heap, a)

\* The coarsest level has what solves it.
Solved(h, a) ==
  /\ h[a].A.version = setups
  /\ LET c == coarse[h[a].space] IN IF c.exists THEN c.A = h[a].A ELSE h[a].smoother = h[a].A

\* The loop, up to the level it works on.
Progress ==
  pc \in Loop /\ space = Primary =>
    /\ SettledAbove /\ heap[cur].A.version = setups
    /\ pc = "built" /\ ~coarse[Primary].exists => heap[cur].smoother = heap[cur].A

\* The chain of the mode's space is complete.
Complete ==
  /\ SettledAbove
  /\ \E e \in In(heap, Primary) :
       heap[e].next[Primary] = Null /\ heap[e].index + 1 = numLevels /\ Solved(heap, e)

\* Host levels are copies of the levels that they will replace.
Copied(l, m) ==
  /\ l.A = m.A /\ l.index = m.index
  /\ l.aggregates = m.aggregates /\ l.vectors = m.vectors

Copies ==
  /\ Complete
  /\ Indexed(heap, O)
  /\ \A a \in In(heap, O) :
       /\ heap[a].smoother = heap[a].A
       /\ \E d \in In(heap, Primary) : Copied(heap[a], heap[d])
       /\ heap[a].next[O] = Null => a = prev
  /\ prev = Null => cur # Null
  /\ prev = Null /\ last # Null => heap[last].next[Primary] = cur
  /\ prev # Null /\ last # Null =>
       heap[last].next[Primary] # Null /\ heap[first].index = heap[last].index + 1
  /\ prev # Null /\ cur # Null => heap[cur].index = heap[prev].index + 1
  /\ prev # Null /\ cur = Null => heap[prev].index + 1 = numLevels

\* What a solve walks along.
Solid ==
  /\ IsChain(Joined(heap), fine[Primary])
  /\ \E e \in DOMAIN heap : NextOf(heap, e) = Null
  /\ \A a \in DOMAIN heap :
       /\ heap[a].next[Primary] = Null \/ heap[a].next[O] = Null
       /\ LET b == NextOf(heap, a)
          IN  IF b = Null
                THEN heap[a].index + 1 = numLevels /\ Solved(heap, a)
                ELSE /\ heap[a].A.version = setups /\ heap[a].smoother = heap[a].A
                     /\ heap[b].index = heap[a].index + 1
                     /\ heap[b].A.rows = heap[a].aggregates
                     /\ heap[a].vectors = heap[a].aggregates
                     /\ heap[a].aggregates < heap[a].A.rows

SetupInv ==
  /\ ~cfg.coarse => \A s \in Spaces : ~coarse[s].exists
  /\ Progress
  /\ pc = "split" => Complete
  /\ pc = "copy" /\ ~cfg.coarse /\ setups = 1 => Copies
  /\ pc = "ready" /\ ~Hybrid /\ (cfg.hostRows > 0 => ~cfg.coarse /\ setups = 1) => Solid

-----------------------------------------------------------------------------
(* Facts about chains. *)

\* The chain r, n after the elements of D went, with c the last that is left.
CutAt(n, D, c) == [a \in DOMAIN n \ D |-> IF a = c THEN Null ELSE n[a]]

\* n with a at the end, after c.
Extended(n, c, a) ==
  [b \in DOMAIN n \union {a} |-> IF b = a THEN Null ELSE IF b = c THEN a ELSE n[b]]

LEMMA NullIsNoPlace == Null \notin Addresses
  BY HierarchyAssumption

\* Going along n from b one meets c.
Leads(n, b, c) ==
  \A R \in SUBSET DOMAIN n :
    b \in R /\ (\A d \in R : n[d] \in DOMAIN n => n[d] \in R) => c \in R

\* When a part D of a chain goes that is closed under the links, and begins
\* right after c, then all that is left leads to c.
LEMMA LeadsToCut ==
  ASSUME NEW n, NEW r, IsChain(n, r), NEW D, D \subseteq DOMAIN n,
         NEW c \in DOMAIN n \ D, n[c] \in D,
         \A b \in D : n[b] \in DOMAIN n => n[b] \in D
  PROVE  /\ r \notin D
         /\ \A b \in DOMAIN n \ D : b # c => n[b] \in DOMAIN n \ D
<1>1. r \notin D
  <2>1. SUFFICES ASSUME r \in D PROVE FALSE
    OBVIOUS
  <2>2. D = DOMAIN n
    BY <2>1 DEF IsChain, Rooted
  <2>3. QED BY <2>2
<1> DEFINE R == {b \in DOMAIN n \ D : Leads(n, b, c)} \union D
<1>2. r \in DOMAIN n => r \in R
  <2>1. SUFFICES ASSUME r \in DOMAIN n PROVE Leads(n, r, c)
    BY <1>1
  <2>2. QED BY <2>1 DEF IsChain, Rooted, Leads
<1>3. \A b \in DOMAIN n \ D : Leads(n, b, c) /\ b # c => n[b] \in DOMAIN n \ D /\ Leads(n, n[b], c)
  <2>1. SUFFICES ASSUME NEW b \in DOMAIN n \ D, Leads(n, b, c), b # c
                 PROVE  n[b] \in DOMAIN n \ D /\ Leads(n, n[b], c)
    OBVIOUS
  <2>2. n[b] \in DOMAIN n
    <3>1. SUFFICES ASSUME n[b] \notin DOMAIN n PROVE FALSE
      OBVIOUS
    <3>2. c \in {b}
      BY <3>1, <2>1 DEF Leads
    <3>3. QED BY <3>2, <2>1
  <2>3. Leads(n, n[b], c)
    <3>1. SUFFICES ASSUME NEW R1 \in SUBSET DOMAIN n, n[b] \in R1,
                          \A d \in R1 : n[d] \in DOMAIN n => n[d] \in R1
                   PROVE  c \in R1
      BY DEF Leads
    <3>2. c \in R1 \union {b}
      <4> DEFINE R2 == R1 \union {b}
      <4>1. R2 \in SUBSET DOMAIN n /\ b \in R2 /\ \A d \in R2 : n[d] \in DOMAIN n => n[d] \in R2
        BY <3>1
      <4> HIDE DEF R2
      <4>2. c \in R2
        BY <4>1, <2>1 DEF Leads
      <4>3. QED BY <4>2 DEF R2
    <3>3. QED BY <3>2, <2>1
  <2>4. n[b] \notin D
    BY <2>3 DEF Leads
  <2>5. QED BY <2>2, <2>3, <2>4
<1>4. \A b \in R : n[b] \in DOMAIN n => n[b] \in R
  <2>1. SUFFICES ASSUME NEW b \in R, n[b] \in DOMAIN n PROVE n[b] \in R
    OBVIOUS
  <2>2. CASE b \in D
    BY <2>1, <2>2
  <2>3. CASE b = c
    BY <2>3
  <2>4. CASE b \notin D /\ b # c
    BY <2>4, <2>1, <1>3
  <2>5. QED BY <2>2, <2>3, <2>4
<1>5. R = DOMAIN n
  <2>1. R \in SUBSET DOMAIN n
    OBVIOUS
  <2> HIDE DEF R
  <2>2. QED BY <2>1, <1>2, <1>4 DEF IsChain, Rooted
<1>6. QED BY <1>1, <1>3, <1>5

\* What is left is a chain from the same root, and only c is at its end.
LEMMA CutChain ==
  ASSUME NEW n, NEW r, IsChain(n, r), NEW D, D \subseteq DOMAIN n,
         NEW c \in DOMAIN n \ D, n[c] \in D,
         \A b \in D : n[b] \in DOMAIN n => n[b] \in D
  PROVE  IsChain(CutAt(n, D, c), r)
<1> DEFINE m == CutAt(n, D, c)
<1>1. DOMAIN m = DOMAIN n \ D /\ \A b \in DOMAIN n \ D : m[b] = IF b = c THEN Null ELSE n[b]
  BY DEF CutAt
<1>2. /\ r \notin D
      /\ \A b \in DOMAIN n \ D : b # c => n[b] \in DOMAIN n \ D
  BY LeadsToCut
<1>3. DOMAIN m \subseteq Addresses /\ (r # Null => r \in DOMAIN m)
  BY <1>1, <1>2 DEF IsChain
<1>4. \A a \in DOMAIN m : m[a] # Null => m[a] \in DOMAIN m /\ m[a] # r
  BY <1>1, <1>2 DEF IsChain
<1>5. \A a, b \in DOMAIN m : m[a] = m[b] /\ m[a] # Null => a = b
  BY <1>1 DEF IsChain
<1>6. Rooted(m, r)
  <2>1. SUFFICES ASSUME NEW R \in SUBSET DOMAIN m, r \in DOMAIN m => r \in R,
                        \A b \in R : m[b] \in DOMAIN m => m[b] \in R
                 PROVE  R = DOMAIN m
    BY DEF Rooted
  <2> DEFINE R2 == R \union D
  <2>2. R2 \in SUBSET DOMAIN n /\ (r \in DOMAIN n => r \in R2)
    BY <2>1, <1>1, <1>2
  <2>3. \A b \in R2 : n[b] \in DOMAIN n => n[b] \in R2
    BY <2>1, <1>1
  <2>4. R2 = DOMAIN n
    <3> HIDE DEF R2
    <3>1. QED BY <2>2, <2>3 DEF IsChain, Rooted
  <2>5. QED BY <2>4, <2>1, <1>1
<1>7. QED
  <2> HIDE DEF m
  <2>1. IsChain(m, r) BY <1>3, <1>4, <1>5, <1>6 DEF IsChain
  <2>2. QED BY <2>1 DEF m

\* A chain grows at its end.
LEMMA ExtendedChain ==
  ASSUME NEW n, NEW r, IsChain(n, r), NEW c \in DOMAIN n, n[c] = Null,
         NEW a \in Addresses \ DOMAIN n
  PROVE  IsChain(Extended(n, c, a), r)
<1> DEFINE m == Extended(n, c, a)
<1>1. /\ DOMAIN m = DOMAIN n \union {a}
      /\ m[a] = Null /\ m[c] = a
      /\ \A b \in DOMAIN n : b # c => m[b] = n[b]
  BY DEF Extended
<1>2. a # Null /\ a # r
  BY NullIsNoPlace DEF IsChain
<1>3. DOMAIN m \subseteq Addresses /\ (r # Null => r \in DOMAIN m)
  BY <1>1 DEF IsChain
<1>4. \A b \in DOMAIN m : m[b] # Null => m[b] \in DOMAIN m /\ m[b] # r
  BY <1>1, <1>2 DEF IsChain
<1>5. \A b, d \in DOMAIN m : m[b] = m[d] /\ m[b] # Null => b = d
  BY <1>1 DEF IsChain
<1>6. Rooted(m, r)
  <2>1. SUFFICES ASSUME NEW R \in SUBSET DOMAIN m, r \in DOMAIN m => r \in R,
                        \A b \in R : m[b] \in DOMAIN m => m[b] \in R
                 PROVE  R = DOMAIN m
    BY DEF Rooted
  <2> DEFINE R2 == R \intersect DOMAIN n
  <2>2. R2 \in SUBSET DOMAIN n /\ (r \in DOMAIN n => r \in R2)
    BY <2>1, <1>1
  <2>3. \A b \in R2 : n[b] \in DOMAIN n => n[b] \in R2
    BY <2>1, <1>1, <1>2, NullIsNoPlace DEF IsChain
  <2>4. R2 = DOMAIN n
    <3> HIDE DEF R2
    <3>1. QED BY <2>2, <2>3 DEF IsChain, Rooted
  <2>5. c \in R
    BY <2>4
  <2>6. a \in R
    BY <2>5, <2>1, <1>1
  <2>7. QED BY <2>4, <2>6, <2>1, <1>1
<1>7. QED
  <2> HIDE DEF m
  <2>1. IsChain(m, r) BY <1>3, <1>4, <1>5, <1>6 DEF IsChain
  <2>2. QED BY <2>1 DEF m

\* What is rooted stays rooted when a part goes that is closed under the links.
LEMMA RestRooted ==
  ASSUME NEW n, NEW r, Rooted(n, r), NEW m, DOMAIN m \subseteq DOMAIN n,
         \A b \in DOMAIN m : m[b] = n[b],
         \A b \in DOMAIN n \ DOMAIN m : n[b] \in DOMAIN n => n[b] \in DOMAIN n \ DOMAIN m
  PROVE  Rooted(m, r)
<1>1. SUFFICES ASSUME NEW R \in SUBSET DOMAIN m, r \in DOMAIN m => r \in R,
                      \A b \in R : m[b] \in DOMAIN m => m[b] \in R
               PROVE  R = DOMAIN m
  BY DEF Rooted
<1> DEFINE R2 == R \union (DOMAIN n \ DOMAIN m)
<1>2. R2 \in SUBSET DOMAIN n /\ (r \in DOMAIN n => r \in R2)
  BY <1>1
<1>3. \A b \in R2 : n[b] \in DOMAIN n => n[b] \in R2
  BY <1>1
<1>4. R2 = DOMAIN n
  <2> HIDE DEF R2
  <2>1. QED BY <1>2, <1>3 DEF Rooted
<1>5. QED BY <1>4, <1>1

\* One element alone is a chain.
LEMMA ChainOfOne ==
  ASSUME NEW a \in Addresses, NEW n, DOMAIN n = {a}, n[a] = Null
  PROVE  IsChain(n, a)
<1>1. Rooted(n, a)
  BY DEF Rooted
<1>2. QED BY <1>1 DEF IsChain

\* Without a root there is nothing.
LEMMA EmptyChain ==
  ASSUME NEW n
  PROVE  /\ DOMAIN n = {} => IsChain(n, Null)
         /\ Rooted(n, Null) /\ DOMAIN n \subseteq Addresses => DOMAIN n = {}
<1>1. ASSUME DOMAIN n = {} PROVE IsChain(n, Null)
  BY <1>1 DEF IsChain, Rooted
<1>2. ASSUME Rooted(n, Null), DOMAIN n \subseteq Addresses PROVE DOMAIN n = {}
  <2>1. {} \in SUBSET DOMAIN n /\ Null \notin DOMAIN n
    BY <1>2, NullIsNoPlace
  <2>2. QED BY <2>1, <1>2 DEF Rooted
<1>3. QED BY <1>1, <1>2

\* Every element but the root has one before it.
LEMMA HasPredecessor ==
  ASSUME NEW n, NEW r, IsChain(n, r), NEW a \in DOMAIN n, a # r
  PROVE  \E b \in DOMAIN n : n[b] = a
<1>1. SUFFICES ASSUME \A b \in DOMAIN n : n[b] # a PROVE FALSE
  OBVIOUS
<1>2. DOMAIN n \ {a} = DOMAIN n
  <2> DEFINE R == DOMAIN n \ {a}
  <2>1. R \in SUBSET DOMAIN n /\ (r \in DOMAIN n => r \in R)
    OBVIOUS
  <2>2. \A b \in R : n[b] \in DOMAIN n => n[b] \in R
    BY <1>1
  <2> HIDE DEF R
  <2>3. R = DOMAIN n
    BY <2>1, <2>2 DEF IsChain, Rooted
  <2>4. QED BY <2>3 DEF R
<1>3. QED BY <1>2

\* ix counts along the chain.
Counts(n, ix) ==
  /\ \A a \in DOMAIN n : ix[a] \in Nat
  /\ \A a \in DOMAIN n : n[a] \in DOMAIN n => ix[n[a]] = ix[a] + 1

\* No two elements have the same count.
LEMMA CountsApart ==
  ASSUME NEW n, NEW r, IsChain(n, r), NEW ix, Counts(n, ix), r \in DOMAIN n, ix[r] = 0
  PROVE  \A a, b \in DOMAIN n : ix[a] = ix[b] => a = b
<1> DEFINE R == {a \in DOMAIN n : \A b \in DOMAIN n : ix[a] = ix[b] => a = b}
<1>1. \A b \in DOMAIN n : b # r => \E d \in DOMAIN n : n[d] = b /\ ix[b] = ix[d] + 1
  BY HasPredecessor DEF Counts
<1>2. r \in R
  <2>1. SUFFICES ASSUME NEW b \in DOMAIN n, ix[b] = 0, r # b PROVE FALSE
    OBVIOUS
  <2>2. PICK d \in DOMAIN n : ix[b] = ix[d] + 1
    BY <1>1, <2>1
  <2>3. ix[d] \in Nat
    BY DEF Counts
  <2>4. QED BY <2>1, <2>2, <2>3
<1>3. \A a \in R : n[a] \in DOMAIN n => n[a] \in R
  <2>1. SUFFICES ASSUME NEW a \in R, n[a] \in DOMAIN n,
                        NEW b \in DOMAIN n, ix[n[a]] = ix[b]
                 PROVE  n[a] = b
    OBVIOUS
  <2>2. ix[a] \in Nat /\ ix[n[a]] = ix[a] + 1
    BY <2>1 DEF Counts
  <2>3. ix[b] = ix[a] + 1 /\ b # r
    <3>1. ix[b] = ix[a] + 1
      BY <2>1, <2>2
    <3>2. ix[b] # 0
      BY <3>1, <2>2
    <3>3. QED BY <3>1, <3>2
  <2>4. PICK d \in DOMAIN n : n[d] = b /\ ix[b] = ix[d] + 1
    BY <1>1, <2>3
  <2>5. ix[d] \in Nat
    BY DEF Counts
  <2>6. ix[a] = ix[d]
    BY <2>2, <2>3, <2>4, <2>5
  <2>7. a = d
    BY <2>6, <2>1
  <2>8. QED BY <2>7, <2>4
<1>4. R = DOMAIN n
  <2>1. R \in SUBSET DOMAIN n
    OBVIOUS
  <2> HIDE DEF R
  <2>2. QED BY <2>1, <1>2, <1>3 DEF IsChain, Rooted
<1>5. QED BY <1>4

\* The end of a chain has the largest count, and every smaller one occurs.
LEMMA CountsToEnd ==
  ASSUME NEW n, NEW r, IsChain(n, r), NEW ix, Counts(n, ix), r \in DOMAIN n, ix[r] = 0,
         NEW e \in DOMAIN n, n[e] = Null
  PROVE  /\ \A a \in DOMAIN n : ix[a] <= ix[e]
         /\ \A a \in DOMAIN n : n[a] = Null => a = e
         /\ \A i \in 0..ix[e] : \E a \in DOMAIN n : ix[a] = i
<1>0. \A a, b \in DOMAIN n : ix[a] = ix[b] => a = b
  BY CountsApart
<1>1. \A a \in DOMAIN n : ix[a] <= ix[e]
  <2> DEFINE R == {a \in DOMAIN n : ix[a] <= ix[e]}
  <2>1. r \in R
    BY DEF Counts
  <2>2. \A a \in R : n[a] \in DOMAIN n => n[a] \in R
    <3>1. SUFFICES ASSUME NEW a \in R, n[a] \in DOMAIN n PROVE ix[n[a]] <= ix[e]
      OBVIOUS
    <3>2. a # e
      BY <3>1, NullIsNoPlace DEF IsChain
    <3>3. ix[a] # ix[e]
      BY <3>2, <1>0
    <3>4. ix[a] \in Nat /\ ix[e] \in Nat /\ ix[n[a]] = ix[a] + 1 /\ ix[a] <= ix[e]
      BY <3>1 DEF Counts
    <3>5. QED BY <3>3, <3>4
  <2>3. R = DOMAIN n
    <3>1. R \in SUBSET DOMAIN n
      OBVIOUS
    <3> HIDE DEF R
    <3>2. QED BY <3>1, <2>1, <2>2 DEF IsChain, Rooted
  <2>4. QED BY <2>3
<1>2. \A i \in 0..ix[e] : \E a \in DOMAIN n : ix[a] = i
  <2> DEFINE R == {a \in DOMAIN n : \A i \in 0..ix[a] : \E b \in DOMAIN n : ix[b] = i}
  <2>1. r \in R
    <3>1. SUFFICES ASSUME NEW i \in 0..ix[r] PROVE ix[r] = i
      OBVIOUS
    <3>2. QED OBVIOUS
  <2>2. \A a \in R : n[a] \in DOMAIN n => n[a] \in R
    <3>1. SUFFICES ASSUME NEW a \in R, n[a] \in DOMAIN n,
                          NEW i \in 0..ix[n[a]]
                   PROVE  \E b \in DOMAIN n : ix[b] = i
      OBVIOUS
    <3>2. ix[a] \in Nat /\ ix[n[a]] = ix[a] + 1
      BY <3>1 DEF Counts
    <3>3. i \in 0..ix[a] \/ i = ix[n[a]]
      BY <3>2
    <3>4. QED BY <3>1, <3>3
  <2>3. R = DOMAIN n
    <3>1. R \in SUBSET DOMAIN n
      OBVIOUS
    <3> HIDE DEF R
    <3>2. QED BY <3>1, <2>1, <2>2 DEF IsChain, Rooted
  <2>4. QED BY <2>3
<1>3. \A a \in DOMAIN n : n[a] = Null => a = e
  <2>1. SUFFICES ASSUME NEW a \in DOMAIN n, n[a] = Null, a # e PROVE FALSE
    OBVIOUS
  <2> DEFINE R == {b \in DOMAIN n : ix[b] <= ix[a]}
  <2>2. ix[a] \in Nat /\ ix[e] \in Nat /\ ix[a] <= ix[e] /\ ix[a] # ix[e]
    BY <2>1, <1>0, <1>1 DEF Counts
  <2>3. r \in R
    BY <2>2
  <2>4. \A b \in R : n[b] \in DOMAIN n => n[b] \in R
    <3>1. SUFFICES ASSUME NEW b \in R, n[b] \in DOMAIN n PROVE ix[n[b]] <= ix[a]
      OBVIOUS
    <3>2. b # a
      BY <3>1, <2>1, NullIsNoPlace DEF IsChain
    <3>3. ix[b] # ix[a]
      BY <3>2, <1>0
    <3>4. ix[b] \in Nat /\ ix[n[b]] = ix[b] + 1 /\ ix[b] <= ix[a]
      BY <3>1 DEF Counts
    <3>5. QED BY <3>3, <3>4, <2>2
  <2>5. R = DOMAIN n
    <3>1. R \in SUBSET DOMAIN n
      OBVIOUS
    <3> HIDE DEF R
    <3>2. QED BY <3>1, <2>3, <2>4 DEF IsChain, Rooted
  <2>6. ix[e] <= ix[a]
    BY <2>5
  <2>7. QED BY <2>6, <2>2
<1>4. QED BY <1>1, <1>2, <1>3

\* So a chain has as many elements as its end counts.
LEMMA ChainLength ==
  ASSUME NEW n, NEW r, IsChain(n, r), NEW ix, Counts(n, ix), r \in DOMAIN n, ix[r] = 0,
         NEW e \in DOMAIN n, n[e] = Null
  PROVE  Cardinality(DOMAIN n) = ix[e] + 1
<1>1. /\ \A a \in DOMAIN n : ix[a] <= ix[e]
      /\ \A i \in 0..ix[e] : \E a \in DOMAIN n : ix[a] = i
  BY CountsToEnd
<1>2. \A a, b \in DOMAIN n : ix[a] = ix[b] => a = b
  BY CountsApart
<1>3. \A a \in DOMAIN n : ix[a] \in Nat
  BY DEF Counts
<1> DEFINE g == [i \in 0..ix[e] |-> CHOOSE a \in DOMAIN n : ix[a] = i]
<1>4. \A i \in 0..ix[e] : g[i] \in DOMAIN n /\ ix[g[i]] = i
  BY <1>1
<1>5. g \in Bijection(0..ix[e], DOMAIN n)
  <2>1. g \in [0..ix[e] -> DOMAIN n]
    BY <1>4
  <2>2. \A i, j \in 0..ix[e] : g[i] = g[j] => i = j
    <3> HIDE DEF g
    <3>1. QED BY <1>4
  <2>3. \A a \in DOMAIN n : \E i \in 0..ix[e] : g[i] = a
    <3>1. SUFFICES ASSUME NEW a \in DOMAIN n PROVE ix[a] \in 0..ix[e] /\ g[ix[a]] = a
      OBVIOUS
    <3>2. ix[a] \in 0..ix[e]
      BY <1>1, <1>3
    <3> HIDE DEF g
    <3>3. g[ix[a]] = a
      BY <3>2, <1>2, <1>4
    <3>4. QED BY <3>2, <3>3
  <2> HIDE DEF g
  <2>4. QED BY <2>1, <2>2, <2>3 DEF Bijection, Injection, Surjection, IsInjective
<1>6. IsFiniteSet(0..ix[e]) /\ Cardinality(0..ix[e]) = ix[e] + 1
  <2>1. ix[e] \in Nat
    BY <1>3
  <2>2. QED BY <2>1, FS_Interval
<1>7. ExistsBijection(0..ix[e], DOMAIN n)
  BY <1>5 DEF ExistsBijection
<1>8. QED BY <1>6, <1>7, FS_Bijection

\* Two chains, the second hung to the end of the first, are one.
LEMMA JoinedChains ==
  ASSUME NEW n1, NEW r1, IsChain(n1, r1), NEW n2, NEW r2, IsChain(n2, r2),
         DOMAIN n1 \intersect DOMAIN n2 = {}, r1 # Null, r2 # Null,
         NEW e \in DOMAIN n1, n1[e] = Null, NEW m,
         DOMAIN m = DOMAIN n1 \union DOMAIN n2, m[e] = r2,
         \A a \in DOMAIN n1 : a # e => m[a] = n1[a],
         \A a \in DOMAIN n2 : m[a] = n2[a]
  PROVE  IsChain(m, r1)
<1>1. /\ DOMAIN m \subseteq Addresses /\ r1 \in DOMAIN m
      /\ r1 \in DOMAIN n1 /\ r2 \in DOMAIN n2 /\ Null \notin DOMAIN m
  BY NullIsNoPlace DEF IsChain
<1>2. \A a \in DOMAIN m : m[a] # Null => m[a] \in DOMAIN m /\ m[a] # r1
  <2>1. SUFFICES ASSUME NEW a \in DOMAIN m, m[a] # Null
                 PROVE  m[a] \in DOMAIN m /\ m[a] # r1
    OBVIOUS
  <2>2. CASE a = e
    BY <2>2, <1>1
  <2>3. CASE a \in DOMAIN n1 /\ a # e
    BY <2>1, <2>3 DEF IsChain
  <2>4. CASE a \in DOMAIN n2
    BY <2>1, <2>4, <1>1 DEF IsChain
  <2>5. QED BY <2>2, <2>3, <2>4
<1>3. \A a, b \in DOMAIN m : m[a] = m[b] /\ m[a] # Null => a = b
  <2>1. \A a \in DOMAIN n1 : a # e /\ m[a] # Null => m[a] \in DOMAIN n1
    BY DEF IsChain
  <2>2. \A a \in DOMAIN n2 : m[a] # Null => m[a] \in DOMAIN n2 /\ m[a] # r2
    BY DEF IsChain
  <2>3. SUFFICES ASSUME NEW a \in DOMAIN m, NEW b \in DOMAIN m, m[a] = m[b], m[a] # Null
                 PROVE  a = b
    OBVIOUS
  <2>4. CASE a \in DOMAIN n1 /\ b \in DOMAIN n1 /\ a # e /\ b # e
    BY <2>3, <2>4 DEF IsChain
  <2>5. CASE a \in DOMAIN n2 /\ b \in DOMAIN n2
    BY <2>3, <2>5 DEF IsChain
  <2>6. QED BY <2>1, <2>2, <2>3, <2>4, <2>5, <1>1
<1>4. Rooted(m, r1)
  <2>1. SUFFICES ASSUME NEW R \in SUBSET DOMAIN m, r1 \in DOMAIN m => r1 \in R,
                        \A b \in R : m[b] \in DOMAIN m => m[b] \in R
                 PROVE  R = DOMAIN m
    BY DEF Rooted
  <2> DEFINE R1 == R \intersect DOMAIN n1
             R2 == R \intersect DOMAIN n2
  <2>2. R1 = DOMAIN n1
    <3>1. R1 \in SUBSET DOMAIN n1 /\ r1 \in R1
      BY <2>1, <1>1
    <3>2. \A b \in R1 : n1[b] \in DOMAIN n1 => n1[b] \in R1
      BY <2>1, <1>1
    <3> HIDE DEF R1
    <3>3. QED BY <3>1, <3>2 DEF IsChain, Rooted
  <2>3. r2 \in R
    BY <2>2, <2>1, <1>1
  <2>4. R2 = DOMAIN n2
    <3>1. R2 \in SUBSET DOMAIN n2 /\ r2 \in R2
      BY <2>3, <1>1
    <3>2. \A b \in R2 : n2[b] \in DOMAIN n2 => n2[b] \in R2
      BY <2>1, <1>1
    <3> HIDE DEF R2
    <3>3. QED BY <3>1, <3>2 DEF IsChain, Rooted
  <2>5. QED BY <2>1, <2>2, <2>4
<1>5. QED BY <1>1, <1>2, <1>3, <1>4 DEF IsChain

-----------------------------------------------------------------------------
(* Facts about heaps. *)

LEMMA TwoSpaces ==
  /\ Primary \in Spaces /\ O \in Spaces /\ O # Primary
  /\ \A s \in Spaces : s = Primary \/ s = O
  BY HierarchyAssumption DEF O, Other, Spaces

\* A level and what it consists of.
LEMMA LevelTypes ==
  ASSUME NEW h, HeapOK(h), NEW a \in DOMAIN h
  PROVE  /\ a \in Addresses /\ a # Null /\ h[a] \in LevelType
         /\ h[a].space \in Spaces /\ h[a].index \in Nat /\ h[a].isSetup \in BOOLEAN
         /\ h[a].A \in MatrixType /\ h[a].A.rows \in Nat /\ h[a].A.version \in Nat
         /\ h[a].aggregates \in Nat /\ h[a].vectors \in Nat
         /\ h[a].smoother \in MatrixType
         /\ h[a].next \in [Spaces -> Places]
         /\ \A s \in Spaces : h[a].next[s] \in Places
<1>1. a \in Addresses /\ a # Null
  BY NullIsNoPlace DEF HeapOK
<1>2. h[a] \in LevelType
  BY DEF HeapOK
<1>3. QED BY <1>1, <1>2 DEF LevelType, MatrixType

\* Pointers lead to addresses.
LEMMA LinksTyped ==
  ASSUME NEW h, HeapOK(h), NEW a, NEW S \in SUBSET Spaces
  PROVE  /\ Links(h, a, S) \subseteq Addresses
         /\ a \notin DOMAIN h => Links(h, a, S) = {}
         /\ a \in DOMAIN h =>
              \A x : x \in Links(h, a, S) <=> x # Null /\ \E s \in S : h[a].next[s] = x
<1>1. CASE a \notin DOMAIN h
  BY <1>1 DEF Links
<1>2. CASE a \in DOMAIN h
  <2>1. \A s \in S : h[a].next[s] \in Places
    BY <1>2, LevelTypes
  <2>2. QED BY <1>2, <2>1 DEF Links, Places
<1>3. QED BY <1>1, <1>2

\* What a level reaches is closed under the links, and the least such set.
LEMMA Reaching ==
  ASSUME NEW h, HeapOK(h), NEW x \in Places
  PROVE  /\ Reach(h, x) \subseteq Addresses
         /\ x # Null => x \in Reach(h, x)
         /\ \A b \in Reach(h, x) : Links(h, b, Spaces) \subseteq Reach(h, x)
         /\ x = Null => Reach(h, x) = {}
         /\ \A R \in SUBSET Addresses :
              (x \in R \/ x = Null) /\ Follows(h, Spaces, R) => Reach(h, x) \subseteq R
<1> DEFINE Closed == {R \in SUBSET Addresses : {x} \ {Null} \subseteq R /\ Follows(h, Spaces, R)}
<1>1. Reach(h, x) = {b \in Addresses : \A R \in Closed : b \in R}
  BY DEF Reach, Closure
<1>2. x # Null => x \in Reach(h, x)
  BY <1>1 DEF Places
<1>3. \A b \in Reach(h, x) : Links(h, b, Spaces) \subseteq Reach(h, x)
  <2>1. SUFFICES ASSUME NEW b \in Reach(h, x), NEW l \in Links(h, b, Spaces)
                 PROVE  l \in Reach(h, x)
    OBVIOUS
  <2>2. l \in Addresses
    BY LinksTyped
  <2>3. SUFFICES ASSUME NEW R \in Closed PROVE l \in R
    BY <2>2, <1>1
  <2>4. b \in R
    BY <1>1
  <2>5. QED BY <2>4 DEF Follows
<1>4. \A R \in SUBSET Addresses :
        (x \in R \/ x = Null) /\ Follows(h, Spaces, R) => Reach(h, x) \subseteq R
  BY <1>1
<1>5. x = Null => Reach(h, x) = {}
  <2>1. {} \in SUBSET Addresses /\ Follows(h, Spaces, {})
    BY DEF Follows
  <2>2. QED BY <2>1, <1>4
<1>6. QED BY <1>1, <1>2, <1>3, <1>4, <1>5

\* A level that links to x is not deleted with x.
LEMMA HolderStays ==
  ASSUME NEW h, HeapOK(h), NEW c \in DOMAIN h, NEW s \in Spaces,
         h[c].next[s] # Null, Deletable(h, h[c].next[s])
  PROVE  /\ c \notin Reach(h, h[c].next[s])
         /\ Reach(h, h[c].next[s]) \subseteq DOMAIN h
         /\ h[c].next[s] \in Reach(h, h[c].next[s])
         /\ h[c].next[s] \in DOMAIN h
<1>1. h[c].next[s] \in Places
  BY LevelTypes
<1>2. h[c].next[s] \in Links(h, c, Spaces)
  BY LinksTyped
<1>3. h[c].next[s] \in Reach(h, h[c].next[s])
  BY <1>1, Reaching
<1>4. /\ Reach(h, h[c].next[s]) \subseteq DOMAIN h
      /\ \A b \in Reach(h, h[c].next[s]) : h[c].next[s] \notin Links(h, b, Spaces)
  BY DEF Deletable
<1>5. QED BY <1>2, <1>3, <1>4

\* The heap after a deletion.
LEMMA DeletedHeap ==
  ASSUME NEW h, HeapOK(h), NEW x \in Places
  PROVE  /\ HeapOK(Deleted(h, x))
         /\ DOMAIN Deleted(h, x) = DOMAIN h \ Reach(h, x)
         /\ \A b \in DOMAIN h \ Reach(h, x) : Deleted(h, x)[b] = h[b]
         /\ x = Null => Deleted(h, x) = h
<1>1. /\ DOMAIN Deleted(h, x) = DOMAIN h \ Reach(h, x)
      /\ \A b \in DOMAIN h \ Reach(h, x) : Deleted(h, x)[b] = h[b]
  BY DEF Deleted, Without
<1>2. HeapOK(Deleted(h, x))
  BY DEF Deleted, Without, HeapOK
<1>3. x = Null => Deleted(h, x) = h
  <2>1. x = Null => Reach(h, x) = {}
    BY Reaching
  <2>2. QED BY <2>1 DEF Deleted, Without, HeapOK
<1>4. QED BY <1>1, <1>2, <1>3

LEMMA NextInDef ==
  ASSUME NEW h, NEW s
  PROVE  /\ DOMAIN NextIn(h, s) = In(h, s) /\ In(h, s) \subseteq DOMAIN h
         /\ \A a \in In(h, s) : NextIn(h, s)[a] = h[a].next[s] /\ h[a].space = s
  BY DEF NextIn, In

\* What a chain says of the levels in it.
LEMMA ChainLinks ==
  ASSUME NEW h, NEW s, NEW r, IsChain(NextIn(h, s), r)
  PROVE  /\ In(h, s) \subseteq DOMAIN h
         /\ r # Null => r \in In(h, s)
         /\ \A a \in In(h, s) : h[a].next[s] # Null => h[a].next[s] \in In(h, s) /\ h[a].next[s] # r
         /\ \A a, b \in In(h, s) : h[a].next[s] = h[b].next[s] /\ h[a].next[s] # Null => a = b
<1>1. /\ DOMAIN NextIn(h, s) = In(h, s) /\ In(h, s) \subseteq DOMAIN h
      /\ \A a \in In(h, s) : NextIn(h, s)[a] = h[a].next[s]
  BY NextInDef
<1>2. QED BY <1>1 DEF IsChain

\* Levels whose pointers into a memory space did not change have the same chain.
LEMMA SameNextIn ==
  ASSUME NEW h, NEW g, NEW s, DOMAIN g = DOMAIN h,
         \A a \in DOMAIN h : g[a].space = h[a].space,
         \A a \in In(h, s) : g[a].next[s] = h[a].next[s]
  PROVE  In(g, s) = In(h, s) /\ NextIn(g, s) = NextIn(h, s)
<1>1. In(g, s) = In(h, s)
  BY DEF In
<1>2. QED BY <1>1 DEF NextIn

\* A level, and all that follow it in its memory space, are reached together.
LEMMA ReachesOn ==
  ASSUME NEW h, HeapOK(h), NEW x \in Places, NEW s \in Spaces,
         NEW b \in Reach(h, x) \intersect DOMAIN h, h[b].next[s] # Null
  PROVE  h[b].next[s] \in Reach(h, x)
<1>1. h[b].next[s] \in Links(h, b, Spaces)
  BY LinksTyped
<1>2. QED BY <1>1, Reaching

\* The levels of a memory space are reached from its root.
LEMMA RootReaches ==
  ASSUME NEW h, HeapOK(h), NEW s \in Spaces, NEW r \in Places, Rooted(NextIn(h, s), r)
  PROVE  In(h, s) \subseteq Reach(h, r)
<1> DEFINE n == NextIn(h, s)
           R == In(h, s) \intersect Reach(h, r)
<1>1. DOMAIN n = In(h, s) /\ \A a \in In(h, s) : n[a] = h[a].next[s] /\ a \in DOMAIN h
  BY NextInDef
<1>2. r \in DOMAIN n => r \in R
  <2>1. r \in DOMAIN n => r # Null
    BY <1>1, NullIsNoPlace DEF HeapOK
  <2>2. QED BY <2>1, <1>1, Reaching
<1>3. \A b \in R : n[b] \in DOMAIN n => n[b] \in R
  <2>1. SUFFICES ASSUME NEW b \in R, n[b] \in DOMAIN n PROVE n[b] \in Reach(h, r)
    BY <1>1
  <2>2. h[b].next[s] # Null /\ b \in DOMAIN h
    BY <2>1, <1>1, NullIsNoPlace DEF HeapOK
  <2>3. h[b].next[s] \in Reach(h, r)
    BY <2>2, ReachesOn
  <2>4. QED BY <2>3, <1>1
<1>4. R = DOMAIN n
  <2>1. R \in SUBSET DOMAIN n
    BY <1>1
  <2> HIDE DEF R, n
  <2>2. QED BY <2>1, <1>2, <1>3 DEF Rooted, n
<1>5. QED BY <1>4, <1>1

\* g is h without what x, the next level of c in space s, reaches.
CutIn(h, g, s, c, x) ==
  /\ x = h[c].next[s] /\ Deletable(h, x)
  /\ DOMAIN g = DOMAIN h \ Reach(h, x)
  /\ \A b \in DOMAIN g : g[b].space = h[b].space
  /\ \A b \in DOMAIN g \ {c} : g[b].next[s] = h[b].next[s]
  /\ g[c].next[s] = Null

\* c is the last level that is left of its chain when what follows it goes.
LEMMA CutHeap ==
  ASSUME NEW h, HeapOK(h), NEW s \in Spaces, NEW r, IsChain(NextIn(h, s), r),
         NEW c \in In(h, s), NEW x, NEW g, CutIn(h, g, s, c, x)
  PROVE  /\ c \in In(g, s) /\ IsChain(NextIn(g, s), r)
         /\ \A b \in In(g, s) : b # c /\ h[b].next[s] # Null => h[b].next[s] \in In(g, s)
         /\ x # Null => \A b \in In(g, s) : b # c => h[b].next[s] # Null
<1> DEFINE n == NextIn(h, s)
           m == NextIn(g, s)
           D == Reach(h, x) \intersect In(h, s)
<1> /\ x = h[c].next[s] /\ Deletable(h, x)
    /\ DOMAIN g = DOMAIN h \ Reach(h, x)
    /\ \A b \in DOMAIN g : g[b].space = h[b].space
    /\ \A b \in DOMAIN g \ {c} : g[b].next[s] = h[b].next[s]
    /\ g[c].next[s] = Null
  BY DEF CutIn
<1>1. /\ DOMAIN n = In(h, s) /\ In(h, s) \subseteq DOMAIN h
      /\ \A b \in In(h, s) : n[b] = h[b].next[s]
  BY NextInDef
<1>2. /\ DOMAIN m = In(g, s) /\ In(g, s) \subseteq DOMAIN g
      /\ \A b \in In(g, s) : m[b] = g[b].next[s]
  BY NextInDef
<1>3. x \in Places /\ c \in DOMAIN h
  BY <1>1, LevelTypes
<1>4. In(g, s) = In(h, s) \ Reach(h, x)
  BY <1>1 DEF In
<1>5. CASE x = Null
  <2>1. Reach(h, x) = {}
    BY <1>5, <1>3, Reaching
  <2>2. In(g, s) = In(h, s)
    BY <2>1, <1>4
  <2>3. m = n
    <3>1. \A b \in In(h, s) : g[b].next[s] = h[b].next[s]
      BY <2>2, <1>2, <1>5
    <3>2. QED BY <2>2, <3>1 DEF NextIn
  <2>4. \A b \in In(h, s) : n[b] # Null => n[b] \in In(h, s)
    BY <1>1 DEF IsChain
  <2>5. QED BY <2>2, <2>3, <2>4, <1>1, <1>5
<1>6. CASE x # Null
  <2>1. c \notin Reach(h, x) /\ x \in Reach(h, x)
    BY <1>3, <1>6, HolderStays
  <2>2. n[c] = x /\ x \in In(h, s)
    BY <1>1, <1>6 DEF IsChain
  <2>3. D \subseteq DOMAIN n /\ c \in DOMAIN n \ D /\ n[c] \in D
    BY <2>1, <2>2, <1>1
  <2>4. \A b \in D : n[b] \in DOMAIN n => n[b] \in D
    <3>1. SUFFICES ASSUME NEW b \in D, n[b] \in DOMAIN n PROVE n[b] \in Reach(h, x)
      BY <1>1
    <3>2. h[b].next[s] # Null /\ b \in DOMAIN h /\ b \in Reach(h, x)
      BY <3>1, <1>1, NullIsNoPlace DEF HeapOK
    <3>3. h[b].next[s] \in Reach(h, x)
      BY <3>2, <1>3, ReachesOn
    <3>4. QED BY <3>3, <1>1
  <2>5. DOMAIN n \ D = In(g, s)
    BY <1>1, <1>4
  <2>6. \A b \in In(g, s) : b # c => n[b] \in In(g, s)
    <3> HIDE DEF n, D
    <3>1. \A b \in DOMAIN n \ D : b # c => n[b] \in DOMAIN n \ D
      BY <2>3, <2>4, LeadsToCut DEF n
    <3>2. QED BY <3>1, <2>5
  <2>7. m = CutAt(n, D, c)
    <3>1. \A b \in In(g, s) : g[b].next[s] = IF b = c THEN Null ELSE n[b]
      BY <1>1, <1>2, <1>4
    <3>2. QED BY <3>1, <2>5 DEF NextIn, CutAt
  <2>8. IsChain(m, r)
    <3> HIDE DEF n, D, m
    <3>1. IsChain(CutAt(n, D, c), r)
      BY <2>3, <2>4, CutChain DEF n
    <3>2. QED BY <3>1, <2>7
  <2>9. \A b \in In(g, s) : b # c => h[b].next[s] # Null
    BY <2>6, <1>1, <1>4, <1>2, NullIsNoPlace DEF HeapOK
  <2>10. QED BY <2>3, <2>5, <2>6, <2>8, <2>9, <1>1, <1>4
<1>7. QED BY <1>5, <1>6

\* Deleting what x reaches leaves the levels of a memory space rooted.
LEMMA RestHeap ==
  ASSUME NEW h, HeapOK(h), NEW s \in Spaces, NEW r, Rooted(NextIn(h, s), r),
         NEW x \in Places, NEW g, DOMAIN g = DOMAIN h \ Reach(h, x),
         \A b \in DOMAIN g : g[b].space = h[b].space,
         \A b \in In(g, s) : g[b].next[s] = h[b].next[s]
  PROVE  Rooted(NextIn(g, s), r) /\ In(g, s) = In(h, s) \ Reach(h, x)
<1> DEFINE n == NextIn(h, s)
           m == NextIn(g, s)
<1>1. /\ DOMAIN n = In(h, s) /\ In(h, s) \subseteq DOMAIN h
      /\ \A b \in In(h, s) : n[b] = h[b].next[s]
  BY NextInDef
<1>2. /\ DOMAIN m = In(g, s) /\ In(g, s) \subseteq DOMAIN g
      /\ \A b \in In(g, s) : m[b] = g[b].next[s]
  BY NextInDef
<1>3. In(g, s) = In(h, s) \ Reach(h, x)
  BY <1>1 DEF In
<1>4. \A b \in In(h, s) \ In(g, s) : n[b] \in In(h, s) => n[b] \in In(h, s) \ In(g, s)
  <2>1. SUFFICES ASSUME NEW b \in In(h, s) \ In(g, s), n[b] \in In(h, s)
                 PROVE  n[b] \in Reach(h, x)
    BY <1>3
  <2>2. h[b].next[s] # Null /\ b \in DOMAIN h /\ b \in Reach(h, x)
    BY <2>1, <1>1, <1>3, NullIsNoPlace DEF HeapOK
  <2>3. h[b].next[s] \in Reach(h, x)
    BY <2>2, ReachesOn
  <2>4. QED BY <2>3, <1>1
<1>5. \A b \in In(g, s) : m[b] = n[b]
  BY <1>1, <1>2, <1>3
<1>6. Rooted(m, r)
  <2> HIDE DEF n, m
  <2>1. Rooted(n, r)
    BY DEF n
  <2>2. QED BY <2>1, <1>1, <1>2, <1>3, <1>4, <1>5, RestRooted
<1>7. QED BY <1>6, <1>3

\* g is h with a new level a of space s after c.
Grown(h, g, s, c, a) ==
  /\ a \in Addresses \ DOMAIN h /\ DOMAIN g = DOMAIN h \union {a}
  /\ \A b \in DOMAIN h : g[b].space = h[b].space
  /\ \A b \in DOMAIN h \ {c} : g[b].next[s] = h[b].next[s]
  /\ g[c].next[s] = a /\ g[a].space = s /\ g[a].next[s] = Null

\* A level is put at the end of a chain.
LEMMA GrowHeap ==
  ASSUME NEW h, HeapOK(h), NEW s, NEW r, IsChain(NextIn(h, s), r),
         NEW c \in In(h, s), h[c].next[s] = Null, NEW a, NEW g, Grown(h, g, s, c, a)
  PROVE  IsChain(NextIn(g, s), r) /\ In(g, s) = In(h, s) \union {a}
<1> DEFINE n == NextIn(h, s)
           m == NextIn(g, s)
<1>1. /\ DOMAIN n = In(h, s) /\ In(h, s) \subseteq DOMAIN h
      /\ \A b \in In(h, s) : n[b] = h[b].next[s]
  BY NextInDef
<1>2. In(g, s) = In(h, s) \union {a} /\ a \in Addresses \ DOMAIN h
  BY DEF In, Grown
<1>3. m = Extended(n, c, a)
  <2>1. \A b \in In(g, s) :
          g[b].next[s] = IF b = a THEN Null ELSE IF b = c THEN a ELSE n[b]
    BY <1>1, <1>2 DEF Grown
  <2>2. QED BY <2>1, <1>1, <1>2 DEF NextIn, Extended
<1>4. IsChain(m, r)
  <2> HIDE DEF n, m
  <2>1. IsChain(n, r) /\ c \in DOMAIN n /\ n[c] = Null /\ a \in Addresses \ DOMAIN n
    BY <1>1, <1>2 DEF n
  <2>2. QED BY <2>1, <1>3, ExtendedChain
<1>5. QED BY <1>2, <1>4

\* A level is put where none was in its memory space.
LEMMA RootHeap ==
  ASSUME NEW h, NEW s \in Spaces, In(h, s) = {},
         NEW a \in Addresses \ DOMAIN h, NEW g, DOMAIN g = DOMAIN h \union {a},
         \A b \in DOMAIN h : g[b].space = h[b].space,
         g[a].space = s, g[a].next[s] = Null
  PROVE  IsChain(NextIn(g, s), a) /\ In(g, s) = {a}
<1>1. In(g, s) = {a}
  BY DEF In
<1>2. DOMAIN NextIn(g, s) = {a} /\ NextIn(g, s)[a] = Null
  BY <1>1 DEF NextIn
<1>3. QED BY <1>1, <1>2, ChainOfOne

\* Two heaps in which the chain of the mode's space is the same.
SameUpper(h, g) ==
  /\ In(g, Primary) = In(h, Primary)
  /\ \A b \in In(h, Primary) :
       /\ g[b].next[Primary] = h[b].next[Primary] /\ g[b].index = h[b].index
       /\ g[b].isSetup = h[b].isSetup /\ g[b].aggregates = h[b].aggregates
       /\ g[b].A.rows = h[b].A.rows

LEMMA UpperKept ==
  ASSUME NEW h, NEW g, NEW r, Upper(h, r), SameUpper(h, g)
  PROVE  Upper(g, r)
<1>1. NextIn(g, Primary) = NextIn(h, Primary)
  BY DEF SameUpper, NextIn
<1>2. IsChain(NextIn(g, Primary), r)
  BY <1>1 DEF Upper
<1>3. r \in In(h, Primary)
  BY NextInDef DEF Upper, IsChain
<1>4. QED BY <1>2, <1>3 DEF Upper, SameUpper, Indexed

LEMMA LevelsKept ==
  ASSUME NEW h, NEW g, NEW r, Upper(h, r), SameUpper(h, g), NEW k, LevelsOK(h, k)
  PROVE  LevelsOK(g, k)
<1>1. \A b \in In(h, Primary) : h[b].next[Primary] # Null => h[b].next[Primary] \in In(h, Primary)
  BY NextInDef DEF Upper, IsChain
<1>2. SUFFICES ASSUME NEW b \in In(h, Primary) PROVE LevelOK(g, b, k)
  BY DEF LevelsOK, SameUpper
<1>3. LevelOK(h, b, k)
  BY DEF LevelsOK
<1>4. QED BY <1>1, <1>3 DEF LevelOK, SameUpper, Shrinks

\* Without levels in the other space there is nothing to say of them.
LEMMA NoLower ==
  ASSUME NEW h, HeapOK(h), In(h, O) = {}
  PROVE  Lower(h, Null) /\ IsChain(NextIn(h, O), Null)
<1>1. DOMAIN NextIn(h, O) = {}
  BY NextInDef
<1>2. IsChain(NextIn(h, O), Null)
  BY <1>1, EmptyChain
<1>3. Null \notin DOMAIN h
  BY NullIsNoPlace DEF HeapOK
<1>4. QED BY <1>2, <1>3 DEF Lower, IsChain, Apart, Typed

\* And there are none without a root.
LEMMA NoRootNoLower ==
  ASSUME NEW h, HeapOK(h), Rooted(NextIn(h, O), Null)
  PROVE  In(h, O) = {}
<1>1. DOMAIN NextIn(h, O) = In(h, O) /\ In(h, O) \subseteq Addresses
  BY NextInDef DEF HeapOK
<1>2. QED BY <1>1, EmptyChain

LEMMA ChainIsLower ==
  ASSUME NEW h, HeapOK(h), NEW q, IsChain(NextIn(h, O), q), Apart(h)
  PROVE  Lower(h, q)
<1>1. q \in DOMAIN h => q \in In(h, O)
  BY NextInDef, NullIsNoPlace DEF IsChain, HeapOK
<1>2. \A a \in In(h, O) : h[a].next[O] \in DOMAIN h => h[a].next[O] \in In(h, O)
  BY NextInDef, NullIsNoPlace DEF IsChain, HeapOK
<1>3. QED BY <1>1, <1>2 DEF Lower, Typed, IsChain

\* The other chain does not change.
LEMMA LowerKept ==
  ASSUME NEW h, NEW g, NEW q, Lower(h, q), DOMAIN g = DOMAIN h,
         \A b \in DOMAIN h : g[b].space = h[b].space,
         \A b \in In(h, O) : g[b].next = h[b].next
  PROVE  Lower(g, q) /\ NextIn(g, O) = NextIn(h, O) /\ In(g, O) = In(h, O)
<1>1. In(g, O) = In(h, O) /\ NextIn(g, O) = NextIn(h, O)
  BY SameNextIn
<1>2. Apart(g) /\ Typed(g, q)
  BY <1>1 DEF Lower, Apart, Typed
<1>3. QED BY <1>1, <1>2 DEF Lower

\* The same for the mode's space, where c keeps the rest.
CutTo(h, g, c, x) ==
  /\ x = h[c].next[Primary] /\ Deletable(h, x)
  /\ DOMAIN g = DOMAIN h \ Reach(h, x)
  /\ \A b \in DOMAIN g \ {c} : g[b] = h[b]
  /\ g[c].next[Primary] = Null
  /\ g[c].space = h[c].space /\ g[c].index = h[c].index /\ g[c].A = h[c].A
  /\ g[c].isSetup = h[c].isSetup /\ g[c].aggregates = h[c].aggregates

\* A level of the mode's space becomes the last of its chain.
LEMMA CutUpper ==
  ASSUME NEW h, HeapOK(h), NEW r, Upper(h, r), NEW k, LevelsOK(h, k),
         NEW q, Lower(h, q),
         NEW c \in In(h, Primary), NEW x, NEW g, CutTo(h, g, c, x)
  PROVE  /\ c \in In(g, Primary) /\ Upper(g, r) /\ LevelsOK(g, k) /\ Lower(g, q)
         /\ In(g, Primary) \subseteq In(h, Primary)
         /\ In(g, O) = In(h, O) \ Reach(h, x)
         /\ \A b \in In(g, Primary) : b # c /\ h[b].next[Primary] # Null =>
              h[b].next[Primary] \in In(g, Primary)
         /\ x # Null => \A b \in In(g, Primary) : b # c => h[b].next[Primary] # Null
<1> /\ x = h[c].next[Primary] /\ Deletable(h, x)
    /\ DOMAIN g = DOMAIN h \ Reach(h, x)
    /\ \A b \in DOMAIN g \ {c} : g[b] = h[b]
    /\ g[c].next[Primary] = Null
    /\ g[c].space = h[c].space /\ g[c].index = h[c].index /\ g[c].A = h[c].A
    /\ g[c].isSetup = h[c].isSetup /\ g[c].aggregates = h[c].aggregates
  BY DEF CutTo
<1>1. IsChain(NextIn(h, Primary), r) /\ Primary \in Spaces /\ O \in Spaces /\ O # Primary
  BY TwoSpaces DEF Upper
<1>2. c \in DOMAIN h /\ x \in Places /\ h[c].space = Primary
  BY NextInDef, LevelTypes, TwoSpaces
<1>3. /\ \A b \in DOMAIN g : g[b].space = h[b].space
      /\ \A b \in DOMAIN g \ {c} : g[b].next[Primary] = h[b].next[Primary]
  OBVIOUS
<1>4. /\ c \in In(g, Primary) /\ IsChain(NextIn(g, Primary), r)
      /\ \A b \in In(g, Primary) : b # c /\ h[b].next[Primary] # Null =>
           h[b].next[Primary] \in In(g, Primary)
      /\ x # Null => \A b \in In(g, Primary) : b # c => h[b].next[Primary] # Null
  <2>1. CutIn(h, g, Primary, c, x)
    BY <1>3 DEF CutIn
  <2>2. QED BY <1>1, <2>1, CutHeap
<1>5. In(g, Primary) \subseteq In(h, Primary) /\ In(g, O) = In(h, O) \ Reach(h, x)
  BY <1>3 DEF In
<1>6. \A b \in In(g, O) : g[b] = h[b]
  BY <1>2, <1>1, <1>3 DEF In
<1>7. Lower(g, q)
  <2>1. Rooted(NextIn(g, O), q)
    <3>1. \A b \in In(g, O) : g[b].next[O] = h[b].next[O]
      BY <1>6
    <3>2. QED BY <3>1, <1>1, <1>2, <1>3, RestHeap DEF Lower
  <2>2. Apart(g)
    BY <1>5, <1>6 DEF Lower, Apart
  <2>3. Typed(g, q)
    <3>1. DOMAIN g \subseteq DOMAIN h /\ DOMAIN g \intersect In(h, O) = In(g, O)
      BY <1>3 DEF In
    <3>2. QED BY <3>1, <1>5, <1>6 DEF Lower, Typed
  <2>4. QED BY <2>1, <2>2, <2>3 DEF Lower
<1>8. \A b \in In(g, Primary) :
        /\ g[b].index = h[b].index /\ g[b].A = h[b].A /\ g[b].isSetup = h[b].isSetup
        /\ g[b].aggregates = h[b].aggregates
        /\ b # c => g[b].next[Primary] = h[b].next[Primary]
  BY NextInDef
<1>9. Upper(g, r)
  <2>1. r # Null /\ r \in In(g, Primary)
    BY <1>4, NextInDef DEF Upper, IsChain
  <2>2. Indexed(g, Primary)
    <3>1. SUFFICES ASSUME NEW b \in In(g, Primary), g[b].next[Primary] \in In(g, Primary)
                   PROVE  g[g[b].next[Primary]].index = g[b].index + 1
      BY DEF Indexed
    <3>2. b # c
      BY <3>1, <1>5, NullIsNoPlace DEF In, HeapOK
    <3>3. h[b].next[Primary] \in In(g, Primary) /\ g[b].next[Primary] = h[b].next[Primary]
      BY <3>1, <3>2, <1>8
    <3>4. h[h[b].next[Primary]].index = h[b].index + 1
      BY <3>3, <1>5 DEF Upper, Indexed
    <3>5. QED BY <3>3, <3>4, <1>8
  <2>3. g[r].index = 0
    BY <2>1, <1>8 DEF Upper
  <2>4. QED BY <2>1, <2>2, <2>3, <1>4 DEF Upper
<1>10. LevelsOK(g, k)
  <2>1. SUFFICES ASSUME NEW b \in In(g, Primary) PROVE LevelOK(g, b, k)
    BY DEF LevelsOK
  <2>2. LevelOK(h, b, k)
    BY <1>5 DEF LevelsOK
  <2>3. CASE b = c
    BY <2>2, <2>3, <1>8 DEF LevelOK
  <2>4. CASE b # c
    <3>1. g[b].next[Primary] = h[b].next[Primary]
      BY <2>4, <1>8
    <3>2. h[b].next[Primary] # Null => h[b].next[Primary] \in In(g, Primary)
      BY <2>4, <1>4
    <3>3. QED BY <3>1, <3>2, <2>2, <1>8 DEF LevelOK, Shrinks
  <2>5. QED BY <2>3, <2>4
<1>11. QED BY <1>4, <1>5, <1>7, <1>9, <1>10

\* g is h with a new level a after c.
GrownTo(h, g, c, a) ==
  /\ a \in Addresses \ DOMAIN h /\ DOMAIN g = DOMAIN h \union {a}
  /\ \A b \in DOMAIN h \ {c} : g[b] = h[b]
  /\ g[c].space = h[c].space /\ g[c].index = h[c].index /\ g[c].A = h[c].A
  /\ g[c].isSetup = h[c].isSetup /\ g[c].aggregates = h[c].aggregates
  /\ g[c].next[Primary] = a
  /\ g[a].space = Primary /\ g[a].index = h[c].index + 1 /\ g[a].A = NoMatrix
  /\ g[a].isSetup = FALSE /\ g[a].aggregates = 0 /\ g[a].next = NoNext

\* A level is put at the end of the chain of the mode's space.
LEMMA GrowUpper ==
  ASSUME NEW h, HeapOK(h), NEW r, Upper(h, r), NEW k, LevelsOK(h, k),
         NEW c \in In(h, Primary), h[c].next[Primary] = Null,
         h[c].isSetup, h[c].A.rows > k, h[c].index + 1 < MaxLevels,
         NEW a, NEW g, GrownTo(h, g, c, a)
  PROVE  Upper(g, r) /\ LevelsOK(g, k) /\ In(g, Primary) = In(h, Primary) \union {a}
<1> /\ a \in Addresses \ DOMAIN h /\ DOMAIN g = DOMAIN h \union {a}
    /\ \A b \in DOMAIN h \ {c} : g[b] = h[b]
    /\ g[c].space = h[c].space /\ g[c].index = h[c].index /\ g[c].A = h[c].A
    /\ g[c].isSetup = h[c].isSetup /\ g[c].aggregates = h[c].aggregates
    /\ g[c].next[Primary] = a
    /\ g[a].space = Primary /\ g[a].index = h[c].index + 1 /\ g[a].A = NoMatrix
    /\ g[a].aggregates = 0 /\ g[a].next = NoNext
  BY DEF GrownTo
<1>1. g[a].isSetup = FALSE
  BY DEF GrownTo
<1>2. g[a].next[Primary] = Null /\ Primary \in Spaces
  BY TwoSpaces DEF NoNext
<1>3. c \in DOMAIN h /\ h[c].space = Primary /\ c # a
  BY NextInDef
<1>4. IsChain(NextIn(g, Primary), r) /\ In(g, Primary) = In(h, Primary) \union {a}
  <2>1. Grown(h, g, Primary, c, a)
    BY <1>2 DEF Grown
  <2>2. IsChain(NextIn(h, Primary), r)
    BY DEF Upper
  <2>3. QED BY <2>1, <2>2, GrowHeap
<1>5. \A b \in In(h, Primary) :
        /\ g[b].index = h[b].index /\ g[b].A = h[b].A /\ g[b].isSetup = h[b].isSetup
        /\ g[b].aggregates = h[b].aggregates
        /\ b # c => g[b].next[Primary] = h[b].next[Primary]
        /\ h[b].next[Primary] # Null => h[b].next[Primary] \in In(h, Primary)
  <2>1. \A b \in In(h, Primary) : h[b].next[Primary] # Null => h[b].next[Primary] \in In(h, Primary)
    BY NextInDef DEF Upper, IsChain
  <2>2. \A b \in In(h, Primary) : b \in DOMAIN h /\ (b # c => g[b] = h[b])
    BY NextInDef
  <2>3. QED BY <2>1, <2>2
<1>6. a \notin In(h, Primary) /\ a # Null
  BY NextInDef, NullIsNoPlace
<1>7. Upper(g, r)
  <2>1. r # Null /\ r \in In(h, Primary)
    BY NextInDef DEF Upper, IsChain
  <2>2. Indexed(g, Primary)
    <3>1. SUFFICES ASSUME NEW b \in In(g, Primary), g[b].next[Primary] \in In(g, Primary)
                   PROVE  g[g[b].next[Primary]].index = g[b].index + 1
      BY DEF Indexed
    <3>2. CASE b = c
      BY <3>2, <1>5
    <3>3. CASE b = a
      BY <3>1, <3>3, <1>2, <1>4, <1>5, <1>6, NullIsNoPlace DEF In, HeapOK
    <3>4. CASE b \in In(h, Primary) /\ b # c
      <4>1. h[b].next[Primary] # Null
        BY <3>1, <3>4, <1>4, <1>5, <1>6, NullIsNoPlace DEF In, HeapOK
      <4>2. h[b].next[Primary] \in In(h, Primary) /\ g[b].next[Primary] = h[b].next[Primary]
        BY <4>1, <3>4, <1>5
      <4>3. h[h[b].next[Primary]].index = h[b].index + 1
        BY <4>2, <3>4 DEF Upper, Indexed
      <4>4. QED BY <4>2, <4>3, <3>4, <1>5
    <3>5. QED BY <3>2, <3>3, <3>4, <1>4
  <2>3. QED BY <2>1, <2>2, <1>4, <1>5 DEF Upper
<1>8. LevelsOK(g, k)
  <2>1. SUFFICES ASSUME NEW b \in In(g, Primary) PROVE LevelOK(g, b, k)
    BY DEF LevelsOK
  <2>2. CASE b = a
    <3>1. g[a].A.rows = 0
      BY DEF NoMatrix
    <3>2. LevelOK(g, a, k)
      <4>1. g[a].aggregates = 0 /\ g[a].next[Primary] = Null
        BY <1>1, <1>2
      <4>2. g[a].aggregates <= g[a].A.rows
        BY <4>1, <3>1
      <4>3. QED BY <4>1, <4>2 DEF LevelOK
    <3>3. QED BY <2>2, <3>2
  <2>3. CASE b = c
    <3>1. LevelOK(h, c, k)
      BY DEF LevelsOK
    <3>2. QED BY <3>1, <2>3, <1>1, <1>5 DEF LevelOK
  <2>4. CASE b \in In(h, Primary) /\ b # c
    <3>1. LevelOK(h, b, k)
      BY <2>4 DEF LevelsOK
    <3>2. QED BY <3>1, <2>4, <1>5 DEF LevelOK, Shrinks
  <2>5. QED BY <2>2, <2>3, <2>4, <1>4
<1>9. QED BY <1>4, <1>7, <1>8

-----------------------------------------------------------------------------
(* The first state. *)

LEMMA NewLevelType ==
  ASSUME NEW s \in Spaces
  PROVE  /\ NewLevel(s) \in LevelType
         /\ NewLevel(s).space = s /\ NewLevel(s).index = 0 /\ NewLevel(s).next = NoNext
         /\ NewLevel(s).isSetup = FALSE /\ NewLevel(s).aggregates = 0
         /\ NewLevel(s).A = NoMatrix /\ NewLevel(s).A.rows = 0
         /\ \A t \in Spaces : NoNext[t] = Null
  BY DEF NewLevel, LevelType, NoMatrix, MatrixType, NoNext, Places

\* What the configuration of a solver says.
LEMMA ConfigTyped ==
  ASSUME cfg \in Configs
  PROVE  /\ MinFine \in Nat /\ cfg.minCoarse \in Nat /\ cfg.hostRows \in Nat
         /\ cfg.luMax \in Nat /\ cfg.coarse \in BOOLEAN
         /\ cfg.hostRows > 0 => ~Hybrid
         /\ Plain \/ ~Plain
<1>1. cfg \in ConfigType
  BY HierarchyAssumption
<1>2. MinFine \in Nat /\ cfg.minCoarse \in Nat /\ cfg.hostRows \in Nat
      /\ cfg.luMax \in Nat /\ cfg.coarse \in BOOLEAN
  BY <1>1 DEF ConfigType, MinFine
<1>3. cfg.hostRows > 0 => ~Hybrid
  <2>1. cfg.hostRows > 0 => cfg.minFine <= cfg.minCoarse
    BY HostLevelsAssumption
  <2>2. QED BY <2>1, <1>1 DEF Hybrid, MinFine, ConfigType
<1>4. QED BY <1>2, <1>3

LEMMA InitInv == Init => HierarchyInv
<1>1. SUFFICES ASSUME Init PROVE HierarchyInv
  OBVIOUS
<1>2. PICK f \in [Spaces -> Addresses] :
        /\ f["host"] # f["device"]
        /\ heap = [a \in {f[s] : s \in Spaces} |-> NewLevel(CHOOSE s \in Spaces : f[s] = a)]
        /\ fine = f
  BY <1>1 DEF Init
<1>3. /\ Primary \in Spaces /\ O \in Spaces /\ O # Primary
      /\ \A s \in Spaces : s = Primary \/ s = O
  BY TwoSpaces
<1>4. \A s, t \in Spaces : f[s] = f[t] => s = t
  BY <1>2 DEF Spaces
<1>5. DOMAIN heap = {f[Primary], f[O]}
  BY <1>2, <1>3
<1>6. \A s \in Spaces : heap[f[s]] = NewLevel(s)
  <2>1. SUFFICES ASSUME NEW s \in Spaces PROVE heap[f[s]] = NewLevel(s)
    OBVIOUS
  <2>2. (CHOOSE t \in Spaces : f[t] = f[s]) = s
    BY <1>4
  <2>3. QED BY <2>2, <1>2
<1>7. \A s \in Spaces : /\ In(heap, s) = {f[s]} /\ heap[f[s]].next = NoNext
                        /\ heap[f[s]] \in LevelType /\ heap[f[s]].index = 0
                        /\ heap[f[s]].A.rows = 0 /\ heap[f[s]].aggregates = 0
                        /\ \A t \in Spaces : heap[f[s]].next[t] = Null
  <2>1. \A s \in Spaces : heap[f[s]].space = s
    BY <1>6, NewLevelType
  <2>2. \A s \in Spaces : In(heap, s) = {f[s]}
    BY <2>1, <1>3, <1>5 DEF In
  <2>3. QED BY <2>2, <1>6, NewLevelType
<1>8. HeapOK(heap)
  <2>1. \A a \in DOMAIN heap : heap[a] \in LevelType
    BY <1>3, <1>5, <1>7
  <2>2. DOMAIN heap \subseteq Addresses
    BY <1>3, <1>5
  <2>3. heap = [a \in DOMAIN heap |-> heap[a]]
    BY <1>2
  <2>4. QED BY <2>1, <2>2, <2>3 DEF HeapOK
<1>9. \A s \in Spaces : IsChain(NextIn(heap, s), f[s])
  <2>1. SUFFICES ASSUME NEW s \in Spaces PROVE IsChain(NextIn(heap, s), f[s])
    OBVIOUS
  <2>2. DOMAIN NextIn(heap, s) = {f[s]} /\ NextIn(heap, s)[f[s]] = Null
    BY <1>7 DEF NextIn
  <2>3. QED BY <2>2, ChainOfOne
<1>10. /\ pc = "new" /\ space = Primary /\ cur = Null /\ prev = Null /\ last = Null
       /\ cfg \in Configs /\ reuse = 0 /\ numLevels = 0 /\ setups = 0 /\ damaged = FALSE
       /\ coarse = [s \in Spaces |-> [exists |-> cfg.coarse, A |-> NoMatrix]]
  BY <1>1 DEF Init
<1>11. TypeOK
  <2>1. coarse \in [Spaces -> [exists : BOOLEAN, A : MatrixType]]
    BY <1>10, ConfigTyped DEF NoMatrix, MatrixType
  <2>2. QED BY <2>1, <1>2, <1>3, <1>8, <1>10 DEF TypeOK, Places, Stages
<1>12. Upper(heap, fine[Primary]) /\ LevelsOK(heap, MinFine)
  <2>1. \A a \in In(heap, Primary) : a = f[Primary]
    BY <1>3, <1>7
  <2>2. Indexed(heap, Primary)
    BY <2>1, <1>3, <1>7, NullIsNoPlace DEF Indexed
  <2>3. LevelsOK(heap, MinFine)
    BY <2>1, <1>3, <1>7 DEF LevelsOK, LevelOK
  <2>4. f[Primary] # Null
    BY <1>3, NullIsNoPlace
  <2>5. QED BY <2>2, <2>3, <2>4, <1>2, <1>3, <1>7, <1>9 DEF Upper
<1>13. Lower(heap, fine[O])
  <2>1. Apart(heap)
    BY <1>3, <1>7 DEF Apart
  <2>2. QED BY <2>1, <1>2, <1>3, <1>8, <1>9, ChainIsLower
<1>14. Structure
  BY <1>10, <1>12, <1>13 DEF Structure, Base, Alive, Running, Single, Resting
<1>15. Working /\ Behind /\ Copying /\ Counted
  BY <1>10 DEF Working, Behind, Copying, Counted, Loop, Running, Resting
<1>16. InPlace
  <2>1. Unlinked(heap)
    BY <1>3, <1>7 DEF Unlinked
  <2>2. QED BY <2>1, <1>2, <1>3, <1>5, <1>7, <1>10 DEF InPlace
<1>17. QED BY <1>11, <1>14, <1>15, <1>16 DEF HierarchyInv

-----------------------------------------------------------------------------
(* What may be deleted. *)

LEMMA NullDeletable ==
  ASSUME NEW h, HeapOK(h)
  PROVE  Deletable(h, Null) /\ Reach(h, Null) = {}
<1>1. Reach(h, Null) = {}
  BY Reaching DEF Places
<1>2. QED BY <1>1 DEF Deletable

\* A level without links is deleted alone.
LEMMA SingleDeletable ==
  ASSUME NEW h, HeapOK(h), NEW x \in DOMAIN h, \A s \in Spaces : h[x].next[s] = Null
  PROVE  Deletable(h, x) /\ Reach(h, x) = {x}
<1>1. x \in Addresses /\ x # Null /\ x \in Places
  BY LevelTypes DEF Places
<1>2. Links(h, x, Spaces) = {}
  BY LinksTyped
<1>3. Reach(h, x) = {x}
  <2>1. {x} \in SUBSET Addresses /\ Follows(h, Spaces, {x})
    BY <1>1, <1>2 DEF Follows
  <2>2. Reach(h, x) \subseteq {x}
    BY <1>1, <2>1, Reaching
  <2>3. x \in Reach(h, x)
    BY <1>1, Reaching
  <2>4. QED BY <2>2, <2>3
<1>4. QED BY <1>2, <1>3 DEF Deletable

\* In the chain of the mode's space, if nothing leads out of it, every level
\* may be deleted, with those after it.
LEMMA ChainDeletable ==
  ASSUME NEW h, HeapOK(h), NEW r, Upper(h, r), Unlinked(h), NEW x \in In(h, Primary)
  PROVE  /\ Deletable(h, x)
         /\ Reach(h, x) \subseteq In(h, Primary)
         /\ \A b \in Reach(h, x) : h[b].index >= h[x].index
<1> DEFINE W == {b \in In(h, Primary) : h[b].index >= h[x].index}
           L(b) == Links(h, b, Spaces)
<1>1. /\ In(h, Primary) \subseteq DOMAIN h /\ DOMAIN h \subseteq Addresses
      /\ \A b \in In(h, Primary) : h[b].index \in Nat
  BY NextInDef, LevelTypes DEF HeapOK
<1>2. \A b \in In(h, Primary) : \A y \in L(b) :
        /\ y = h[b].next[Primary] /\ y \in In(h, Primary)
        /\ h[y].index = h[b].index + 1
  <2>1. SUFFICES ASSUME NEW b \in In(h, Primary), NEW y \in L(b)
                 PROVE  /\ y = h[b].next[Primary] /\ y \in In(h, Primary)
                        /\ h[y].index = h[b].index + 1
    OBVIOUS
  <2>2. y # Null /\ \E s \in Spaces : h[b].next[s] = y
    BY <1>1, LinksTyped
  <2>3. h[b].next[O] = Null
    BY DEF Unlinked
  <2>4. y = h[b].next[Primary]
    BY <2>2, <2>3, TwoSpaces
  <2>5. y \in In(h, Primary)
    BY <2>2, <2>4, NextInDef DEF Upper, IsChain
  <2>6. QED BY <2>4, <2>5 DEF Upper, Indexed
<1>3. Follows(h, Spaces, W)
  <2>1. SUFFICES ASSUME NEW b \in W, NEW y \in L(b) PROVE y \in W
    BY DEF Follows
  <2>2. y \in In(h, Primary) /\ h[y].index = h[b].index + 1 /\ h[b].index >= h[x].index
    BY <1>2
  <2>3. h[y].index >= h[x].index
    BY <2>2, <1>1
  <2>4. QED BY <2>2, <2>3
<1>4. Reach(h, x) \subseteq W
  <2>1. W \in SUBSET Addresses /\ x \in W /\ x \in Places
    BY <1>1 DEF Places
  <2> HIDE DEF W
  <2>2. QED BY <2>1, <1>3, Reaching
<1>5. \A b \in Reach(h, x) : x \notin L(b)
  <2>1. SUFFICES ASSUME NEW b \in Reach(h, x), x \in L(b) PROVE FALSE
    OBVIOUS
  <2>2. b \in In(h, Primary) /\ h[b].index >= h[x].index
    BY <1>4
  <2>3. h[x].index = h[b].index + 1
    BY <2>1, <2>2, <1>2
  <2>4. QED BY <2>2, <2>3, <1>1
<1>6. \A b, c \in Reach(h, x) : b # c => L(b) \intersect L(c) = {}
  <2>1. SUFFICES ASSUME NEW b \in Reach(h, x), NEW c \in Reach(h, x), b # c,
                        NEW y \in L(b), y \in L(c)
                 PROVE  FALSE
    OBVIOUS
  <2>2. b \in In(h, Primary) /\ c \in In(h, Primary)
    BY <1>4
  <2>3. y = h[b].next[Primary] /\ y = h[c].next[Primary] /\ y # Null
    BY <2>1, <2>2, <1>1, <1>2, NullIsNoPlace
  <2>4. b = c
    BY <2>2, <2>3, ChainLinks DEF Upper
  <2>5. QED BY <2>1, <2>4
<1>7. Deletable(h, x)
  <2>1. Reach(h, x) \subseteq DOMAIN h
    BY <1>1, <1>4
  <2>2. QED BY <2>1, <1>5, <1>6 DEF Deletable
<1>8. QED BY <1>4, <1>7

\* The root of the other space reaches the levels of that space, if nothing
\* deleted is met.
LEMMA LowerReach ==
  ASSUME NEW h, HeapOK(h), NEW q \in Places, Lower(h, q), Reach(h, q) \subseteq DOMAIN h
  PROVE  Reach(h, q) = In(h, O)
<1> DEFINE W == In(h, O) \union (Addresses \ DOMAIN h)
<1>1. In(h, O) \subseteq DOMAIN h /\ DOMAIN h \subseteq Addresses
  BY NextInDef DEF HeapOK
<1>2. Follows(h, Spaces, W)
  <2>1. SUFFICES ASSUME NEW b \in W, NEW y \in Links(h, b, Spaces) PROVE y \in W
    BY DEF Follows
  <2>2. y \in Addresses /\ b \in DOMAIN h
    BY LinksTyped
  <2>3. b \in In(h, O)
    BY <2>2
  <2>4. y # Null /\ \E s \in Spaces : h[b].next[s] = y
    BY <2>2, LinksTyped
  <2>5. y = h[b].next[O]
    BY <2>3, <2>4, TwoSpaces DEF Lower, Apart
  <2>6. QED BY <2>2, <2>3, <2>5 DEF Lower, Typed
<1>3. q \in W \/ q = Null
  BY DEF Lower, Typed, Places
<1>4. Reach(h, q) \subseteq W
  <2>1. W \in SUBSET Addresses
    BY <1>1
  <2> HIDE DEF W
  <2>2. QED BY <2>1, <1>2, <1>3, Reaching
<1>5. In(h, O) \subseteq Reach(h, q)
  BY RootReaches, TwoSpaces DEF Lower
<1>6. QED BY <1>4, <1>5

-----------------------------------------------------------------------------
(* Steps. *)

LEMMA CrashStep ==
  ASSUME HierarchyInv, TypeOK', Counted', pc' = "crashed", ~Plain, cfg' = cfg
  PROVE  HierarchyInv'
<1>1. Structure'
  BY DEF Structure, Alive, Running, Single
<1>2. Working' /\ Behind' /\ Copying'
  BY DEF Working, Behind, Copying, Loop
<1>3. InPlace'
  BY DEF InPlace, Plain, Hybrid, MinFine, Alive
<1>4. QED BY <1>1, <1>2, <1>3 DEF HierarchyInv

\* What the invariant says of the heap while the solver lives.
LEMMA AliveFacts ==
  ASSUME HierarchyInv
  PROVE  /\ TypeOK /\ HeapOK(heap) /\ DOMAIN heap \subseteq Addresses
         /\ fine[Primary] \in Places /\ fine[O] \in Places
         /\ Alive => /\ Upper(heap, fine[Primary]) /\ LevelsOK(heap, MinFine)
                     /\ Lower(heap, Base)
                     /\ fine[Primary] \in In(heap, Primary)
         /\ Running => IsChain(NextIn(heap, O), Base)
         /\ pc # "copy" => Base = fine[O]
         /\ Single => Base = Null /\ fine[O] = Null /\ In(heap, O) = {} /\ In(heap, Primary) = DOMAIN heap
<1>1. /\ TypeOK /\ HeapOK(heap) /\ DOMAIN heap \subseteq Addresses
      /\ fine[Primary] \in Places /\ fine[O] \in Places
  BY TwoSpaces DEF HierarchyInv, TypeOK, HeapOK
<1>2. Alive => /\ Upper(heap, fine[Primary]) /\ LevelsOK(heap, MinFine)
               /\ Lower(heap, Base)
  BY DEF HierarchyInv, Structure
<1>3. Alive => fine[Primary] \in In(heap, Primary)
  BY <1>2, NextInDef DEF Upper, IsChain
<1>4. /\ Running => IsChain(NextIn(heap, O), Base)
      /\ pc # "copy" => Base = fine[O]
  BY DEF HierarchyInv, Structure, Base
<1>5. Single => Base = Null /\ fine[O] = Null /\ In(heap, O) = {}
  <2>1. Single => Base = Null /\ fine[O] = Null /\ Alive
    BY DEF HierarchyInv, Structure, Copying, Base, Single, Running
  <2>2. QED BY <2>1, <1>1, <1>2, NoRootNoLower DEF Lower
<1>6. Single => In(heap, Primary) = DOMAIN heap
  <2>1. \A a \in DOMAIN heap : heap[a].space \in Spaces
    BY <1>1, LevelTypes
  <2>2. QED BY <2>1, <1>5, TwoSpaces DEF In
<1>7. QED BY <1>1, <1>2, <1>3, <1>4, <1>5, <1>6

\* The parts of Structure, for a step after which the solver lives.
LEMMA StructureStep ==
  ASSUME NEW k, k = MinFine, cfg' = cfg, pc' # "copy",
         Upper(heap', fine'[Primary]), LevelsOK(heap', k), Lower(heap', fine'[O]),
         Running' => IsChain(NextIn(heap', O), fine'[O]),
         Single' => fine'[O] = Null, pc' # "destroyed"
  PROVE  Structure'
<1>1. MinFine' = k
  BY DEF MinFine
<1>2. QED BY <1>1 DEF Structure, Base

LEMMA CopyingStep ==
  ASSUME NEW k, k = MinFine, cfg' = cfg, pc' = "copy",
         Upper(heap', fine'[Primary]), LevelsOK(heap', k), Lower(heap', first'),
         IsChain(NextIn(heap', O), first'), Single' => first' = Null
  PROVE  Structure'
<1>1. MinFine' = k
  BY DEF MinFine
<1>2. QED BY <1>1 DEF Structure, Base

LEMMA ConfigKept ==
  ASSUME cfg' = cfg
  PROVE  MinFine' = MinFine /\ Hybrid' = Hybrid /\ Plain' = Plain
  BY DEF MinFine, Hybrid, Plain

LEMMA BeginSetupInv ==
  ASSUME HierarchyInv, NEW r \in ReuseChoices, BeginSetup(r)
  PROVE  HierarchyInv'
<1> DEFINE q == fine[O]
<1>1. /\ TypeOK /\ HeapOK(heap) /\ DOMAIN heap \subseteq Addresses /\ q \in Places
      /\ Alive /\ Upper(heap, fine[Primary]) /\ LevelsOK(heap, MinFine) /\ Lower(heap, q)
      /\ fine[Primary] \in In(heap, Primary)
  BY AliveFacts DEF BeginSetup, Resting, Alive
<1>2. /\ reuse' = r /\ numLevels' = 1 /\ setups' = setups + 1
      /\ cfg' = cfg /\ damaged' = damaged
  BY DEF BeginSetup
<1>3. Counted'
  <2>1. setups \in Nat
    BY <1>1 DEF TypeOK
  <2>2. QED BY <1>2, <2>1 DEF Counted
<1>4. CASE ~Deletable(heap, q)
  <2>1. /\ pc' = "crashed" /\ heap' = heap /\ fine' = fine /\ coarse' = coarse
        /\ space' = space /\ cur' = cur /\ prev' = prev /\ last' = last
    BY <1>4 DEF BeginSetup, Crash, Goto, O
  <2>2. TypeOK'
    BY <1>1, <1>2, <2>1 DEF TypeOK, Stages
  <2>3. ~Plain
    <3>1. SUFFICES ASSUME Plain PROVE Deletable(heap, q)
      BY <1>4
    <3>2. q # Null => q \in DOMAIN heap /\ heap[q].next = NoNext
      BY <1>1, <3>1 DEF HierarchyInv, InPlace
    <3>3. q # Null => \A s \in Spaces : heap[q].next[s] = Null
      BY <3>2 DEF NoNext
    <3>4. QED BY <1>1, <3>2, <3>3, NullDeletable, SingleDeletable
  <2>4. QED BY <1>2, <1>3, <2>1, <2>2, <2>3, CrashStep
<1>5. CASE Deletable(heap, q)
  <2>1. /\ heap' = Deleted(heap, q) /\ fine' = [fine EXCEPT ![O] = Null]
        /\ pc' = "fine" /\ space' = Primary
        /\ coarse' = coarse /\ cur' = cur /\ prev' = prev /\ last' = last
    BY <1>5 DEF BeginSetup, Goto, O
  <2>2. Reach(heap, q) = In(heap, O)
    BY <1>1, <1>5, LowerReach DEF Deletable
  <2>3. /\ HeapOK(heap') /\ DOMAIN heap' = DOMAIN heap \ In(heap, O)
        /\ \A b \in DOMAIN heap \ In(heap, O) : heap'[b] = heap[b]
    BY <1>1, <2>1, <2>2, DeletedHeap
  <2>4. In(heap, Primary) \subseteq DOMAIN heap \ In(heap, O)
    BY TwoSpaces DEF In
  <2>5. In(heap', O) = {} /\ In(heap', Primary) = In(heap, Primary)
    BY <2>3, <2>4 DEF In
  <2>6. fine'[Primary] = fine[Primary] /\ fine'[O] = Null
    BY <1>1, <2>1, TwoSpaces DEF TypeOK
  <2>7. SameUpper(heap, heap')
    BY <2>3, <2>4, <2>5 DEF SameUpper
  <2>8. Upper(heap', fine'[Primary]) /\ LevelsOK(heap', MinFine)
    BY <1>1, <2>6, <2>7, UpperKept, LevelsKept
  <2>9. Lower(heap', fine'[O]) /\ IsChain(NextIn(heap', O), fine'[O])
    BY <2>3, <2>5, <2>6, NoLower
  <2>10. TypeOK'
    <3>1. fine' \in [Spaces -> Places]
      BY <1>1, <2>1 DEF TypeOK, Places
    <3>2. setups' \in Nat /\ Primary \in Spaces
      BY <1>1, <1>2, TwoSpaces DEF TypeOK
    <3>3. QED BY <1>1, <1>2, <2>1, <2>3, <3>1, <3>2 DEF TypeOK, Stages
  <2>11. Structure'
    BY <1>2, <2>1, <2>6, <2>8, <2>9, StructureStep
  <2>12. Working' /\ Behind' /\ Copying'
    BY <1>2, <2>1 DEF Working, Behind, Copying, Loop
  <2>13. InPlace'
    <3>1. ASSUME ~Hybrid, cfg.hostRows = 0 \/ setups = 0
          PROVE  Unlinked(heap')
      <4>1. Unlinked(heap)
        BY <1>1, <3>1 DEF HierarchyInv, InPlace
      <4>2. QED BY <4>1, <2>3, <2>4, <2>5 DEF Unlinked
    <3>2. setups' = 0 \/ setups' = 1 => setups = 0
      BY <1>1, <1>2 DEF TypeOK
    <3>3. cfg'.hostRows = cfg.hostRows /\ Hybrid' = Hybrid
      BY <1>2, ConfigKept
    <3>4. QED BY <2>1, <2>6, <3>1, <3>2, <3>3 DEF InPlace
  <2>14. QED BY <1>3, <2>10, <2>11, <2>12, <2>13 DEF HierarchyInv
<1>6. QED BY <1>4, <1>5

\* Single, from where the setup is.
LEMMA SingleFacts ==
  ASSUME HierarchyInv,
         \/ pc = "fine"
         \/ pc \in Loop /\ space = Primary
         \/ pc = "split"
         \/ pc = "copy" /\ prev = Null
  PROVE  /\ Alive /\ Running /\ Single
         /\ fine[O] = Null /\ In(heap, O) = {} /\ In(heap, Primary) = DOMAIN heap
<1>1. space = Primary
  BY DEF HierarchyInv, Working, Copying
<1>2. Alive /\ Running
  BY DEF Alive, Running, Resting, Loop
<1>3. Single
  BY <1>1, <1>2 DEF Single, Loop
<1>4. QED BY <1>2, <1>3, AliveFacts

\* One level alone is the hierarchy.
LEMMA UpperOfOne ==
  ASSUME NEW h, NEW b \in Addresses, DOMAIN h = {b}, h[b].space = Primary,
         h[b].next = NoNext, h[b].index = 0, NEW k, h[b].aggregates = 0,
         h[b].A.rows \in Nat
  PROVE  /\ Upper(h, b) /\ LevelsOK(h, k) /\ In(h, O) = {} /\ In(h, Primary) = {b}
         /\ Unlinked(h)
<1>1. In(h, Primary) = {b} /\ In(h, O) = {}
  BY TwoSpaces DEF In
<1>2. h[b].next[Primary] = Null /\ h[b].next[O] = Null
  BY TwoSpaces DEF NoNext
<1>3. DOMAIN NextIn(h, Primary) = {b} /\ NextIn(h, Primary)[b] = Null
  BY <1>1, <1>2 DEF NextIn
<1>4. IsChain(NextIn(h, Primary), b)
  BY <1>3, ChainOfOne
<1>5. Indexed(h, Primary) /\ b # Null
  BY <1>1, <1>2, NullIsNoPlace DEF Indexed
<1>6. LevelsOK(h, k)
  BY <1>1, <1>2 DEF LevelsOK, LevelOK
<1>7. Unlinked(h)
  BY <1>1, <1>2 DEF Unlinked
<1>8. QED BY <1>1, <1>4, <1>5, <1>6, <1>7 DEF Upper

\* What SetFineMatrix makes of a level.
FineLevel(old, n) == [old EXCEPT !.A = [rows |-> n, version |-> setups],
                                 !.index = 0, !.isSetup = TRUE]

LEMMA FineLevelType ==
  ASSUME NEW old \in LevelType, NEW n \in Nat, setups \in Nat
  PROVE  LET l == FineLevel(old, n)
         IN  /\ l \in LevelType /\ l.space = old.space /\ l.index = 0 /\ l.isSetup = TRUE
             /\ l.A = [rows |-> n, version |-> setups] /\ l.A.rows = n
             /\ l.smoother = old.smoother /\ l.aggregates = old.aggregates
             /\ l.vectors = old.vectors /\ l.next = old.next
  BY DEF FineLevel, LevelType, MatrixType

\* A single level is there after a setup that reuses nothing began.
LEMMA RebuildFine ==
  ASSUME HierarchyInv, NEW n \in FineRows, pc = "fine", cfg' = cfg,
         fine[Primary] \in Places, Deletable(heap, fine[Primary]),
         NEW b \in Unused(Deleted(heap, fine[Primary])),
         heap' = With(Deleted(heap, fine[Primary]), b, FineLevel(NewLevel(Primary), n)),
         fine' = [fine EXCEPT ![Primary] = b]
  PROVE  /\ HeapOK(heap') /\ fine' \in [Spaces -> Places]
         /\ fine'[Primary] = b /\ fine'[O] = Null
         /\ Upper(heap', b) /\ LevelsOK(heap', MinFine) /\ Unlinked(heap')
         /\ In(heap', O) = {} /\ In(heap', Primary) = {b} /\ DOMAIN heap' = {b}
         /\ heap'[b] = FineLevel(NewLevel(Primary), n)
<1> DEFINE a == fine[Primary]
           h == Deleted(heap, a)
           l == FineLevel(NewLevel(Primary), n)
<1>0. Alive /\ Running /\ Single
  BY SingleFacts
<1>1. /\ TypeOK /\ HeapOK(heap) /\ Upper(heap, a) /\ In(heap, Primary) = DOMAIN heap
      /\ fine[O] = Null
  BY <1>0, AliveFacts
<1>2. DOMAIN h = {}
  <2>1. In(heap, Primary) \subseteq Reach(heap, a)
    BY <1>1, RootReaches, TwoSpaces DEF Upper, IsChain
  <2>2. QED BY <2>1, <1>1, DeletedHeap
<1>3. n \in Nat /\ setups \in Nat
  BY <1>1, HierarchyAssumption DEF TypeOK
<1>4. /\ l \in LevelType /\ l.space = Primary /\ l.index = 0 /\ l.isSetup = TRUE
      /\ l.A.rows = n /\ l.aggregates = 0 /\ l.next = NoNext
  <2>1. /\ NewLevel(Primary) \in LevelType /\ NewLevel(Primary).space = Primary
        /\ NewLevel(Primary).next = NoNext /\ NewLevel(Primary).aggregates = 0
    BY NewLevelType, TwoSpaces
  <2>2. QED BY <2>1, <1>3, FineLevelType
<1>5. b \in Addresses
  BY DEF Unused
<1> HIDE DEF h, l
<1>6. /\ DOMAIN heap' = {b} /\ heap'[b] = l
      /\ heap' = [x \in {b} |-> l]
  BY <1>2 DEF With, h, l
<1>7. HeapOK(heap')
  BY <1>4, <1>5, <1>6 DEF HeapOK
<1>8. /\ Upper(heap', b) /\ LevelsOK(heap', MinFine) /\ In(heap', O) = {}
      /\ In(heap', Primary) = {b} /\ Unlinked(heap')
  BY <1>3, <1>4, <1>5, <1>6, UpperOfOne
<1>9. /\ fine' \in [Spaces -> Places] /\ fine'[Primary] = b /\ fine'[O] = Null
  BY <1>1, <1>5, TwoSpaces DEF TypeOK, Places
<1>10. QED BY <1>6, <1>7, <1>8, <1>9 DEF l

\* Or the old ones are.
LEMMA KeepFine ==
  ASSUME HierarchyInv, NEW n \in FineRows, pc = "fine", cfg' = cfg,
         heap[fine[Primary]].isSetup => n = heap[fine[Primary]].A.rows,
         heap' = [heap EXCEPT ![fine[Primary]] = FineLevel(@, n)], fine' = fine
  PROVE  /\ HeapOK(heap') /\ Upper(heap', fine[Primary]) /\ LevelsOK(heap', MinFine)
         /\ Unlinked(heap) => Unlinked(heap')
         /\ In(heap', O) = {} /\ In(heap', Primary) = In(heap, Primary)
         /\ heap'[fine[Primary]] = FineLevel(heap[fine[Primary]], n)
         /\ \A b \in DOMAIN heap : b # fine[Primary] => heap'[b] = heap[b]
<1> DEFINE a == fine[Primary]
           l == FineLevel(heap[a], n)
<1>1. /\ TypeOK /\ HeapOK(heap) /\ Upper(heap, a) /\ In(heap, Primary) = DOMAIN heap
      /\ LevelsOK(heap, MinFine) /\ In(heap, O) = {} /\ a \in DOMAIN heap
  <2>1. Alive /\ Running /\ Single
    BY SingleFacts
  <2>2. QED BY <2>1, AliveFacts
<1>2. n \in Nat /\ setups \in Nat /\ heap[a] \in LevelType
  BY <1>1, HierarchyAssumption, LevelTypes DEF TypeOK
<1>3. /\ l \in LevelType /\ l.space = heap[a].space /\ l.index = 0 /\ l.isSetup = TRUE
      /\ l.A.rows = n /\ l.aggregates = heap[a].aggregates /\ l.next = heap[a].next
  BY <1>2, FineLevelType
<1> HIDE DEF l
<1>4. /\ DOMAIN heap' = DOMAIN heap /\ heap'[a] = l
      /\ \A b \in DOMAIN heap : b # a => heap'[b] = heap[b]
  BY <1>1 DEF l
<1>5. HeapOK(heap')
  BY <1>1, <1>3, <1>4 DEF HeapOK, l
<1>6. \A b \in DOMAIN heap : /\ heap'[b].space = heap[b].space /\ heap'[b].next = heap[b].next
                             /\ heap'[b].index = heap[b].index
                             /\ heap'[b].aggregates = heap[b].aggregates
  BY <1>1, <1>3, <1>4 DEF Upper
<1>7. In(heap', O) = {} /\ In(heap', Primary) = In(heap, Primary)
  BY <1>1, <1>4, <1>6 DEF In
<1>8. Upper(heap', a)
  <2>1. NextIn(heap', Primary) = NextIn(heap, Primary)
    <3>1. \A b \in In(heap, Primary) : heap'[b].next[Primary] = heap[b].next[Primary]
      BY <1>1, <1>6
    <3>2. QED BY <3>1, <1>7 DEF NextIn
  <2>2. Indexed(heap', Primary)
    BY <1>1, <1>6, <1>7 DEF Upper, Indexed
  <2>3. QED BY <2>1, <2>2, <1>1, <1>6 DEF Upper
<1>9. LevelsOK(heap', MinFine)
  <2>1. SUFFICES ASSUME NEW b \in In(heap, Primary) PROVE LevelOK(heap', b, MinFine)
    BY <1>7 DEF LevelsOK
  <2>2. LevelOK(heap, b, MinFine) /\ b \in DOMAIN heap
    BY <1>1 DEF LevelsOK
  <2>3. heap[b].next[Primary] # Null => heap[b].next[Primary] \in DOMAIN heap \ {a}
    BY <1>1, ChainLinks DEF Upper
  <2>4. CASE b # a
    BY <2>2, <2>3, <2>4, <1>4 DEF LevelOK
  <2>5. CASE b = a /\ heap[a].isSetup
    BY <2>2, <2>3, <2>5, <1>3, <1>4, <1>6 DEF LevelOK, Shrinks
  <2>6. CASE b = a /\ ~heap[a].isSetup
    BY <2>2, <2>6, <1>2, <1>3, <1>4, <1>6 DEF LevelOK
  <2>7. QED BY <2>4, <2>5, <2>6
<1>10. Unlinked(heap) => Unlinked(heap')
  BY <1>1, <1>6, <1>7 DEF Unlinked
<1>11. QED BY <1>4, <1>5, <1>7, <1>8, <1>9, <1>10 DEF l

LEMMA SetFineMatrixInv ==
  ASSUME HierarchyInv, NEW n \in FineRows, SetFineMatrix(n)
  PROVE  HierarchyInv'
<1> DEFINE a == fine[Primary]
           rebuild == heap[a].isSetup /\ reuse = 0
<1>1. /\ pc = "fine" /\ cfg' = cfg /\ reuse' = reuse /\ numLevels' = numLevels
      /\ setups' = setups /\ damaged' = (damaged /\ ~rebuild)
      /\ heap[a].isSetup /\ ~rebuild => n = heap[a].A.rows
      /\ coarse' = coarse /\ space' = space /\ last' = last
  BY DEF SetFineMatrix, Crash
<1>2. /\ TypeOK /\ HeapOK(heap) /\ Upper(heap, a) /\ In(heap, Primary) = DOMAIN heap
      /\ LevelsOK(heap, MinFine) /\ In(heap, O) = {} /\ a \in In(heap, Primary)
      /\ fine[O] = Null /\ Alive /\ Running
      /\ space = Primary /\ numLevels = 1 /\ Working /\ Counted /\ InPlace
  BY <1>1, AliveFacts, SingleFacts DEF HierarchyInv, Working
<1>3. Counted'
  BY <1>1, <1>2 DEF Counted
<1>4. ASSUME ~Hybrid, cfg.hostRows = 0 \/ setups = 0 \/ setups = 1
      PROVE  Unlinked(heap)
  BY <1>1, <1>2, <1>4 DEF InPlace
<1>5. CASE rebuild /\ ~Deletable(heap, a)
  <2>1. /\ pc' = "crashed" /\ heap' = heap /\ fine' = fine /\ cur' = cur /\ prev' = prev
    BY <1>5 DEF SetFineMatrix, Crash, Goto
  <2>2. TypeOK'
    BY <1>1, <1>2, <2>1 DEF TypeOK, Stages
  <2>3. ~Plain
    BY <1>2, <1>4, <1>5, ChainDeletable DEF Plain
  <2>4. QED BY <1>1, <1>3, <2>1, <2>2, <2>3, CrashStep
<1>6. ASSUME pc' = "top", prev' = Null, fine'[Primary] = cur', fine'[O] = Null,
             cur' \in In(heap', Primary), heap'[cur'].index = 0, heap'[cur'].isSetup,
             HeapOK(heap'), fine' \in [Spaces -> Places],
             Upper(heap', cur'), LevelsOK(heap', MinFine), In(heap', O) = {},
             Unlinked(heap) => Unlinked(heap')
      PROVE  HierarchyInv'
  <2>1. TypeOK'
    <3>1. damaged' \in BOOLEAN
      BY <1>1
    <3>2. cur' \in Places
      BY <1>6, NextInDef DEF HeapOK, Places
    <3>3. Null \in Places
      BY DEF Places
    <3>4. QED BY <1>1, <1>2, <1>6, <3>1, <3>2, <3>3 DEF TypeOK, Stages, Loop
  <2>2. Lower(heap', Null) /\ IsChain(NextIn(heap', O), Null)
    BY <1>6, NoLower
  <2>3. Structure'
    BY <1>1, <1>6, <2>2, StructureStep
  <2>4. Working'
    BY <1>1, <1>2, <1>6, TwoSpaces DEF Working
  <2>5. Behind' /\ Copying'
    BY <1>6 DEF Behind, Copying
  <2>6. InPlace'
    <3>1. cfg'.hostRows = cfg.hostRows /\ Hybrid' = Hybrid
      BY <1>1, ConfigKept
    <3>2. QED BY <1>1, <1>4, <1>6, <3>1 DEF InPlace
  <2>7. QED BY <1>3, <2>1, <2>3, <2>4, <2>5, <2>6 DEF HierarchyInv
<1>7. CASE rebuild /\ Deletable(heap, a)
  <2>1. PICK b \in Unused(Deleted(heap, a)) :
          /\ heap' = With(Deleted(heap, a), b, FineLevel(NewLevel(Primary), n))
          /\ fine' = [fine EXCEPT ![Primary] = b] /\ cur' = b
    BY <1>7 DEF SetFineMatrix, FineLevel
  <2>2. pc' = "top" /\ prev' = Null
    BY <1>7 DEF SetFineMatrix, Goto
  <2>3. /\ HeapOK(heap') /\ fine' \in [Spaces -> Places]
        /\ fine'[Primary] = b /\ fine'[O] = Null
        /\ Upper(heap', b) /\ LevelsOK(heap', MinFine) /\ Unlinked(heap')
        /\ In(heap', O) = {} /\ In(heap', Primary) = {b}
        /\ heap'[b] = FineLevel(NewLevel(Primary), n)
    <3>1. a \in Places
      BY AliveFacts
    <3>2. QED BY <3>1, <1>1, <1>7, <2>1, RebuildFine
  <2>4. heap'[b].index = 0 /\ heap'[b].isSetup
    <3>1. NewLevel(Primary) \in LevelType /\ n \in Nat /\ setups \in Nat
      BY <1>2, NewLevelType, TwoSpaces, HierarchyAssumption DEF TypeOK
    <3>2. FineLevel(NewLevel(Primary), n).index = 0 /\ FineLevel(NewLevel(Primary), n).isSetup = TRUE
      BY <3>1, FineLevelType
    <3>3. QED BY <3>2, <2>3
  <2>5. QED BY <1>6, <2>1, <2>2, <2>3, <2>4
<1>8. CASE ~rebuild
  <2>1. /\ heap' = [heap EXCEPT ![a] = FineLevel(@, n)] /\ cur' = a /\ fine' = fine
        /\ pc' = "top" /\ prev' = Null
    BY <1>8 DEF SetFineMatrix, Goto, FineLevel
  <2>2. /\ HeapOK(heap') /\ Upper(heap', a) /\ LevelsOK(heap', MinFine)
        /\ Unlinked(heap) => Unlinked(heap')
        /\ In(heap', O) = {} /\ In(heap', Primary) = In(heap, Primary)
        /\ heap'[a] = FineLevel(heap[a], n)
    BY <1>1, <1>8, <2>1, KeepFine
  <2>3. heap'[a].index = 0 /\ heap'[a].isSetup
    <3>1. heap[a] \in LevelType /\ n \in Nat /\ setups \in Nat
      BY <1>2, LevelTypes, HierarchyAssumption DEF TypeOK
    <3>2. FineLevel(heap[a], n).index = 0 /\ FineLevel(heap[a], n).isSetup = TRUE
      BY <3>1, FineLevelType
    <3>3. QED BY <3>2, <2>2
  <2>4. fine' \in [Spaces -> Places]
    BY <1>2, <2>1 DEF TypeOK
  <2>5. QED BY <1>2, <1>6, <2>1, <2>2, <2>3, <2>4
<1>9. QED BY <1>5, <1>7, <1>8

\* What the invariant says while the loop runs.
LEMMA LoopFacts ==
  ASSUME HierarchyInv, pc \in Loop
  PROVE  /\ TypeOK /\ HeapOK(heap) /\ Alive /\ Running /\ Counted /\ InPlace
         /\ Upper(heap, fine[Primary]) /\ LevelsOK(heap, MinFine) /\ Lower(heap, fine[O])
         /\ IsChain(NextIn(heap, O), fine[O])
         /\ space \in Spaces /\ cur \in In(heap, space) /\ cur \in DOMAIN heap
         /\ heap[cur].space = space /\ heap[cur] \in LevelType
         /\ heap[cur].index + 1 = numLevels /\ heap[cur].isSetup = TRUE
         /\ Next1 \in Places
         /\ space = O => Hybrid
         /\ space = Primary =>
              fine[O] = Null /\ In(heap, O) = {} /\ In(heap, Primary) = DOMAIN heap
         /\ fine[Primary] \in In(heap, Primary)
<1>1. Alive /\ Running
  BY DEF Alive, Running, Resting, Loop
<1>2. /\ TypeOK /\ HeapOK(heap) /\ Upper(heap, fine[Primary]) /\ LevelsOK(heap, MinFine)
      /\ Lower(heap, fine[O]) /\ IsChain(NextIn(heap, O), fine[O])
      /\ fine[Primary] \in In(heap, Primary)
  BY <1>1, AliveFacts DEF Loop
<1>3. /\ cur \in In(heap, space) /\ heap[cur].index + 1 = numLevels /\ heap[cur].isSetup
      /\ space = O => Hybrid
      /\ Counted /\ InPlace
  BY DEF HierarchyInv, Working
<1>4. space \in Spaces /\ cur \in DOMAIN heap /\ heap[cur].space = space
  BY <1>2, <1>3, NextInDef DEF TypeOK
<1>5. heap[cur] \in LevelType /\ heap[cur].isSetup = TRUE /\ Next1 \in Places
  BY <1>2, <1>3, <1>4, LevelTypes DEF Next1
<1>6. space = Primary =>
        fine[O] = Null /\ In(heap, O) = {} /\ In(heap, Primary) = DOMAIN heap
  BY SingleFacts
<1>7. QED BY <1>1, <1>2, <1>3, <1>4, <1>5, <1>6

\* Levels that differ in smoothers, versions and vectors only.
Relabeled(h, g) ==
  /\ HeapOK(g) /\ DOMAIN g = DOMAIN h
  /\ \A b \in DOMAIN h :
       /\ g[b].space = h[b].space /\ g[b].index = h[b].index
       /\ g[b].isSetup = h[b].isSetup /\ g[b].next = h[b].next
       /\ g[b].A.rows = h[b].A.rows /\ g[b].aggregates = h[b].aggregates

LEMMA RelabelKept ==
  ASSUME NEW h, NEW g, Relabeled(h, g), NEW r, Upper(h, r), NEW k, LevelsOK(h, k),
         NEW q, Lower(h, q)
  PROVE  /\ Upper(g, r) /\ LevelsOK(g, k) /\ Lower(g, q)
         /\ \A s \in Spaces : In(g, s) = In(h, s) /\ NextIn(g, s) = NextIn(h, s)
         /\ Unlinked(h) => Unlinked(g)
<1>1. \A s : In(g, s) = In(h, s)
  BY DEF Relabeled, In
<1>2. \A s : NextIn(g, s) = NextIn(h, s)
  <2>1. TAKE s
  <2>2. \A b \in In(h, s) : g[b].next[s] = h[b].next[s]
    BY NextInDef DEF Relabeled
  <2>3. QED BY <2>2, <1>1 DEF NextIn
<1>3. SameUpper(h, g)
  BY <1>1, NextInDef DEF Relabeled, SameUpper
<1>4. Upper(g, r) /\ LevelsOK(g, k)
  BY <1>3, UpperKept, LevelsKept
<1>5. \A b \in In(h, O) : g[b].next = h[b].next
  BY NextInDef DEF Relabeled
<1>6. Lower(g, q)
  BY <1>5, LowerKept DEF Relabeled
<1>7. Unlinked(h) => Unlinked(g)
  BY <1>1, NextInDef DEF Unlinked, Relabeled
<1>8. QED BY <1>1, <1>2, <1>4, <1>6, <1>7

LEMMA SmootherSetUpType ==
  ASSUME NEW l \in LevelType
  PROVE  LET m == SmootherSetUp(l)
         IN  /\ m \in LevelType /\ m.space = l.space /\ m.index = l.index /\ m.A = l.A
             /\ m.isSetup = l.isSetup /\ m.smoother = l.A /\ m.aggregates = l.aggregates
             /\ m.vectors = l.vectors /\ m.next = l.next
  BY DEF SmootherSetUp, LevelType

\* Setting up the smoother of one level.
LEMMA SmoothedHeap ==
  ASSUME NEW h, HeapOK(h), NEW a \in DOMAIN h
  PROVE  Relabeled(h, [h EXCEPT ![a] = SmootherSetUp(@)])
<1> DEFINE g == [h EXCEPT ![a] = SmootherSetUp(@)]
<1>1. h[a] \in LevelType
  BY LevelTypes
<1>2. DOMAIN g = DOMAIN h /\ g[a] = SmootherSetUp(h[a])
      /\ \A b \in DOMAIN h : b # a => g[b] = h[b]
  OBVIOUS
<1>3. /\ g[a] \in LevelType /\ g[a].space = h[a].space /\ g[a].index = h[a].index
      /\ g[a].A = h[a].A /\ g[a].isSetup = h[a].isSetup
      /\ g[a].aggregates = h[a].aggregates /\ g[a].next = h[a].next
  BY <1>1, <1>2, SmootherSetUpType
<1>4. HeapOK(g)
  BY <1>1, <1>2, <1>3 DEF HeapOK
<1> HIDE DEF g
<1>5. Relabeled(h, g)
  BY <1>2, <1>3, <1>4 DEF Relabeled
<1>6. QED BY <1>5 DEF g

\* The part InPlace, for a step of a setup.
LEMMA InPlaceStep ==
  ASSUME InPlace, cfg' = cfg, setups' = setups, Alive, pc # "ready",
         pc' # "crashed", Unlinked(heap) => Unlinked(heap'),
         Plain => fine'[O] = Null
  PROVE  InPlace'
<1>1. Hybrid' = Hybrid /\ Plain' = Plain /\ cfg'.hostRows = cfg.hostRows
  BY ConfigKept
<1>2. QED BY <1>1 DEF InPlace

\* At the bottom of the loop nothing follows.
LEMMA BottomIsLast ==
  ASSUME HierarchyInv, pc = "top", AtBottom
  PROVE  Next1 = Null
<1>1. SUFFICES ASSUME space = Primary, Next1 # Null PROVE FALSE
  BY TwoSpaces DEF HierarchyInv, TypeOK, Working, Loop
<1>2. /\ cur \in In(heap, Primary) /\ heap[cur] \in LevelType /\ LevelsOK(heap, MinFine)
      /\ heap[cur].index + 1 = numLevels
  BY <1>1, LoopFacts DEF Loop
<1>3. heap[cur].A.rows > MinFine /\ heap[cur].index + 1 < MaxLevels
  BY <1>1, <1>2 DEF LevelsOK, LevelOK, Next1
<1>4. heap[cur].A.rows \in Nat /\ MinFine \in Nat /\ numLevels \in Nat /\ MaxLevels \in Int
  BY <1>2, ConfigTyped, HierarchyAssumption DEF HierarchyInv, TypeOK, LevelType, MatrixType
<1>5. QED BY <1>1, <1>2, <1>3, <1>4 DEF AtBottom, MinRows

LEMMA ReachBottomInv == HierarchyInv /\ ReachBottom => HierarchyInv'
<1>1. SUFFICES ASSUME HierarchyInv, ReachBottom PROVE HierarchyInv'
  OBVIOUS
<1>2. /\ pc = "top" /\ AtBottom /\ pc' = "built" /\ prev' = cur
      /\ cfg' = cfg /\ fine' = fine /\ reuse' = reuse /\ numLevels' = numLevels
      /\ setups' = setups /\ damaged' = damaged /\ space' = space /\ cur' = cur
      /\ last' = last
      /\ heap' = heap \/ heap' = [heap EXCEPT ![cur] = SmootherSetUp(@)]
      /\ \E e \in BOOLEAN : coarse' = [coarse EXCEPT ![space].exists = e]
  <2>1. \A x : (coarse[space].exists /\ ~x) \in BOOLEAN
    OBVIOUS
  <2>2. QED BY <1>1, <2>1 DEF ReachBottom, Goto
<1>3. pc \in Loop
  BY <1>2 DEF Loop
<1>4. Relabeled(heap, heap')
  <2>1. heap' = heap => Relabeled(heap, heap')
    BY <1>1, <1>3, LoopFacts DEF Relabeled
  <2>2. QED BY <1>1, <1>2, <1>3, <2>1, LoopFacts, SmoothedHeap
<1>5. /\ Upper(heap', fine[Primary]) /\ LevelsOK(heap', MinFine) /\ Lower(heap', fine[O])
      /\ \A s \in Spaces : In(heap', s) = In(heap, s) /\ NextIn(heap', s) = NextIn(heap, s)
      /\ Unlinked(heap) => Unlinked(heap')
  BY <1>1, <1>3, <1>4, LoopFacts, RelabelKept
<1>6. TypeOK'
  <2>1. TypeOK /\ space \in Spaces
    BY <1>1, <1>3, LoopFacts
  <2>2. coarse' \in [Spaces -> [exists : BOOLEAN, A : MatrixType]]
    BY <1>2, <2>1 DEF TypeOK
  <2>3. HeapOK(heap')
    BY <1>4 DEF Relabeled
  <2>4. QED BY <1>2, <2>1, <2>2, <2>3 DEF TypeOK, Stages, Loop
<1>7. Structure'
  <2>1. /\ IsChain(NextIn(heap', O), fine[O]) /\ (space = Primary => fine[O] = Null)
    BY <1>1, <1>3, <1>5, LoopFacts, TwoSpaces
  <2>2. QED BY <1>2, <1>5, <2>1, StructureStep DEF Single
<1>8. Working'
  <2>1. /\ cur \in In(heap', space)
        /\ heap'[cur].index + 1 = numLevels /\ heap'[cur].isSetup
        /\ space = O => Hybrid
    BY <1>1, <1>3, <1>4, <1>5, LoopFacts DEF Relabeled
  <2>2. heap'[cur].next[space] = Null
    BY <1>1, <1>2, <1>3, <1>4, BottomIsLast, LoopFacts DEF Next1, Relabeled
  <2>3. Next1' = heap'[cur].next[space] /\ Hybrid' = Hybrid
    BY <1>2, ConfigKept DEF Next1
  <2>4. QED BY <1>2, <2>1, <2>2, <2>3 DEF Working
<1>9. Behind' /\ Copying'
  BY <1>2 DEF Behind, Copying
<1>10. Counted'
  BY <1>1, <1>2, <1>3, LoopFacts DEF Counted
<1>11. InPlace'
  <2>1. Plain => fine[O] = Null
    BY <1>1, <1>3, LoopFacts, TwoSpaces DEF Plain
  <2>2. QED BY <1>1, <1>2, <1>3, <1>5, <2>1, LoopFacts, InPlaceStep
<1>12. QED BY <1>6, <1>7, <1>8, <1>9, <1>10, <1>11 DEF HierarchyInv

\* A step that stays in the loop, or leaves it with an exception.
LEMMA LoopStep ==
  ASSUME HierarchyInv, pc \in Loop, pc' \in Loop \union {"failed"},
         cfg' = cfg, fine' = fine, setups' = setups,
         numLevels' = numLevels \/ numLevels' <= MaxLevels,
         pc' = "failed" \/ space' = space,
         TypeOK', Upper(heap', fine[Primary]), LevelsOK(heap', MinFine),
         Lower(heap', fine[O]), IsChain(NextIn(heap', O), fine[O]),
         Unlinked(heap) => Unlinked(heap'), Working', Behind'
  PROVE  HierarchyInv'
<1>1. Structure'
  <2>1. Single' => space = Primary
    BY DEF Single, Running, Resting
  <2>2. space = Primary => fine[O] = Null
    BY LoopFacts
  <2>3. QED BY <2>1, <2>2, StructureStep DEF Loop
<1>2. Copying'
  BY DEF Copying, Loop
<1>3. Counted'
  BY LoopFacts DEF Counted
<1>4. InPlace'
  <2>1. Plain => fine[O] = Null
    BY LoopFacts, TwoSpaces DEF Plain
  <2>2. QED BY <2>1, LoopFacts, InPlaceStep DEF Loop
<1>5. QED BY <1>1, <1>2, <1>3, <1>4 DEF HierarchyInv

LEMMA ReuseNextInv == HierarchyInv /\ ReuseNext => HierarchyInv'
<1>1. SUFFICES ASSUME HierarchyInv, ReuseNext PROVE HierarchyInv'
  OBVIOUS
<1> DEFINE a == Next1
           l == [heap[a] EXCEPT !.index = numLevels, !.A.version = 0]
<1>2. /\ pc = "top" /\ ~AtBottom /\ pc' = "matrices" /\ prev' = prev
      /\ cfg' = cfg /\ fine' = fine /\ reuse' = reuse /\ numLevels' = numLevels
      /\ setups' = setups /\ damaged' = damaged /\ space' = space /\ cur' = cur
      /\ last' = last /\ coarse' = coarse
      /\ heap' = [heap EXCEPT ![a] = l]
      /\ a # Null
  BY <1>1 DEF ReuseNext, Goto, KeepNext, Next1
<1>3. pc \in Loop
  BY <1>2 DEF Loop
<1>4. /\ TypeOK /\ HeapOK(heap) /\ Upper(heap, fine[Primary]) /\ LevelsOK(heap, MinFine)
      /\ Lower(heap, fine[O]) /\ IsChain(NextIn(heap, O), fine[O]) /\ Working /\ Behind
      /\ cur \in In(heap, space) /\ cur \in DOMAIN heap /\ heap[cur].isSetup
      /\ heap[cur].index + 1 = numLevels
      /\ In(heap, Primary) = DOMAIN heap \/ space # Primary
  BY <1>1, <1>3, LoopFacts DEF HierarchyInv
<1>5. space = Primary
  BY <1>1, <1>2, <1>3, <1>4, LoopFacts, TwoSpaces DEF Working
<1>6. /\ a \in In(heap, Primary) /\ a \in DOMAIN heap /\ heap[a].index = numLevels
      /\ heap[cur].next[Primary] = a
  BY <1>2, <1>4, <1>5, ChainLinks DEF Upper, Indexed, Next1
<1>7. heap[a] \in LevelType /\ numLevels \in Nat
  BY <1>4, <1>6, LevelTypes DEF TypeOK
<1>8. /\ l \in LevelType /\ l.index = numLevels /\ l.space = heap[a].space
      /\ l.isSetup = heap[a].isSetup /\ l.next = heap[a].next
      /\ l.A.rows = heap[a].A.rows /\ l.aggregates = heap[a].aggregates
  BY <1>7 DEF LevelType, MatrixType
<1> HIDE DEF l, a
<1>9. Relabeled(heap, heap')
  <2>1. DOMAIN heap' = DOMAIN heap /\ heap'[a] = l
        /\ \A b \in DOMAIN heap : b # a => heap'[b] = heap[b]
    BY <1>2, <1>6
  <2>2. HeapOK(heap')
    BY <1>2, <1>4, <1>6, <1>8 DEF HeapOK
  <2>3. QED BY <1>6, <1>8, <2>1, <2>2 DEF Relabeled
<1>10. /\ Upper(heap', fine[Primary]) /\ LevelsOK(heap', MinFine) /\ Lower(heap', fine[O])
       /\ \A s \in Spaces : In(heap', s) = In(heap, s) /\ NextIn(heap', s) = NextIn(heap, s)
       /\ Unlinked(heap) => Unlinked(heap')
  BY <1>4, <1>9, RelabelKept
<1>11. TypeOK'
  <2>1. HeapOK(heap')
    BY <1>9 DEF Relabeled
  <2>2. QED BY <1>2, <1>4, <2>1 DEF TypeOK, Stages, Loop
<1>12. IsChain(NextIn(heap', O), fine[O])
  BY <1>4, <1>10, TwoSpaces
<1>13. Working'
  <2>1. heap[cur].A.rows > MinRows /\ numLevels < MaxLevels
    <3>1. /\ heap[cur].A.rows \in Nat /\ numLevels \in Nat /\ MaxLevels \in Int
          /\ MinRows \in Nat
      BY <1>4, <1>5, <1>7, LevelTypes, ConfigTyped, HierarchyAssumption DEF MinRows, TypeOK
    <3>2. QED BY <3>1, <1>2 DEF AtBottom
  <2>2. heap'[cur].next[space] = a /\ a \in In(heap', space) /\ heap'[a].index = numLevels
    BY <1>4, <1>5, <1>6, <1>9, <1>10, TwoSpaces DEF Relabeled
  <2>3. Next1' = heap'[cur].next[space] /\ MinRows' = MinRows
    BY <1>2, ConfigKept DEF Next1, MinRows
  <2>4. /\ cur \in In(heap', space) /\ heap'[cur].index + 1 = numLevels
        /\ heap'[cur].isSetup /\ heap'[cur].A.rows = heap[cur].A.rows
    BY <1>4, <1>5, <1>9, <1>10, TwoSpaces DEF Relabeled
  <2>5. QED BY <1>2, <1>5, <2>1, <2>2, <2>3, <2>4, TwoSpaces DEF Working
<1>14. Behind'
  <2>1. prev \in In(heap, Primary) => heap'[prev].next = heap[prev].next
    BY <1>9, NextInDef DEF Relabeled
  <2>2. QED BY <1>2, <1>3, <1>4, <1>5, <1>10, <2>1, TwoSpaces DEF Behind
<1>15. QED BY <1>1, <1>2, <1>3, <1>10, <1>11, <1>12, <1>13, <1>14, LoopStep DEF Loop

\* A level with another pointer.
Relinked(l, s, v) == [l EXCEPT !.next = [@ EXCEPT ![s] = v]]

LEMMA RelinkedType ==
  ASSUME NEW l \in LevelType, NEW s \in Spaces, NEW v \in Places
  PROVE  LET m == Relinked(l, s, v)
         IN  /\ m \in LevelType /\ m.space = l.space /\ m.index = l.index /\ m.A = l.A
             /\ m.isSetup = l.isSetup /\ m.smoother = l.smoother
             /\ m.aggregates = l.aggregates /\ m.vectors = l.vectors
             /\ m.next[s] = v /\ \A t \in Spaces : t # s => m.next[t] = l.next[t]
  BY DEF Relinked, LevelType

\* In the mode's space.
LEMMA RelinkedHere ==
  ASSUME NEW l, l \in LevelType, NEW v, v \in Places
  PROVE  LET m == Relinked(l, Primary, v)
         IN  /\ m.next[Primary] = v /\ m.next[O] = l.next[O]
             /\ m.space = l.space /\ m.index = l.index
             /\ m.A = l.A /\ m.isSetup = l.isSetup /\ m.aggregates = l.aggregates
  BY RelinkedType, TwoSpaces

\* The pointer of c in space s set to v; a level added at a for c to point to.
Linked(h, c, s, v) == [h EXCEPT ![c].next[s] = v]
Allocated(h, c, s, a, l) == With([h EXCEPT ![c].next[s] = a], a, l)

IsAllocated(h, g, c, s, a, l) ==
  /\ HeapOK(g) /\ DOMAIN g = DOMAIN h \union {a} /\ g[a] = l
  /\ \A b \in DOMAIN h \ {c} : g[b] = h[b]
  /\ g[c] = Relinked(h[c], s, a)

LEMMA AllocatedHeap ==
  ASSUME NEW h, HeapOK(h), NEW c \in DOMAIN h, NEW s \in Spaces,
         NEW a \in Addresses \ DOMAIN h, NEW l \in LevelType
  PROVE  IsAllocated(h, Allocated(h, c, s, a, l), c, s, a, l)
<1> DEFINE g == Allocated(h, c, s, a, l)
<1>1. h[c] \in LevelType /\ a \in Places /\ c # a
  BY LevelTypes DEF Places
<1>2. /\ DOMAIN g = DOMAIN h \union {a} /\ g[a] = l
      /\ \A b \in DOMAIN h \ {c} : g[b] = h[b]
      /\ g[c] = Relinked(h[c], s, a)
  BY <1>1 DEF With, Relinked, Allocated
<1>3. Relinked(h[c], s, a) \in LevelType
  BY <1>1, RelinkedType
<1>4. g = [b \in DOMAIN g |-> g[b]]
  BY DEF With, Allocated
<1>5. \A b \in DOMAIN g : g[b] \in LevelType
  <2>1. \A b \in DOMAIN h : h[b] \in LevelType
    BY LevelTypes
  <2>2. QED BY <2>1, <1>2, <1>3
<1>6. HeapOK(g)
  BY <1>2, <1>4, <1>5 DEF HeapOK
<1>7. QED BY <1>2, <1>6 DEF IsAllocated

LEMMA LinkedHeap ==
  ASSUME NEW h, HeapOK(h), NEW c \in DOMAIN h, NEW s \in Spaces, NEW v \in Places
  PROVE  LET g == Linked(h, c, s, v)
         IN  /\ HeapOK(g) /\ DOMAIN g = DOMAIN h
             /\ \A b \in DOMAIN h \ {c} : g[b] = h[b]
             /\ g[c] = Relinked(h[c], s, v)
<1> DEFINE g == Linked(h, c, s, v)
<1>1. h[c] \in LevelType
  BY LevelTypes
<1>2. /\ DOMAIN g = DOMAIN h
      /\ \A b \in DOMAIN h \ {c} : g[b] = h[b]
      /\ g[c] = Relinked(h[c], s, v)
  BY <1>1 DEF Relinked, Linked
<1>3. Relinked(h[c], s, v) \in LevelType
  BY <1>1, RelinkedType
<1>4. g = [b \in DOMAIN g |-> g[b]]
  BY DEF Linked
<1>5. \A b \in DOMAIN g : g[b] \in LevelType
  BY <1>2, <1>3, LevelTypes
<1>6. HeapOK(g)
  BY <1>2, <1>4, <1>5 DEF HeapOK
<1>7. QED BY <1>2, <1>6

\* A level stays when what it points to is deleted.
LEMMA StaysItself ==
  ASSUME NEW h, HeapOK(h), NEW c \in DOMAIN h, NEW s \in Spaces,
         NEW x, x = h[c].next[s], Deletable(h, x)
  PROVE  c \notin Reach(h, x) /\ x \in Places
<1>1. x \in Places
  BY LevelTypes
<1>2. x = Null => Reach(h, x) = {}
  BY <1>1, Reaching
<1>3. x # Null => c \notin Reach(h, x)
  BY HolderStays
<1>4. QED BY <1>1, <1>2, <1>3

FreshLevel(l, s, i) ==
  /\ l \in LevelType /\ l.space = s /\ l.index = i /\ l.A = NoMatrix
  /\ l.isSetup = FALSE /\ l.aggregates = 0 /\ l.next = NoNext

NextReplaced(h, g, c, x, a, l) ==
  /\ HeapOK(g) /\ c \notin Reach(h, x) /\ c # a
  /\ In(g, Primary) = (In(h, Primary) \ Reach(h, x)) \union {a}
  /\ DOMAIN g = (DOMAIN h \ Reach(h, x)) \union {a}
  /\ g[c] = Relinked(h[c], Primary, a) /\ g[a] = l
  /\ \A b \in DOMAIN h \ Reach(h, x) : b # c => g[b] = h[b]
  /\ Unlinked(h) => Unlinked(g)

\* The next level is replaced by a new one.
LEMMA ReplaceNext ==
  ASSUME NEW h, HeapOK(h), NEW r, Upper(h, r), NEW k, LevelsOK(h, k),
         NEW q, Lower(h, q), NEW c \in In(h, Primary),
         h[c].isSetup, h[c].A.rows > k, h[c].index + 1 < MaxLevels,
         NEW x, x = h[c].next[Primary], Deletable(h, x),
         NEW a \in Addresses \ DOMAIN Deleted(h, x),
         NEW l, FreshLevel(l, Primary, h[c].index + 1),
         NEW g, g = Allocated(Deleted(h, x), c, Primary, a, l)
  PROVE  Upper(g, r) /\ LevelsOK(g, k) /\ NextReplaced(h, g, c, x, a, l)
<1> /\ l \in LevelType /\ l.space = Primary /\ l.index = h[c].index + 1 /\ l.A = NoMatrix
    /\ l.isSetup = FALSE /\ l.aggregates = 0 /\ l.next = NoNext
  BY DEF FreshLevel
<1>1. c \in DOMAIN h /\ h[c] \in LevelType /\ Primary \in Spaces
  BY NextInDef, LevelTypes, TwoSpaces
<1>2. c \notin Reach(h, x) /\ x \in Places
  BY <1>1, StaysItself
<1> DEFINE h1 == Deleted(h, x)
           g0 == Linked(h1, c, Primary, Null)
<1>3. /\ HeapOK(h1) /\ DOMAIN h1 = DOMAIN h \ Reach(h, x) /\ c \in DOMAIN h1
      /\ \A b \in DOMAIN h \ Reach(h, x) : h1[b] = h[b]
  BY <1>1, <1>2, DeletedHeap
<1>4. a \in Addresses \ DOMAIN h1 /\ g = Allocated(h1, c, Primary, a, l)
  OBVIOUS
<1> HIDE DEF h1
<1>5. /\ HeapOK(g) /\ DOMAIN g = DOMAIN h1 \union {a} /\ g[a] = l
      /\ \A b \in DOMAIN h1 \ {c} : g[b] = h1[b]
      /\ g[c] = Relinked(h1[c], Primary, a)
  <2>1. IsAllocated(h1, Allocated(h1, c, Primary, a, l), c, Primary, a, l)
    BY <1>1, <1>3, <1>4, AllocatedHeap
  <2>2. IsAllocated(h1, g, c, Primary, a, l)
    BY <2>1, <1>4
  <2>3. QED BY <2>2 DEF IsAllocated
<1>6. Null \in Places /\ a \in Places
  BY DEF Places
<1>7. /\ HeapOK(g0) /\ DOMAIN g0 = DOMAIN h1
      /\ \A b \in DOMAIN h1 \ {c} : g0[b] = h1[b]
      /\ g0[c] = Relinked(h1[c], Primary, Null)
  BY <1>1, <1>3, <1>6, LinkedHeap
<1> HIDE DEF g0
<1>71. h1[c] = h[c]
  BY <1>1, <1>2, <1>3
<1>8. /\ g0[c].next[Primary] = Null /\ g0[c].space = h[c].space
      /\ g0[c].index = h[c].index /\ g0[c].A = h[c].A
      /\ g0[c].isSetup = h[c].isSetup /\ g0[c].aggregates = h[c].aggregates
      /\ g0[c].next[O] = h[c].next[O]
  <2>1. LET m == Relinked(h[c], Primary, Null)
        IN  /\ m.next[Primary] = Null /\ m.next[O] = h[c].next[O]
            /\ m.space = h[c].space /\ m.index = h[c].index
            /\ m.A = h[c].A /\ m.isSetup = h[c].isSetup /\ m.aggregates = h[c].aggregates
    BY <1>1, <1>6, RelinkedHere
  <2>2. QED BY <2>1, <1>71, <1>7
<1>9. /\ g[c].next[Primary] = a /\ g[c].space = h[c].space
      /\ g[c].index = h[c].index /\ g[c].A = h[c].A
      /\ g[c].isSetup = h[c].isSetup /\ g[c].aggregates = h[c].aggregates
      /\ g[c].next[O] = h[c].next[O]
  <2>1. LET m == Relinked(h[c], Primary, a)
        IN  /\ m.next[Primary] = a /\ m.next[O] = h[c].next[O]
            /\ m.space = h[c].space /\ m.index = h[c].index
            /\ m.A = h[c].A /\ m.isSetup = h[c].isSetup /\ m.aggregates = h[c].aggregates
    BY <1>1, <1>6, RelinkedHere
  <2>2. g[c] = Relinked(h[c], Primary, a)
    BY <1>71, <1>5
  <2>3. QED BY <2>1, <2>2
<1>10. \A b \in DOMAIN g0 \ {c} : g0[b] = h[b] /\ g[b] = g0[b]
  BY <1>3, <1>5, <1>7
<1>11. DOMAIN g0 = DOMAIN h \ Reach(h, x)
  BY <1>3, <1>7
<1>12. /\ c \in In(g0, Primary) /\ Upper(g0, r) /\ LevelsOK(g0, k)
  <2>1. CutTo(h, g0, c, x)
    BY <1>8, <1>10, <1>11 DEF CutTo
  <2>2. QED BY <2>1, CutUpper
<1>13. In(g0, Primary) = In(h, Primary) \ Reach(h, x)
  BY <1>2, <1>8, <1>10, <1>11 DEF In
<1>14. a \in Addresses \ DOMAIN g0 /\ DOMAIN g = DOMAIN g0 \union {a}
  BY <1>4, <1>5, <1>7
<1>15. /\ g0[c].isSetup /\ g0[c].A.rows > k /\ g0[c].index + 1 < MaxLevels
       /\ g[c].space = g0[c].space /\ g[c].index = g0[c].index /\ g[c].A = g0[c].A
       /\ g[c].isSetup = g0[c].isSetup /\ g[c].aggregates = g0[c].aggregates
       /\ g[a].index = g0[c].index + 1
  BY <1>5, <1>8, <1>9
<1>16. /\ g[a].space = Primary /\ g[a].A = NoMatrix
       /\ g[a].isSetup = FALSE /\ g[a].aggregates = 0 /\ g[a].next = NoNext
  BY <1>5
<1>17. Upper(g, r) /\ LevelsOK(g, k) /\ In(g, Primary) = In(g0, Primary) \union {a}
  <2>1. GrownTo(g0, g, c, a)
    BY <1>9, <1>10, <1>14, <1>15, <1>16 DEF GrownTo
  <2>2. QED BY <2>1, <1>7, <1>8, <1>12, <1>15, GrowUpper
<1>18. Unlinked(h) => Unlinked(g)
  <2>1. SUFFICES ASSUME Unlinked(h), NEW b \in In(g, Primary) PROVE g[b].next[O] = Null
    BY DEF Unlinked
  <2>2. CASE b = a
    BY <2>2, <1>16, TwoSpaces DEF NoNext
  <2>3. CASE b = c
    BY <2>1, <2>3, <1>9 DEF Unlinked
  <2>4. CASE b # a /\ b # c
    <3>1. b \in In(h, Primary) /\ b \in DOMAIN g0
      BY <2>1, <2>4, <1>13, <1>17, NextInDef
    <3>2. QED BY <3>1, <2>1, <2>4, <1>10 DEF Unlinked
  <2>5. QED BY <2>2, <2>3, <2>4
<1>19. c # a /\ DOMAIN g = (DOMAIN h \ Reach(h, x)) \union {a}
  BY <1>3, <1>4, <1>5
<1>20. g[c] = Relinked(h[c], Primary, a) /\ g[a] = l
  BY <1>1, <1>2, <1>3, <1>5
<1>21. \A b \in DOMAIN h \ Reach(h, x) : b # c => g[b] = h[b]
  BY <1>10, <1>11
<1>22. NextReplaced(h, g, c, x, a, l)
  BY <1>2, <1>5, <1>13, <1>17, <1>18, <1>19, <1>20, <1>21 DEF NextReplaced
<1>23. QED BY <1>17, <1>22

LowerAdded(h, g, c, a, l) ==
  /\ HeapOK(g) /\ c # a
  /\ In(g, O) = In(h, O) \union {a} /\ In(g, Primary) = In(h, Primary)
  /\ DOMAIN g = DOMAIN h \union {a}
  /\ g[c] = Relinked(h[c], O, a) /\ g[a] = l
  /\ \A b \in DOMAIN h : b # c => g[b] = h[b]
  /\ Unlinked(h) => Unlinked(g)

\* A level is added at the end of the chain of the other space.
LEMMA AddLower ==
  ASSUME NEW h, HeapOK(h), NEW r, Upper(h, r), NEW k, LevelsOK(h, k),
         NEW q, Apart(h), IsChain(NextIn(h, O), q), NEW c \in In(h, O), h[c].next[O] = Null,
         NEW a \in Addresses \ DOMAIN h,
         NEW l, l \in LevelType, l.space = O, l.next = NoNext,
         NEW g, g = Allocated(h, c, O, a, l)
  PROVE  /\ Upper(g, r) /\ LevelsOK(g, k) /\ Lower(g, q) /\ IsChain(NextIn(g, O), q)
         /\ LowerAdded(h, g, c, a, l)
<1>1. c \in DOMAIN h /\ h[c] \in LevelType /\ O \in Spaces /\ Primary \in Spaces
      /\ O # Primary /\ h[c].space = O
  BY NextInDef, LevelTypes, TwoSpaces
<1>2. /\ HeapOK(g) /\ DOMAIN g = DOMAIN h \union {a} /\ g[a] = l
      /\ \A b \in DOMAIN h \ {c} : g[b] = h[b]
      /\ g[c] = Relinked(h[c], O, a)
  BY <1>1, AllocatedHeap DEF IsAllocated
<1>3. a \in Places /\ c # a
  BY <1>1 DEF Places
<1>4. g[c].next[O] = a /\ g[c].space = O /\ g[c].next[Primary] = h[c].next[Primary]
  BY <1>1, <1>2, <1>3, RelinkedType
<1>5. g[a].next[O] = Null /\ g[a].next[Primary] = Null
  BY <1>1, <1>2 DEF NoNext
<1>6. Grown(h, g, O, c, a)
  BY <1>1, <1>2, <1>4, <1>5 DEF Grown
<1>7. IsChain(NextIn(g, O), q) /\ In(g, O) = In(h, O) \union {a}
  <2>1. IsChain(NextIn(h, O), q) /\ c \in In(h, O) /\ h[c].next[O] = Null
    OBVIOUS
  <2>2. QED BY <1>6, <2>1, GrowHeap
<1>8. In(g, Primary) = In(h, Primary)
  BY <1>1, <1>2, <1>4 DEF In
<1>9. \A b \in In(h, Primary) : g[b] = h[b]
  BY <1>1, <1>2 DEF In
<1>10. SameUpper(h, g)
  BY <1>8, <1>9 DEF SameUpper
<1>11. Upper(g, r) /\ LevelsOK(g, k)
  BY <1>10, UpperKept, LevelsKept
<1>12. Apart(g)
  <2>1. \A b \in In(h, O) : b # c => b \in DOMAIN h /\ g[b] = h[b]
    BY <1>2, NextInDef
  <2>2. QED BY <2>1, <1>4, <1>5, <1>7 DEF Apart
<1>13. Lower(g, q)
  BY <1>2, <1>7, <1>12, ChainIsLower
<1>14. Unlinked(h) => Unlinked(g)
  BY <1>8, <1>9 DEF Unlinked
<1>15. LowerAdded(h, g, c, a, l)
  BY <1>2, <1>3, <1>7, <1>8, <1>14 DEF LowerAdded
<1>16. QED BY <1>7, <1>11, <1>13, <1>15

\* What the loop has when it goes on to make the next level.
LEMMA GoesOn ==
  ASSUME HierarchyInv, pc = "top", ~AtBottom
  PROVE  /\ numLevels < MaxLevels /\ heap[cur].A.rows > MinRows
         /\ numLevels \in Nat /\ MinRows \in Nat
<1>1. TypeOK /\ heap[cur] \in LevelType
  BY LoopFacts DEF Loop
<1>2. /\ heap[cur].A.rows \in Nat /\ numLevels \in Nat /\ MaxLevels \in Int
      /\ MinRows \in Nat
  BY <1>1, ConfigTyped, HierarchyAssumption DEF MinRows, TypeOK, LevelType, MatrixType
<1>3. QED BY <1>2 DEF AtBottom

LEMMA AllocateNextInv == HierarchyInv /\ AllocateNext => HierarchyInv'
<1>1. SUFFICES ASSUME HierarchyInv, AllocateNext PROVE HierarchyInv'
  OBVIOUS
<1> DEFINE x == heap[cur].next[space]
           l == [NewLevel(space) EXCEPT !.index = numLevels]
<1>2. /\ pc = "top" /\ ~AtBottom /\ cfg' = cfg /\ reuse' = reuse
      /\ numLevels' = numLevels /\ setups' = setups /\ damaged' = damaged
  BY <1>1 DEF AllocateNext
<1>3. pc \in Loop
  BY <1>2 DEF Loop
<1>4. /\ TypeOK /\ HeapOK(heap) /\ Upper(heap, fine[Primary]) /\ LevelsOK(heap, MinFine)
      /\ Lower(heap, fine[O]) /\ IsChain(NextIn(heap, O), fine[O])
      /\ Working /\ Behind /\ Counted /\ InPlace /\ Alive
      /\ space \in Spaces /\ cur \in In(heap, space) /\ cur \in DOMAIN heap
      /\ heap[cur].isSetup /\ heap[cur].index + 1 = numLevels
      /\ heap[cur] \in LevelType /\ x \in Places
  BY <1>1, <1>3, LoopFacts DEF HierarchyInv, Next1
<1>5. numLevels < MaxLevels /\ heap[cur].A.rows > MinRows /\ numLevels \in Nat
  BY <1>1, <1>2, GoesOn
<1>6. space = O => x = Null /\ Hybrid
  BY <1>2, <1>4 DEF Working, Next1, Loop
<1>7. CASE ~Deletable(heap, x)
  <2>1. /\ pc' = "crashed" /\ heap' = heap /\ fine' = fine /\ coarse' = coarse
        /\ space' = space /\ cur' = cur /\ prev' = prev /\ last' = last
    BY <1>1, <1>7 DEF AllocateNext, Crash, Goto
  <2>2. TypeOK' /\ Counted'
    BY <1>2, <1>4, <2>1 DEF TypeOK, Counted, Stages, Running, Alive
  <2>3. ~Plain
    <3>1. SUFFICES ASSUME Plain PROVE Deletable(heap, x)
      BY <1>7
    <3>2. Unlinked(heap) /\ space = Primary
      BY <1>2, <1>4, <1>6, <3>1, TwoSpaces DEF InPlace, Plain
    <3>3. x = Null \/ x \in In(heap, Primary)
      BY <1>4, <3>2, ChainLinks DEF Upper
    <3>4. QED BY <1>4, <3>2, <3>3, NullDeletable, ChainDeletable
  <2>4. QED BY <1>1, <1>2, <2>1, <2>2, <2>3, CrashStep
<1>8. CASE Deletable(heap, x)
  <2>1. PICK a \in Unused(Deleted(heap, x)) :
          heap' = With([Deleted(heap, x) EXCEPT ![cur].next[space] = a], a, l)
    BY <1>1, <1>8 DEF AllocateNext
  <2>2. /\ pc' = "vertices" /\ fine' = fine /\ coarse' = coarse /\ space' = space
        /\ cur' = cur /\ prev' = prev /\ last' = last
    BY <1>1, <1>8 DEF AllocateNext, Goto
  <2>3. heap' = Allocated(Deleted(heap, x), cur, space, a, l)
    BY <2>1 DEF Allocated
  <2>4. a \in Addresses \ DOMAIN Deleted(heap, x) /\ a \in Places /\ a # Null
    BY NullIsNoPlace DEF Unused, Places
  <2>5. /\ l \in LevelType /\ l.space = space /\ l.index = numLevels /\ l.A = NoMatrix
        /\ l.isSetup = FALSE /\ l.aggregates = 0 /\ l.next = NoNext
    BY <1>4, <1>5, NewLevelType DEF NewLevel, LevelType
  <2> HIDE DEF l
  <2>6. ASSUME TypeOK', Upper(heap', fine[Primary]), LevelsOK(heap', MinFine),
               Lower(heap', fine[O]), IsChain(NextIn(heap', O), fine[O]),
               Unlinked(heap) => Unlinked(heap'), Behind',
               In(heap', space) = (In(heap, space) \ Reach(heap, x)) \union {a},
               cur \notin Reach(heap, x), heap'[a] = l, heap'[cur] = Relinked(heap[cur], space, a)
        PROVE  HierarchyInv'
    <3>1. cur \in In(heap', space) /\ a \in In(heap', space)
      BY <1>4, <2>6
    <3>2. /\ heap'[cur].next[space] = a /\ heap'[cur].index = heap[cur].index
          /\ heap'[cur].isSetup = heap[cur].isSetup /\ heap'[cur].A = heap[cur].A
      <4>1. /\ Relinked(heap[cur], space, a).next[space] = a
            /\ Relinked(heap[cur], space, a).index = heap[cur].index
            /\ Relinked(heap[cur], space, a).isSetup = heap[cur].isSetup
            /\ Relinked(heap[cur], space, a).A = heap[cur].A
        <5>1. heap[cur] \in LevelType /\ space \in Spaces /\ a \in Places
          BY <1>4, <2>4
        <5>2. QED BY <5>1, RelinkedType
      <4>2. QED BY <4>1, <2>6
    <3>3. /\ heap'[a].isSetup = FALSE /\ heap'[a].index = numLevels
          /\ space = O => heap'[a].next[O] = Null
      BY <2>5, <2>6, TwoSpaces DEF NoNext
    <3>4. Next1' = heap'[cur].next[space] /\ MinRows' = MinRows /\ Hybrid' = Hybrid
      BY <1>2, <2>2, ConfigKept DEF Next1, MinRows
    <3>5. Working'
      BY <1>2, <1>4, <1>5, <1>6, <2>2, <3>1, <3>2, <3>3, <3>4 DEF Working
    <3>6. QED BY <1>1, <1>2, <1>3, <2>2, <2>6, <3>5, LoopStep DEF Loop
  <2>7. ASSUME HeapOK(heap') PROVE TypeOK'
    BY <1>2, <1>4, <2>2, <2>7 DEF TypeOK, Stages, Loop
  <2>8. CASE space = Primary
    <3>1. /\ HeapOK(heap') /\ Upper(heap', fine[Primary]) /\ LevelsOK(heap', MinFine)
          /\ cur \notin Reach(heap, x) /\ cur # a
          /\ In(heap', Primary) = (In(heap, Primary) \ Reach(heap, x)) \union {a}
          /\ DOMAIN heap' = (DOMAIN heap \ Reach(heap, x)) \union {a}
          /\ heap'[cur] = Relinked(heap[cur], Primary, a) /\ heap'[a] = l
          /\ \A b \in DOMAIN heap \ Reach(heap, x) : b # cur => heap'[b] = heap[b]
          /\ Unlinked(heap) => Unlinked(heap')
      <4>1. /\ cur \in In(heap, Primary) /\ heap[cur].A.rows > MinFine
            /\ heap[cur].index + 1 < MaxLevels /\ FreshLevel(l, Primary, heap[cur].index + 1)
            /\ heap[cur].isSetup
        BY <1>4, <1>5, <2>5, <2>8 DEF MinRows, FreshLevel
      <4>2. x = heap[cur].next[Primary] /\ heap' = Allocated(Deleted(heap, x), cur, Primary, a, l)
        BY <2>3, <2>8
      <4> HIDE DEF x
      <4>3. /\ HeapOK(heap) /\ Upper(heap, fine[Primary]) /\ LevelsOK(heap, MinFine)
            /\ Lower(heap, fine[O]) /\ Deletable(heap, x) /\ a \in Addresses \ DOMAIN Deleted(heap, x)
        BY <1>4, <1>8, <2>4
      <4>4. /\ Upper(heap', fine[Primary]) /\ LevelsOK(heap', MinFine)
            /\ NextReplaced(heap, heap', cur, x, a, l)
        BY <4>1, <4>2, <4>3, ReplaceNext
      <4>5. QED BY <4>4 DEF NextReplaced
    <3>2. In(heap, O) = {} /\ fine[O] = Null /\ In(heap, Primary) = DOMAIN heap
      BY <1>1, <1>3, <2>8, LoopFacts
    <3>3. In(heap', O) = {}
      BY <3>1, <3>2, TwoSpaces DEF In
    <3>4. Lower(heap', fine[O]) /\ IsChain(NextIn(heap', O), fine[O])
      BY <3>1, <3>2, <3>3, NoLower
    <3>5. Behind'
      <4>1. CASE prev = Null /\ cur = fine[Primary]
        BY <2>2, <4>1 DEF Behind
      <4>2. CASE prev \in In(heap, Primary) /\ heap[prev].next[Primary] = cur
        <5>1. prev \in DOMAIN heap /\ cur # Null
          BY <1>4, <4>2, NextInDef, LevelTypes
        <5>2. prev \notin Reach(heap, x)
          BY <1>4, <3>1, <4>2, <5>1, ReachesOn, TwoSpaces
        <5>3. prev # cur
          <6>1. SUFFICES ASSUME prev = cur PROVE FALSE
            OBVIOUS
          <6>2. x = cur
            BY <6>1, <4>2, <2>8
          <6>3. cur \in Reach(heap, cur)
            BY <1>4, <5>1, Reaching, <6>2
          <6>4. QED BY <6>2, <6>3, <3>1
        <5>4. heap'[prev] = heap[prev] /\ prev \in In(heap', Primary)
          BY <3>1, <4>2, <5>1, <5>2, <5>3
        <5>5. QED BY <2>2, <4>2, <5>4 DEF Behind
      <4>3. QED BY <1>2, <1>3, <1>4, <2>8, <4>1, <4>2 DEF Behind
    <3>6. QED BY <2>6, <2>7, <2>8, <3>1, <3>4, <3>5
  <2>9. CASE space = O
    <3>1. x = Null /\ Deleted(heap, x) = heap /\ Reach(heap, x) = {}
      BY <1>4, <1>6, <2>9, DeletedHeap, Reaching
    <3>2. /\ HeapOK(heap') /\ Upper(heap', fine[Primary]) /\ LevelsOK(heap', MinFine)
          /\ Lower(heap', fine[O]) /\ IsChain(NextIn(heap', O), fine[O])
          /\ In(heap', O) = In(heap, O) \union {a} /\ In(heap', Primary) = In(heap, Primary)
          /\ heap'[cur] = Relinked(heap[cur], O, a) /\ heap'[a] = l
          /\ Unlinked(heap) => Unlinked(heap')
      <4>1. /\ cur \in In(heap, O) /\ heap[cur].next[O] = Null /\ a \in Addresses \ DOMAIN heap
            /\ heap' = Allocated(heap, cur, O, a, l) /\ l.space = O /\ l.next = NoNext
            /\ Apart(heap) /\ l \in LevelType
        BY <1>4, <2>3, <2>4, <2>5, <2>9, <3>1 DEF Lower
      <4> HIDE DEF x
      <4>2. /\ HeapOK(heap) /\ Upper(heap, fine[Primary]) /\ LevelsOK(heap, MinFine)
            /\ IsChain(NextIn(heap, O), fine[O])
        BY <1>4
      <4>3. /\ Upper(heap', fine[Primary]) /\ LevelsOK(heap', MinFine)
            /\ Lower(heap', fine[O]) /\ IsChain(NextIn(heap', O), fine[O])
            /\ LowerAdded(heap, heap', cur, a, l)
        BY <4>1, <4>2, AddLower
      <4>4. QED BY <4>3 DEF LowerAdded
    <3>3. Behind'
      BY <2>2, <2>9, TwoSpaces DEF Behind
    <3>4. QED BY <2>6, <2>7, <2>9, <3>1, <3>2, <3>3
  <2>10. QED BY <1>4, <2>8, <2>9, TwoSpaces
<1>9. QED BY <1>7, <1>8

\* Levels linked and counted as before.
Relaid(h, g) ==
  /\ HeapOK(g) /\ DOMAIN g = DOMAIN h
  /\ \A b \in DOMAIN h : /\ g[b].space = h[b].space /\ g[b].index = h[b].index
                         /\ g[b].next = h[b].next

LEMMA RelaidKept ==
  ASSUME NEW h, NEW g, Relaid(h, g), NEW r, Upper(h, r), NEW q, Lower(h, q)
  PROVE  /\ Upper(g, r) /\ Lower(g, q)
         /\ In(g, Primary) = In(h, Primary) /\ In(g, O) = In(h, O)
         /\ NextIn(g, O) = NextIn(h, O)
         /\ Unlinked(h) => Unlinked(g)
<1>1. \A s : In(g, s) = In(h, s)
  BY DEF Relaid, In
<1>2. \A s : NextIn(g, s) = NextIn(h, s)
  <2>1. TAKE s
  <2>2. \A b \in In(h, s) : g[b].next[s] = h[b].next[s]
    BY NextInDef DEF Relaid
  <2>3. QED BY <2>2, <1>1 DEF NextIn
<1>3. \A b \in In(h, Primary) : g[b].index = h[b].index /\ g[b].next = h[b].next
  BY NextInDef DEF Relaid
<1>4. Upper(g, r)
  <2>1. r \in In(h, Primary)
    BY NextInDef DEF Upper, IsChain
  <2>2. Indexed(g, Primary)
    BY <1>1, <1>3 DEF Indexed, Upper
  <2>3. QED BY <1>2, <1>3, <2>1, <2>2 DEF Upper
<1>5. \A b \in In(h, O) : g[b].next = h[b].next
  BY NextInDef DEF Relaid
<1>6. Lower(g, q)
  BY <1>5, LowerKept DEF Relaid
<1>7. Unlinked(h) => Unlinked(g)
  BY <1>1, <1>3 DEF Unlinked
<1>8. QED BY <1>1, <1>2, <1>4, <1>6, <1>7

LEMMA CreateCoarseVerticesInv == HierarchyInv /\ CreateCoarseVertices => HierarchyInv'
<1>1. SUFFICES ASSUME HierarchyInv, CreateCoarseVertices PROVE HierarchyInv'
  OBVIOUS
<1>2. PICK c \in 1..heap[cur].A.rows : heap' = [heap EXCEPT ![cur].aggregates = c]
  BY <1>1 DEF CreateCoarseVertices
<1>3. /\ pc = "vertices" /\ pc' = "matrices" /\ prev' = prev
      /\ cfg' = cfg /\ fine' = fine /\ reuse' = reuse /\ numLevels' = numLevels
      /\ setups' = setups /\ damaged' = damaged /\ space' = space /\ cur' = cur
      /\ last' = last /\ coarse' = coarse
  BY <1>1 DEF CreateCoarseVertices, Goto
<1>4. pc \in Loop
  BY <1>3 DEF Loop
<1>5. /\ TypeOK /\ HeapOK(heap) /\ Upper(heap, fine[Primary]) /\ LevelsOK(heap, MinFine)
      /\ Lower(heap, fine[O]) /\ IsChain(NextIn(heap, O), fine[O])
      /\ Working /\ Behind /\ space \in Spaces
      /\ cur \in In(heap, space) /\ cur \in DOMAIN heap /\ heap[cur].isSetup = TRUE
      /\ heap[cur] \in LevelType
  BY <1>1, <1>4, LoopFacts DEF HierarchyInv
<1>6. c \in Nat /\ c <= heap[cur].A.rows
  BY <1>2, <1>5 DEF LevelType, MatrixType
<1>7. /\ heap'[cur] \in LevelType /\ heap'[cur].space = heap[cur].space
      /\ heap'[cur].index = heap[cur].index /\ heap'[cur].next = heap[cur].next
      /\ heap'[cur].isSetup = heap[cur].isSetup /\ heap'[cur].A = heap[cur].A
      /\ heap'[cur].aggregates = c
  BY <1>2, <1>5, <1>6 DEF LevelType
<1>8. DOMAIN heap' = DOMAIN heap /\ \A b \in DOMAIN heap : b # cur => heap'[b] = heap[b]
  BY <1>2
<1>9. HeapOK(heap')
  BY <1>2, <1>5, <1>7, <1>8 DEF HeapOK
<1>10. Relaid(heap, heap')
  BY <1>7, <1>8, <1>9 DEF Relaid
<1>11. /\ Upper(heap', fine[Primary]) /\ Lower(heap', fine[O])
       /\ In(heap', Primary) = In(heap, Primary) /\ In(heap', O) = In(heap, O)
       /\ NextIn(heap', O) = NextIn(heap, O) /\ (Unlinked(heap) => Unlinked(heap'))
  BY <1>5, <1>10, RelaidKept
<1>12. LevelsOK(heap', MinFine)
  <2>1. SUFFICES ASSUME NEW b \in In(heap, Primary) PROVE LevelOK(heap', b, MinFine)
    BY <1>11 DEF LevelsOK
  <2>2. LevelOK(heap, b, MinFine) /\ b \in DOMAIN heap
    BY <1>5, NextInDef DEF LevelsOK
  <2>3. heap[b].next[Primary] # Null => heap[b].next[Primary] \in DOMAIN heap
    BY <1>5, ChainLinks DEF Upper
  <2>4. CASE b # cur
    <3>1. heap'[b] = heap[b]
      BY <2>2, <2>4, <1>8
    <3>2. heap[b].next[Primary] # Null =>
            /\ heap'[heap[b].next[Primary]].isSetup = heap[heap[b].next[Primary]].isSetup
            /\ heap'[heap[b].next[Primary]].A = heap[heap[b].next[Primary]].A
      BY <2>3, <1>7, <1>8
    <3>3. QED BY <2>2, <3>1, <3>2 DEF LevelOK
  <2>5. CASE b = cur
    <3>1. space = Primary
      BY <1>5, <2>5, NextInDef
    <3>2. heap[cur].next[Primary] # cur /\ ~heap[heap[cur].next[Primary]].isSetup
      BY <1>3, <1>4, <1>5, <3>1 DEF Working, Next1
    <3>3. heap[cur].next[Primary] # Null => ~heap'[heap[cur].next[Primary]].isSetup
      BY <2>3, <2>5, <3>2, <1>8
    <3>4. QED BY <2>2, <2>5, <3>3, <1>5, <1>6, <1>7 DEF LevelOK
  <2>6. QED BY <2>4, <2>5
<1>13. TypeOK'
  BY <1>3, <1>5, <1>9 DEF TypeOK, Stages, Loop
<1>14. Working'
  <2>1. In(heap', space) = In(heap, space)
    BY <1>5, <1>11, TwoSpaces
  <2>2. Next1' = Next1 /\ MinRows' = MinRows /\ Hybrid' = Hybrid
    BY <1>3, <1>7, ConfigKept DEF Next1, MinRows
  <2>3. /\ Next1 \in In(heap, space) /\ heap[Next1].index = numLevels
        /\ numLevels < MaxLevels /\ heap[cur].A.rows > MinRows
        /\ space = O => Hybrid /\ heap[Next1].next[O] = Null
        /\ heap[cur].index + 1 = numLevels
    BY <1>3, <1>4, <1>5 DEF Working
  <2>4. heap'[Next1].index = heap[Next1].index /\ heap'[Next1].next = heap[Next1].next
    BY <2>3, <1>10, NextInDef DEF Relaid
  <2>5. QED BY <1>3, <1>5, <1>7, <2>1, <2>2, <2>3, <2>4 DEF Working
<1>15. Behind'
  <2>1. prev \in In(heap, Primary) => heap'[prev].next = heap[prev].next
    BY <1>10, NextInDef DEF Relaid
  <2>2. QED BY <1>3, <1>4, <1>5, <1>11, <2>1 DEF Behind
<1>16. QED BY <1>1, <1>3, <1>4, <1>5, <1>11, <1>12, <1>13, <1>14, <1>15, LoopStep DEF Loop

LEMMA SetupThrowsInv == HierarchyInv /\ SetupThrows => HierarchyInv'
<1>1. SUFFICES ASSUME HierarchyInv, SetupThrows PROVE HierarchyInv'
  OBVIOUS
<1>2. /\ pc \in Loop /\ pc' = "failed" /\ heap' = heap /\ fine' = fine /\ cfg' = cfg
      /\ coarse' = coarse /\ reuse' = reuse /\ numLevels' = numLevels /\ setups' = setups
      /\ damaged' = TRUE /\ cur' = Null /\ prev' = Null /\ space' = space /\ last' = last
  BY <1>1 DEF SetupThrows, Goto, Loop
<1>3. /\ TypeOK /\ Upper(heap, fine[Primary]) /\ LevelsOK(heap, MinFine)
      /\ Lower(heap, fine[O]) /\ IsChain(NextIn(heap, O), fine[O])
  BY <1>1, <1>2, LoopFacts
<1>4. TypeOK'
  BY <1>2, <1>3 DEF TypeOK, Stages, Places
<1>5. Working' /\ Behind'
  BY <1>2 DEF Working, Behind, Loop
<1>6. QED BY <1>1, <1>2, <1>3, <1>4, <1>5, LoopStep

\* The two levels that Descend changes.
SetUpBelow(l, c, v) == [l EXCEPT !.A = [rows |-> c, version |-> v], !.isSetup = TRUE]
SetUpAbove(l, c) == [SmootherSetUp(l) EXCEPT !.vectors = c]

IsSetUpBelow(m, l, c, v) ==
  /\ m \in LevelType /\ m.space = l.space /\ m.index = l.index /\ m.next = l.next
  /\ m.isSetup = TRUE /\ m.aggregates = l.aggregates /\ m.vectors = l.vectors
  /\ m.A = [rows |-> c, version |-> v] /\ m.A.rows = c /\ m.A.version = v
  /\ m.smoother = l.smoother

IsSetUpAbove(m, l, c) ==
  /\ m \in LevelType /\ m.space = l.space /\ m.index = l.index /\ m.next = l.next
  /\ m.isSetup = l.isSetup /\ m.aggregates = l.aggregates /\ m.vectors = c
  /\ m.A = l.A /\ m.smoother = l.A

LEMMA SetUpTypes ==
  ASSUME NEW l, l \in LevelType, NEW c, c \in Nat, NEW v, v \in Nat
  PROVE  IsSetUpBelow(SetUpBelow(l, c, v), l, c, v) /\ IsSetUpAbove(SetUpAbove(l, c), l, c)
<1>1. IsSetUpBelow(SetUpBelow(l, c, v), l, c, v)
  BY DEF IsSetUpBelow, SetUpBelow, LevelType, MatrixType
<1>2. IsSetUpAbove(SetUpAbove(l, c), l, c)
  BY DEF IsSetUpAbove, SetUpAbove, SmootherSetUp, LevelType, MatrixType
<1>3. QED BY <1>1, <1>2

\* The heap after Descend, c the level that is left and a the next.
Descended(h, g, c, a) ==
  /\ DOMAIN g = DOMAIN h
  /\ g[a] = SetUpBelow(h[a], h[c].aggregates, h[c].A.version)
  /\ g[c] = SetUpAbove(h[c], h[c].aggregates)
  /\ \A b \in DOMAIN h : b # a /\ b # c => g[b] = h[b]

LEMMA DescendHeap ==
  ASSUME HierarchyInv, Descend
  PROVE  /\ Descended(heap, heap', cur, Next1) /\ Next1 \in DOMAIN heap /\ Next1 # cur
         /\ HeapOK(heap')
         /\ IsSetUpBelow(heap'[Next1], heap[Next1], heap[cur].aggregates, heap[cur].A.version)
         /\ IsSetUpAbove(heap'[cur], heap[cur], heap[cur].aggregates)
<1>1. pc = "matrices" /\ pc \in Loop
  BY DEF Descend, Loop
<1>2. /\ TypeOK /\ HeapOK(heap) /\ Upper(heap, fine[Primary]) /\ Working
      /\ cur \in DOMAIN heap /\ heap[cur].index + 1 = numLevels /\ heap[cur] \in LevelType
  BY <1>1, LoopFacts DEF HierarchyInv
<1>3. /\ Next1 \in In(heap, space) /\ heap[Next1].index = numLevels
  BY <1>1, <1>2 DEF Working
<1>4. Next1 \in DOMAIN heap /\ numLevels \in Nat /\ heap[Next1] \in LevelType
  BY <1>2, <1>3, NextInDef, LevelTypes DEF TypeOK
<1>5. Next1 # cur
  BY <1>2, <1>3, <1>4
<1>6. heap' = [heap EXCEPT
        ![Next1].A = [rows |-> heap[cur].aggregates, version |-> heap[cur].A.version],
        ![Next1].isSetup = TRUE,
        ![cur] = [SmootherSetUp(@) EXCEPT !.vectors = heap[cur].aggregates]]
  BY DEF Descend, Next1
<1>7. Descended(heap, heap', cur, Next1)
  <2>1. DOMAIN heap' = DOMAIN heap
    BY <1>6
  <2>2. heap'[Next1] = SetUpBelow(heap[Next1], heap[cur].aggregates, heap[cur].A.version)
    BY <1>2, <1>4, <1>5, <1>6 DEF SetUpBelow
  <2>3. heap'[cur] = SetUpAbove(heap[cur], heap[cur].aggregates)
    BY <1>2, <1>4, <1>5, <1>6 DEF SetUpAbove
  <2>4. \A b \in DOMAIN heap : b # Next1 /\ b # cur => heap'[b] = heap[b]
    BY <1>6
  <2>5. QED BY <2>1, <2>2, <2>3, <2>4 DEF Descended
<1>71. /\ IsSetUpBelow(heap'[Next1], heap[Next1], heap[cur].aggregates, heap[cur].A.version)
       /\ IsSetUpAbove(heap'[cur], heap[cur], heap[cur].aggregates)
  <2>1. heap[cur].aggregates \in Nat /\ heap[cur].A.version \in Nat
    BY <1>2 DEF LevelType, MatrixType
  <2>2. /\ IsSetUpBelow(SetUpBelow(heap[Next1], heap[cur].aggregates, heap[cur].A.version),
                        heap[Next1], heap[cur].aggregates, heap[cur].A.version)
        /\ IsSetUpAbove(SetUpAbove(heap[cur], heap[cur].aggregates),
                        heap[cur], heap[cur].aggregates)
    BY <1>2, <1>4, <2>1, SetUpTypes
  <2>3. QED BY <1>7, <2>2 DEF Descended
<1>8. HeapOK(heap')
  <2>2. heap'[Next1] \in LevelType /\ heap'[cur] \in LevelType
    BY <1>71 DEF IsSetUpBelow, IsSetUpAbove
  <2>3. \A b \in DOMAIN heap : heap'[b] \in LevelType
    BY <1>2, <1>7, <2>2, LevelTypes DEF Descended
  <2>4. heap' = [b \in DOMAIN heap' |-> heap'[b]]
    BY <1>6
  <2>5. QED BY <1>2, <1>7, <2>3, <2>4 DEF HeapOK, Descended
<1>9. QED BY <1>4, <1>5, <1>7, <1>71, <1>8

LEMMA DescendInv == HierarchyInv /\ Descend => HierarchyInv'
<1>1. SUFFICES ASSUME HierarchyInv, Descend PROVE HierarchyInv'
  OBVIOUS
<1> DEFINE a == Next1
           c == heap[cur].aggregates
<1>2. /\ pc = "matrices" /\ CoarseEnough /\ pc' = "top" /\ prev' = cur /\ cur' = a
      /\ cfg' = cfg /\ fine' = fine /\ reuse' = reuse /\ numLevels' = numLevels + 1
      /\ setups' = setups /\ damaged' = damaged /\ space' = space
      /\ last' = last /\ coarse' = coarse
  BY <1>1 DEF Descend, Goto, Next1
<1>3. pc \in Loop
  BY <1>2 DEF Loop
<1>4. /\ TypeOK /\ HeapOK(heap) /\ Upper(heap, fine[Primary]) /\ LevelsOK(heap, MinFine)
      /\ Lower(heap, fine[O]) /\ IsChain(NextIn(heap, O), fine[O])
      /\ Working /\ space \in Spaces
      /\ cur \in In(heap, space) /\ cur \in DOMAIN heap /\ heap[cur].isSetup = TRUE
      /\ heap[cur] \in LevelType
  BY <1>1, <1>3, LoopFacts DEF HierarchyInv
<1>5. /\ a \in In(heap, space) /\ heap[a].index = numLevels /\ numLevels < MaxLevels
      /\ space = O => Hybrid /\ heap[a].next[O] = Null
  BY <1>2, <1>3, <1>4 DEF Working
<1>6. /\ Descended(heap, heap', cur, a) /\ a \in DOMAIN heap /\ a # cur /\ HeapOK(heap')
  BY <1>1, DescendHeap
<1>7. /\ numLevels \in Nat /\ MaxLevels \in Int /\ c \in Nat /\ heap[a] \in LevelType
      /\ heap[cur].A.version \in Nat
  BY <1>4, <1>6, LevelTypes, HierarchyAssumption DEF TypeOK
<1>8. /\ heap'[a].space = heap[a].space /\ heap'[a].index = heap[a].index
      /\ heap'[a].next = heap[a].next /\ heap'[a].aggregates = heap[a].aggregates
      /\ heap'[a].isSetup = TRUE /\ heap'[a].A.rows = c
      /\ heap'[cur].space = heap[cur].space /\ heap'[cur].index = heap[cur].index
      /\ heap'[cur].next = heap[cur].next /\ heap'[cur].aggregates = c
      /\ heap'[cur].isSetup = TRUE /\ heap'[cur].A = heap[cur].A
  BY <1>1, <1>4, DescendHeap DEF IsSetUpBelow, IsSetUpAbove
<1> HIDE DEF a
<1>9. Relaid(heap, heap')
  BY <1>6, <1>8 DEF Relaid, Descended
<1>10. /\ Upper(heap', fine[Primary]) /\ Lower(heap', fine[O])
       /\ In(heap', Primary) = In(heap, Primary) /\ In(heap', O) = In(heap, O)
       /\ NextIn(heap', O) = NextIn(heap, O) /\ (Unlinked(heap) => Unlinked(heap'))
  BY <1>4, <1>9, RelaidKept
<1>11. LevelsOK(heap', MinFine)
  <2>1. CASE space = O
    <3>1. \A b \in In(heap, Primary) : b # a /\ b # cur
      BY <1>4, <1>5, <2>1, TwoSpaces, NextInDef
    <3>2. \A b \in In(heap, Primary) : heap'[b] = heap[b]
      BY <1>6, <3>1, NextInDef DEF Descended
    <3>3. SameUpper(heap, heap')
      BY <1>10, <3>2 DEF SameUpper
    <3>4. QED BY <1>4, <3>3, LevelsKept
  <2>2. CASE space = Primary
    <3>1. SUFFICES ASSUME NEW b \in In(heap, Primary) PROVE LevelOK(heap', b, MinFine)
      BY <1>10 DEF LevelsOK
    <3>2. /\ LevelOK(heap, b, MinFine) /\ b \in DOMAIN heap
          /\ LevelOK(heap, cur, MinFine) /\ LevelOK(heap, a, MinFine)
          /\ heap[cur].next[Primary] = a
      BY <1>4, <1>5, <2>2, NextInDef DEF LevelsOK, Next1, a
    <3>3. /\ heap[b].next[Primary] # Null => heap[b].next[Primary] \in DOMAIN heap
          /\ heap[b].next[Primary] = a => b = cur
          /\ a # Null
      BY <1>4, <1>5, <1>6, <2>2, <3>2, ChainLinks, LevelTypes DEF Upper
    <3>4. CASE b = a
      <4>1. heap[a].isSetup => heap[a].A.rows = c
        BY <3>2, <3>3 DEF LevelOK
      <4>2. heap[a].aggregates <= c
        BY <1>7, <3>2, <4>1 DEF LevelOK, LevelType
      <4>3. heap[a].next[Primary] # Null =>
              /\ heap[a].isSetup
              /\ heap[a].A.rows > MinFine /\ heap[a].index + 1 < MaxLevels
              /\ heap[a].next[Primary] \in DOMAIN heap
        BY <3>2, <3>3, <3>4 DEF LevelOK
      <4>4. heap[a].next[Primary] # a
        BY <1>6, <3>3, <3>4
      <4>5. heap[a].next[Primary] # Null /\ heap[a].next[Primary] # cur =>
              heap'[heap[a].next[Primary]] = heap[heap[a].next[Primary]]
        BY <1>6, <4>3, <4>4 DEF Descended
      <4>6. heap[a].next[Primary] # Null =>
              /\ heap'[heap[a].next[Primary]].isSetup = heap[heap[a].next[Primary]].isSetup
              /\ heap'[heap[a].next[Primary]].A.rows = heap[heap[a].next[Primary]].A.rows
        BY <1>4, <1>8, <4>5
      <4>7. QED BY <1>8, <3>2, <3>4, <4>1, <4>2, <4>3, <4>6 DEF LevelOK, Shrinks
    <3>5. CASE b = cur
      <4>1. heap[cur].A.rows \in Nat /\ c <= heap[cur].A.rows
        BY <1>4, <3>2 DEF LevelOK, LevelType, MatrixType
      <4>2. 100 * c <= Threshold * heap[cur].A.rows /\ c < heap[cur].A.rows
        BY <1>2, <1>7, <4>1 DEF CoarseEnough
      <4>3. Shrinks(heap'[cur])
        BY <1>8, <4>2 DEF Shrinks
      <4>4. heap[cur].A.rows > MinFine /\ heap[cur].index + 1 < MaxLevels
        BY <3>2, <3>3 DEF LevelOK
      <4>5. QED BY <1>8, <3>2, <3>5, <4>1, <4>3, <4>4 DEF LevelOK
    <3>6. CASE b # a /\ b # cur
      <4>1. heap'[b] = heap[b]
        BY <1>6, <3>2, <3>6 DEF Descended
      <4>2. heap[b].next[Primary] # a
        BY <3>3, <3>6
      <4>3. heap[b].next[Primary] # Null =>
              /\ heap'[heap[b].next[Primary]].isSetup = heap[heap[b].next[Primary]].isSetup
              /\ heap'[heap[b].next[Primary]].A.rows = heap[heap[b].next[Primary]].A.rows
        BY <1>4, <1>6, <1>8, <3>3, <4>2 DEF Descended
      <4>4. QED BY <3>2, <4>1, <4>3 DEF LevelOK
    <3>7. QED BY <3>4, <3>5, <3>6
  <2>3. QED BY <1>4, <2>1, <2>2, TwoSpaces
<1>12. TypeOK'
  <2>1. cur' \in Places /\ prev' \in Places
    BY <1>2, <1>4, <1>6, LevelTypes DEF Places, a
  <2>2. numLevels' \in Nat
    BY <1>2, <1>7
  <2>3. QED BY <1>2, <1>4, <1>6, <2>1, <2>2 DEF TypeOK, Stages, Loop
<1>13. Working'
  <2>1. In(heap', space) = In(heap, space)
    BY <1>4, <1>10, TwoSpaces
  <2>2. Next1' = heap'[a].next[space] /\ Hybrid' = Hybrid
    BY <1>2, ConfigKept DEF Next1, a
  <2>3. QED BY <1>2, <1>5, <1>7, <1>8, <2>1, <2>2 DEF Working, a
<1>14. Behind'
  <2>1. space = Primary => heap[cur].next[Primary] = a
    BY DEF a, Next1
  <2>2. QED BY <1>2, <1>4, <1>8, <1>10, <2>1 DEF Behind, a
<1>15. numLevels' <= MaxLevels
  BY <1>2, <1>5, <1>7
<1>16. QED BY <1>1, <1>2, <1>3, <1>4, <1>10, <1>11, <1>12, <1>13, <1>14, <1>15, LoopStep DEF Loop

\* The heap after StopCoarsening: what x, the next level of c, reaches is gone.
StopHeap(h, c, s, x, smooth) ==
  LET g == Linked(Deleted(h, x), c, s, Null)
  IN  IF smooth THEN [g EXCEPT ![c] = SmootherSetUp(@)] ELSE g

Stopped(h, g, c, s, x, smooth) ==
  /\ HeapOK(g) /\ c \notin Reach(h, x) /\ DOMAIN g = DOMAIN h \ Reach(h, x)
  /\ \A b \in DOMAIN g \ {c} : g[b] = h[b]
  /\ g[c].next[s] = Null /\ \A t \in Spaces \ {s} : g[c].next[t] = h[c].next[t]
  /\ g[c].space = h[c].space /\ g[c].index = h[c].index /\ g[c].A = h[c].A
  /\ g[c].isSetup = h[c].isSetup /\ g[c].aggregates = h[c].aggregates
  /\ g[c].vectors = h[c].vectors
  /\ g[c].smoother = IF smooth THEN h[c].A ELSE h[c].smoother

LEMMA StoppedHeap ==
  ASSUME NEW h, HeapOK(h), NEW c, c \in DOMAIN h, NEW s, s \in Spaces,
         NEW x, x = h[c].next[s], Deletable(h, x), NEW smooth, smooth \in BOOLEAN
  PROVE  Stopped(h, StopHeap(h, c, s, x, smooth), c, s, x, smooth)
<1> DEFINE h1 == Deleted(h, x)
           g0 == Linked(h1, c, s, Null)
           g == StopHeap(h, c, s, x, smooth)
<1>1. c \notin Reach(h, x) /\ x \in Places /\ h[c] \in LevelType /\ Null \in Places
  BY StaysItself, LevelTypes DEF Places
<1>2. /\ HeapOK(h1) /\ DOMAIN h1 = DOMAIN h \ Reach(h, x) /\ c \in DOMAIN h1
      /\ \A b \in DOMAIN h \ Reach(h, x) : h1[b] = h[b]
  BY <1>1, DeletedHeap
<1> HIDE DEF h1
<1>3. h1[c] = h[c]
  BY <1>1, <1>2
<1>4. /\ HeapOK(g0) /\ DOMAIN g0 = DOMAIN h1
      /\ \A b \in DOMAIN h1 \ {c} : g0[b] = h1[b]
      /\ g0[c] = Relinked(h1[c], s, Null)
  BY <1>1, <1>2, LinkedHeap
<1> HIDE DEF g0
<1>5. LET m == Relinked(h[c], s, Null)
      IN  /\ m \in LevelType /\ m.space = h[c].space /\ m.index = h[c].index /\ m.A = h[c].A
          /\ m.isSetup = h[c].isSetup /\ m.smoother = h[c].smoother
          /\ m.aggregates = h[c].aggregates /\ m.vectors = h[c].vectors
          /\ m.next[s] = Null /\ \A t \in Spaces : t # s => m.next[t] = h[c].next[t]
  BY <1>1, RelinkedType
<1>6. /\ g0[c] \in LevelType /\ g0[c].space = h[c].space /\ g0[c].index = h[c].index
      /\ g0[c].A = h[c].A /\ g0[c].isSetup = h[c].isSetup
      /\ g0[c].smoother = h[c].smoother
      /\ g0[c].aggregates = h[c].aggregates /\ g0[c].vectors = h[c].vectors
      /\ g0[c].next[s] = Null /\ \A t \in Spaces : t # s => g0[c].next[t] = h[c].next[t]
  BY <1>3, <1>4, <1>5
<1>7. g = IF smooth THEN [g0 EXCEPT ![c] = SmootherSetUp(@)] ELSE g0
  BY DEF StopHeap, g0, h1
<1> HIDE DEF g
<1>8. DOMAIN g = DOMAIN h \ Reach(h, x) /\ \A b \in DOMAIN g \ {c} : g[b] = h[b]
  BY <1>2, <1>4, <1>7
<1>9. g[c] = IF smooth THEN SmootherSetUp(g0[c]) ELSE g0[c]
  BY <1>2, <1>4, <1>7
<1>10. LET m == SmootherSetUp(g0[c])
       IN  /\ m \in LevelType /\ m.space = g0[c].space /\ m.index = g0[c].index
           /\ m.A = g0[c].A /\ m.isSetup = g0[c].isSetup /\ m.smoother = g0[c].A
           /\ m.aggregates = g0[c].aggregates /\ m.vectors = g0[c].vectors
           /\ m.next = g0[c].next
  BY <1>6, SmootherSetUpType
<1>11. /\ g[c] \in LevelType /\ g[c].space = h[c].space /\ g[c].index = h[c].index
       /\ g[c].A = h[c].A /\ g[c].isSetup = h[c].isSetup
       /\ g[c].smoother = IF smooth THEN h[c].A ELSE h[c].smoother
       /\ g[c].aggregates = h[c].aggregates /\ g[c].vectors = h[c].vectors
       /\ g[c].next[s] = Null /\ \A t \in Spaces : t # s => g[c].next[t] = h[c].next[t]
  <2>1. CASE smooth
    BY <2>1, <1>6, <1>9, <1>10
  <2>2. CASE ~smooth
    BY <2>2, <1>6, <1>9
  <2>3. QED BY <2>1, <2>2
<1>12. HeapOK(g)
  <2>1. \A b \in DOMAIN g : g[b] \in LevelType
    BY <1>8, <1>11, LevelTypes
  <2>2. g = [b \in DOMAIN g |-> g[b]]
    <3>1. g0 = [b \in DOMAIN g0 |-> g0[b]]
      BY <1>4 DEF HeapOK
    <3>2. CASE smooth
      BY <1>7, <3>2
    <3>3. CASE ~smooth
      BY <1>7, <3>1, <3>3
    <3>4. QED BY <3>2, <3>3
  <2>3. DOMAIN g \subseteq Addresses
    BY <1>8 DEF HeapOK
  <2>4. QED BY <2>1, <2>2, <2>3 DEF HeapOK
<1>13. Stopped(h, g, c, s, x, smooth)
  BY <1>1, <1>8, <1>11, <1>12 DEF Stopped
<1>14. QED BY <1>13 DEF g

\* The level before c stays when what follows c goes.
LEMMA BeforeStays ==
  ASSUME NEW h, HeapOK(h), NEW c, c # Null, NEW x \in Places, x = h[c].next[Primary],
         c \notin Reach(h, x), NEW p \in In(h, Primary), h[p].next[Primary] = c
  PROVE  p \notin Reach(h, x) /\ p # c
<1>1. p \in DOMAIN h
  BY NextInDef
<1>2. p \notin Reach(h, x)
  BY <1>1, ReachesOn, TwoSpaces
<1>3. p # c
  <2>1. SUFFICES ASSUME p = c PROVE FALSE
    OBVIOUS
  <2>2. x = c
    BY <2>1
  <2>3. QED BY <2>2, Reaching
<1>4. QED BY <1>2, <1>3

LEMMA StopCoarseningInv == HierarchyInv /\ StopCoarsening => HierarchyInv'
<1>1. SUFFICES ASSUME HierarchyInv, StopCoarsening PROVE HierarchyInv'
  OBVIOUS
<1> DEFINE x == heap[cur].next[space]
           h == [Deleted(heap, x) EXCEPT ![cur].next[space] = Null]
<1>2. /\ pc = "matrices" /\ cfg' = cfg /\ reuse' = reuse
      /\ numLevels' = numLevels /\ setups' = setups /\ damaged' = damaged
  BY <1>1 DEF StopCoarsening
<1>3. pc \in Loop
  BY <1>2 DEF Loop
<1>4. /\ TypeOK /\ HeapOK(heap) /\ Upper(heap, fine[Primary]) /\ LevelsOK(heap, MinFine)
      /\ Lower(heap, fine[O]) /\ IsChain(NextIn(heap, O), fine[O])
      /\ Working /\ Behind /\ Counted /\ InPlace /\ Alive
      /\ space \in Spaces /\ cur \in In(heap, space) /\ cur \in DOMAIN heap
      /\ heap[cur].isSetup /\ heap[cur].index + 1 = numLevels
      /\ heap[cur].space = space
      /\ heap[cur] \in LevelType /\ x \in Places
  BY <1>1, <1>3, LoopFacts DEF HierarchyInv, Next1
<1>5. /\ x \in In(heap, space) /\ (space = O => heap[x].next[O] = Null /\ Hybrid)
  BY <1>2, <1>4 DEF Working, Next1, Loop
<1>6. CASE ~Deletable(heap, x) \/ ~IsCoarsest(h, cur)
  <2>1. /\ pc' = "crashed" /\ heap' = heap /\ fine' = fine /\ coarse' = coarse
        /\ space' = space /\ cur' = cur /\ prev' = prev /\ last' = last
    BY <1>1, <1>6 DEF StopCoarsening, Crash, Goto
  <2>2. TypeOK' /\ Counted'
    BY <1>2, <1>4, <2>1 DEF TypeOK, Counted, Stages, Running, Alive
  <2>3. ~Plain
    <3>1. SUFFICES ASSUME Plain PROVE Deletable(heap, x) /\ IsCoarsest(h, cur)
      BY <1>6
    <3>2. Unlinked(heap) /\ space = Primary
      BY <1>2, <1>4, <1>5, <3>1, TwoSpaces DEF InPlace, Plain
    <3>3. Deletable(heap, x)
      BY <1>4, <1>5, <3>2, ChainDeletable
    <3>4. Stopped(heap, StopHeap(heap, cur, space, x, FALSE), cur, space, x, FALSE)
      BY <1>4, <3>3, StoppedHeap
    <3>5. StopHeap(heap, cur, space, x, FALSE) = h
      BY DEF StopHeap, Linked
    <3> HIDE DEF h
    <3>6. /\ HeapOK(h) /\ cur \in DOMAIN h /\ h[cur].next[Primary] = Null
          /\ h[cur].next[O] = heap[cur].next[O]
      BY <1>4, <3>2, <3>4, <3>5, TwoSpaces DEF Stopped
    <3>7. heap[cur].next[O] = Null
      BY <1>4, <3>2 DEF Unlinked
    <3>8. \A s \in Spaces : h[cur].next[s] = Null
      BY <3>6, <3>7, TwoSpaces
    <3>9. h[cur].next \in [Spaces -> Places]
      BY <3>6, LevelTypes
    <3>10. QED BY <3>3, <3>8, <3>9 DEF IsCoarsest, NoNext
  <2>4. QED BY <1>1, <1>2, <2>1, <2>2, <2>3, CrashStep
<1>7. CASE Deletable(heap, x) /\ IsCoarsest(h, cur)
  <2>1. PICK smooth \in BOOLEAN : smooth = ~coarse[space].exists
    <3>1. (~coarse[space].exists) \in BOOLEAN
      OBVIOUS
    <3>2. QED BY <3>1
  <2>2. heap' = StopHeap(heap, cur, space, x, smooth)
    BY <1>1, <1>7, <2>1 DEF StopCoarsening, StopHeap, Linked
  <2>3. /\ pc' = "built" /\ fine' = fine /\ coarse' = coarse /\ space' = space
        /\ cur' = cur /\ prev' = prev /\ last' = last
    BY <1>1, <1>7 DEF StopCoarsening, Goto
  <2> HIDE DEF x, h
  <2>4. Stopped(heap, heap', cur, space, x, smooth)
    <3>1. x = heap[cur].next[space]
      BY DEF x
    <3>2. QED BY <1>4, <1>7, <2>2, <3>1, StoppedHeap
  <2>5. /\ HeapOK(heap') /\ cur \notin Reach(heap, x) /\ DOMAIN heap' = DOMAIN heap \ Reach(heap, x)
        /\ \A b \in DOMAIN heap' \ {cur} : heap'[b] = heap[b]
        /\ heap'[cur].next[space] = Null
        /\ \A t \in Spaces : t # space => heap'[cur].next[t] = heap[cur].next[t]
        /\ heap'[cur].space = heap[cur].space /\ heap'[cur].index = heap[cur].index
        /\ heap'[cur].A = heap[cur].A /\ heap'[cur].isSetup = heap[cur].isSetup
        /\ heap'[cur].aggregates = heap[cur].aggregates
    BY <2>4 DEF Stopped
  <2>6. TypeOK'
    BY <1>2, <1>4, <2>3, <2>5 DEF TypeOK, Stages, Loop
  <2>7. cur \in In(heap', space)
    BY <1>4, <2>5 DEF In
  <2>8. Working'
    <3>1. Next1' = heap'[cur].next[space] /\ Hybrid' = Hybrid
      BY <1>2, <2>3, ConfigKept DEF Next1
    <3>2. QED BY <1>2, <1>4, <1>5, <2>3, <2>5, <2>7, <3>1 DEF Working
  <2>9. CASE space = Primary
    <3>1. CutTo(heap, heap', cur, x)
      BY <1>7, <2>5, <2>9 DEF CutTo, x
    <3>2. Upper(heap', fine[Primary]) /\ LevelsOK(heap', MinFine) /\ Lower(heap', fine[O])
      BY <1>4, <2>9, <3>1, CutUpper
    <3>3. In(heap', O) = {} /\ fine[O] = Null
      <4>1. In(heap, O) = {} /\ fine[O] = Null
        BY <1>1, <1>3, <2>9, LoopFacts
      <4>2. QED BY <4>1, <2>5, <2>9, <1>4, TwoSpaces DEF In
    <3>4. IsChain(NextIn(heap', O), fine[O])
      BY <2>5, <3>3, NoLower
    <3>5. Unlinked(heap) => Unlinked(heap')
      <4>1. SUFFICES ASSUME Unlinked(heap), NEW b \in In(heap', Primary)
                     PROVE  heap'[b].next[O] = Null
        BY DEF Unlinked
      <4>2. heap'[b].next[O] = heap[b].next[O] /\ b \in In(heap, Primary)
        <5>1. b = cur => heap'[b].next[O] = heap[b].next[O] /\ b \in In(heap, Primary)
          BY <1>4, <2>5, <2>9, TwoSpaces
        <5>2. b # cur => heap'[b] = heap[b] /\ b \in DOMAIN heap
          BY <2>5, NextInDef
        <5>3. QED BY <5>1, <5>2 DEF In
      <4>3. QED BY <4>1, <4>2 DEF Unlinked
    <3>6. Behind'
      <4>1. CASE prev = Null /\ cur = fine[Primary]
        BY <2>3, <4>1 DEF Behind
      <4>2. CASE prev \in In(heap, Primary) /\ heap[prev].next[Primary] = cur
        <5>1. x = heap[cur].next[Primary] /\ cur # Null /\ x \in Places /\ prev \in DOMAIN heap
          BY <1>4, <2>9, <4>2, LevelTypes, NextInDef DEF x
        <5>2. prev \notin Reach(heap, x) /\ prev # cur
          BY <1>4, <2>5, <4>2, <5>1, BeforeStays
        <5>3. prev \in In(heap', Primary) /\ heap'[prev] = heap[prev]
          BY <2>5, <4>2, <5>1, <5>2 DEF In
        <5>4. QED BY <2>3, <4>2, <5>3 DEF Behind
      <4>3. QED BY <1>2, <1>3, <1>4, <2>9, <4>1, <4>2 DEF Behind
    <3>7. QED BY <1>1, <1>2, <1>3, <2>3, <2>6, <2>8, <3>2, <3>4, <3>5, <3>6, LoopStep DEF Loop
  <2>10. CASE space = O
    <3>1. x \in DOMAIN heap /\ \A s \in Spaces : heap[x].next[s] = Null
      BY <1>4, <1>5, <2>10, TwoSpaces, NextInDef DEF Lower, Apart
    <3>2. Reach(heap, x) = {x}
      BY <1>4, <3>1, SingleDeletable
    <3>3. In(heap', Primary) = In(heap, Primary) /\ \A b \in In(heap, Primary) : heap'[b] = heap[b]
      <4>1. \A b \in In(heap, Primary) : b \in DOMAIN heap' /\ b # cur
        BY <1>4, <1>5, <2>5, <2>10, <3>2, TwoSpaces DEF In
      <4>2. QED BY <1>4, <4>1, <2>5, <2>10, TwoSpaces DEF In
    <3>4. SameUpper(heap, heap')
      BY <3>3 DEF SameUpper
    <3>5. Upper(heap', fine[Primary]) /\ LevelsOK(heap', MinFine)
      BY <1>4, <3>4, UpperKept, LevelsKept
    <3>6. CutIn(heap, heap', O, cur, x)
      <4>1. \A b \in DOMAIN heap' : heap'[b].space = heap[b].space
        BY <2>5
      <4>2. QED BY <1>7, <2>5, <2>10, <4>1 DEF CutIn, x
    <3>7. IsChain(NextIn(heap', O), fine[O])
      BY <1>4, <2>10, <3>6, CutHeap
    <3>8. Apart(heap')
      <4>1. SUFFICES ASSUME NEW b \in In(heap', O) PROVE heap'[b].next[Primary] = Null
        BY DEF Apart
      <4>2. CASE b = cur
        BY <1>4, <2>5, <2>10, <4>2, TwoSpaces DEF Lower, Apart
      <4>3. CASE b # cur
        <5>1. heap'[b] = heap[b] /\ b \in In(heap, O)
          BY <2>5, <4>3 DEF In
        <5>2. QED BY <1>4, <5>1 DEF Lower, Apart
      <4>4. QED BY <4>2, <4>3
    <3>9. Lower(heap', fine[O])
      BY <2>5, <3>7, <3>8, ChainIsLower
    <3>10. Unlinked(heap) => Unlinked(heap')
      BY <3>3 DEF Unlinked
    <3>11. Behind'
      BY <2>3, <2>10, TwoSpaces DEF Behind
    <3>12. QED BY <1>1, <1>2, <1>3, <2>3, <2>6, <2>8, <3>5, <3>7, <3>9, <3>10, <3>11, LoopStep DEF Loop
  <2>11. QED BY <1>4, <2>9, <2>10, TwoSpaces
<1>8. QED BY <1>6, <1>7

\* The level the loop ends at is the last of its memory space.
LEMMA CoarsestIsCur ==
  ASSUME HierarchyInv, pc = "built"
  PROVE  Coarsest(cur, space) = cur
<1>1. /\ HeapOK(heap) /\ space \in Spaces /\ cur \in DOMAIN heap
  BY LoopFacts DEF Loop
<1>2. heap[cur].next[space] = Null /\ cur \in Addresses /\ cur # Null
  BY <1>1, LevelTypes DEF HierarchyInv, Working, Next1, Loop
<1>3. Links(heap, cur, {space}) = {}
  BY <1>1, <1>2, LinksTyped
<1>4. Chain(cur, space) = {cur}
  <2>1. {cur} \in SUBSET Addresses /\ Follows(heap, {space}, {cur})
    BY <1>2, <1>3 DEF Follows
  <2>2. QED BY <1>2, <2>1 DEF Chain, Closure
<1>5. QED BY <1>2, <1>4 DEF Coarsest

LEMMA SetupCoarseSolverInv == HierarchyInv /\ SetupCoarseSolver => HierarchyInv'
<1>1. SUFFICES ASSUME HierarchyInv, SetupCoarseSolver PROVE HierarchyInv'
  OBVIOUS
<1>2. /\ pc = "built" /\ (Hybrid => space # Primary)
      /\ heap' = heap /\ fine' = fine /\ cfg' = cfg /\ reuse' = reuse
      /\ numLevels' = numLevels /\ setups' = setups /\ damaged' = damaged
      /\ space' = space /\ last' = last
      /\ coarse' = IF coarse[space].exists
                     THEN [coarse EXCEPT ![space].A = heap[Coarsest(cur, space)].A] ELSE coarse
      /\ \/ cfg.hostRows > 0 /\ pc' = "split" /\ cur' = cur /\ prev' = prev
         \/ ~(cfg.hostRows > 0) /\ pc' = "ready" /\ cur' = Null /\ prev' = Null
  BY <1>1 DEF SetupCoarseSolver, Finish, Goto
<1>3. pc \in Loop
  BY <1>2 DEF Loop
<1>4. /\ TypeOK /\ Upper(heap, fine[Primary]) /\ LevelsOK(heap, MinFine)
      /\ Lower(heap, fine[O]) /\ IsChain(NextIn(heap, O), fine[O])
      /\ Alive /\ Running /\ Counted /\ InPlace /\ space \in Spaces
      /\ heap[cur] \in LevelType
      /\ space = O => Hybrid
      /\ space = Primary => fine[O] = Null
  BY <1>1, <1>3, LoopFacts
<1>5. TypeOK'
  <2>1. heap[Coarsest(cur, space)].A \in MatrixType
    BY <1>1, <1>2, <1>4, CoarsestIsCur DEF LevelType
  <2>2. coarse' \in [Spaces -> [exists : BOOLEAN, A : MatrixType]]
    BY <1>2, <1>4, <2>1 DEF TypeOK
  <2>3. QED BY <1>2, <1>4, <2>2 DEF TypeOK, Stages, Places
<1>6. cfg.hostRows > 0 => ~Hybrid /\ space = Primary
  BY <1>4, ConfigTyped, TwoSpaces DEF TypeOK
<1>7. Structure'
  <2>1. Single' => space = Primary
    BY <1>2 DEF Single
  <2>2. QED BY <1>2, <1>4, <2>1, StructureStep
<1>8. Working' /\ Behind'
  BY <1>2 DEF Working, Behind, Loop
<1>9. Copying'
  <2>1. Hybrid' = Hybrid /\ cfg'.hostRows = cfg.hostRows
    BY <1>2, ConfigKept
  <2>2. QED BY <1>2, <1>6, <2>1 DEF Copying
<1>10. Counted'
  BY <1>2, <1>4 DEF Counted
<1>11. InPlace'
  <2>1. Plain => fine[O] = Null
    BY <1>4, TwoSpaces DEF Plain
  <2>2. QED BY <1>2, <1>4, <2>1, InPlaceStep
<1>12. QED BY <1>5, <1>7, <1>8, <1>9, <1>10, <1>11 DEF HierarchyInv

\* A level that v in the other space follows.
Crossed(l, v) == [l EXCEPT !.next = NextAcross(v)]

IsCrossed(m, l, v) ==
  /\ m \in LevelType /\ m.space = l.space /\ m.index = l.index /\ m.A = l.A
  /\ m.isSetup = l.isSetup /\ m.smoother = l.smoother
  /\ m.aggregates = l.aggregates /\ m.vectors = l.vectors
  /\ m.next[Primary] = Null /\ m.next[O] = v

LEMMA CrossedType ==
  ASSUME NEW l, l \in LevelType, NEW v, v \in Places
  PROVE  IsCrossed(Crossed(l, v), l, v)
<1>1. NextAcross(v) \in [Spaces -> Places] /\ NextAcross(v)[Primary] = Null /\ NextAcross(v)[O] = v
  BY TwoSpaces DEF NextAcross, Places
<1>2. QED BY <1>1 DEF IsCrossed, Crossed, LevelType

\* A level is added where nothing leads to it.
LEMMA AddedHeap ==
  ASSUME NEW h, HeapOK(h), NEW a \in Addresses \ DOMAIN h, NEW l, l \in LevelType
  PROVE  /\ HeapOK(With(h, a, l)) /\ DOMAIN With(h, a, l) = DOMAIN h \union {a}
         /\ With(h, a, l)[a] = l
         /\ \A b \in DOMAIN h : With(h, a, l)[b] = h[b]
<1> DEFINE g == With(h, a, l)
<1>1. /\ DOMAIN g = DOMAIN h \union {a} /\ g[a] = l
      /\ \A b \in DOMAIN h : g[b] = h[b]
  BY DEF With
<1>2. g = [b \in DOMAIN g |-> g[b]]
  BY DEF With
<1>3. \A b \in DOMAIN g : g[b] \in LevelType
  BY <1>1, LevelTypes
<1>4. HeapOK(g)
  BY <1>1, <1>2, <1>3 DEF HeapOK
<1>5. QED BY <1>1, <1>4

RootAdded(h, g, a, l) ==
  /\ HeapOK(g) /\ DOMAIN g = DOMAIN h \union {a} /\ g[a] = l
  /\ In(g, O) = {a} /\ In(g, Primary) = In(h, Primary)
  /\ \A b \in DOMAIN h : g[b] = h[b]
  /\ Unlinked(h) => Unlinked(g)

\* The first level of the other space.
LEMMA AddRoot ==
  ASSUME NEW h, HeapOK(h), NEW r, Upper(h, r), NEW k, LevelsOK(h, k), In(h, O) = {},
         NEW a \in Addresses \ DOMAIN h,
         NEW l, l \in LevelType, l.space = O, l.next = NoNext
  PROVE  /\ Upper(With(h, a, l), r) /\ LevelsOK(With(h, a, l), k)
         /\ Lower(With(h, a, l), a) /\ IsChain(NextIn(With(h, a, l), O), a)
         /\ RootAdded(h, With(h, a, l), a, l)
<1> DEFINE g == With(h, a, l)
<1>1. /\ HeapOK(g) /\ DOMAIN g = DOMAIN h \union {a} /\ g[a] = l
      /\ \A b \in DOMAIN h : g[b] = h[b]
  BY AddedHeap
<1> HIDE DEF g
<1>2. g[a].space = O /\ g[a].next[O] = Null /\ g[a].next[Primary] = Null
      /\ O \in Spaces /\ O # Primary
  BY <1>1, TwoSpaces DEF NoNext
<1>3. IsChain(NextIn(g, O), a) /\ In(g, O) = {a}
  <2>1. \A b \in DOMAIN h : g[b].space = h[b].space
    BY <1>1
  <2>2. QED BY <2>1, <1>1, <1>2, RootHeap
<1>4. In(g, Primary) = In(h, Primary)
  BY <1>1, <1>2 DEF In
<1>5. \A b \in In(h, Primary) : g[b] = h[b]
  BY <1>1, NextInDef
<1>6. SameUpper(h, g)
  BY <1>4, <1>5 DEF SameUpper
<1>7. Upper(g, r) /\ LevelsOK(g, k)
  BY <1>6, UpperKept, LevelsKept
<1>8. Apart(g)
  BY <1>2, <1>3 DEF Apart
<1>9. Lower(g, a)
  BY <1>1, <1>3, <1>8, ChainIsLower
<1>10. Unlinked(h) => Unlinked(g)
  BY <1>4, <1>5 DEF Unlinked
<1>11. RootAdded(h, g, a, l)
  BY <1>1, <1>3, <1>4, <1>10 DEF RootAdded
<1>12. QED BY <1>3, <1>7, <1>9, <1>11 DEF g

\* What follows c in the mode's space is deleted, and v takes its place.
CrossHeap(h, c, x, v) == [Deleted(h, x) EXCEPT ![c].next = NextAcross(v)]

IsCrossHeap(h, g, c, x, v) ==
  /\ HeapOK(g) /\ CutTo(h, g, c, x) /\ c \notin Reach(h, x)
  /\ g[c].next[O] = v /\ c \in DOMAIN g /\ g[c] = Crossed(h[c], v)

LEMMA CrossedHeap ==
  ASSUME NEW h, HeapOK(h), NEW c \in In(h, Primary),
         NEW x, x = h[c].next[Primary], Deletable(h, x), NEW v, v \in Places
  PROVE  IsCrossHeap(h, CrossHeap(h, c, x, v), c, x, v)
<1> DEFINE d == Deleted(h, x)
           g == CrossHeap(h, c, x, v)
<1>1. c \in DOMAIN h /\ h[c] \in LevelType /\ Primary \in Spaces
  BY NextInDef, LevelTypes, TwoSpaces
<1>2. c \notin Reach(h, x) /\ x \in Places
  BY <1>1, StaysItself
<1>3. /\ HeapOK(d) /\ DOMAIN d = DOMAIN h \ Reach(h, x) /\ c \in DOMAIN d
      /\ \A b \in DOMAIN d : d[b] = h[b]
  BY <1>1, <1>2, DeletedHeap
<1>4. d[c] = h[c]
  BY <1>3
<1> HIDE DEF d
<1>5. /\ DOMAIN g = DOMAIN d
      /\ \A b \in DOMAIN d \ {c} : g[b] = d[b]
      /\ g[c] = Crossed(h[c], v)
      /\ g = [b \in DOMAIN g |-> g[b]]
  BY <1>3, <1>4 DEF CrossHeap, Crossed, d
<1> HIDE DEF g
<1>6. IsCrossed(g[c], h[c], v)
  BY <1>1, <1>5, CrossedType
<1>7. HeapOK(g)
  <2>1. \A b \in DOMAIN d : g[b] \in LevelType
    BY <1>3, <1>5, <1>6, LevelTypes DEF IsCrossed
  <2>2. QED BY <1>3, <1>5, <2>1 DEF HeapOK
<1>8. \A b \in DOMAIN g \ {c} : g[b] = h[b]
  BY <1>3, <1>5
<1>9. CutTo(h, g, c, x)
  BY <1>3, <1>5, <1>6, <1>8 DEF CutTo, IsCrossed
<1>10. g[c].next[O] = v /\ c \in DOMAIN g
  BY <1>3, <1>5, <1>6 DEF IsCrossed
<1>11. IsCrossHeap(h, g, c, x, v)
  BY <1>2, <1>5, <1>7, <1>9, <1>10 DEF IsCrossHeap
<1>12. QED BY <1>11 DEF g

\* The level l at a takes the place of x after p, or stands alone.
SwitchHeap(h, p, x, a, l) ==
  LET g == With(Deleted(h, x), a, l)
  IN  IF p = Null THEN g ELSE [g EXCEPT ![p].next = NextAcross(a)]

Switched(g, a, l) == HeapOK(g) /\ In(g, O) = {a} /\ g[a] = l

LEMMA SwitchedHeap ==
  ASSUME NEW h, HeapOK(h), NEW r, Upper(h, r), NEW k, LevelsOK(h, k), NEW q, Lower(h, q),
         In(h, O) = {}, NEW p, p = Null \/ p \in In(h, Primary),
         NEW x, x = IF p = Null THEN Null ELSE h[p].next[Primary], Deletable(h, x),
         NEW a \in Addresses \ DOMAIN h,
         NEW l, l \in LevelType, l.space = O, l.next = NoNext
  PROVE  LET g == SwitchHeap(h, p, x, a, l)
         IN  /\ Upper(g, r) /\ LevelsOK(g, k) /\ Lower(g, a) /\ IsChain(NextIn(g, O), a)
             /\ Switched(g, a, l)
<1>1. CASE p = Null
  <2>1. SwitchHeap(h, p, x, a, l) = With(h, a, l)
    BY <1>1, DeletedHeap DEF SwitchHeap, Places
  <2>2. /\ Upper(With(h, a, l), r) /\ LevelsOK(With(h, a, l), k)
        /\ Lower(With(h, a, l), a) /\ IsChain(NextIn(With(h, a, l), O), a)
        /\ RootAdded(h, With(h, a, l), a, l)
    BY AddRoot
  <2>3. Switched(With(h, a, l), a, l)
    BY <2>2 DEF RootAdded, Switched
  <2>4. QED BY <2>1, <2>2, <2>3
<1>2. CASE p # Null
  <2> DEFINE d == CrossHeap(h, p, x, a)
  <2>1. p \in In(h, Primary) /\ x = h[p].next[Primary] /\ a \in Places
    BY <1>2 DEF Places
  <2>2. IsCrossHeap(h, d, p, x, a)
    BY <2>1, CrossedHeap
  <2>3. /\ HeapOK(d) /\ CutTo(h, d, p, x) /\ p \in DOMAIN d
        /\ DOMAIN d = DOMAIN h \ Reach(h, x)
    BY <2>2 DEF IsCrossHeap, CutTo
  <2>4. p # a
    BY <2>1, NextInDef
  <2>5. SwitchHeap(h, p, x, a, l) = With(d, a, l)
    <3>1. DOMAIN Deleted(h, x) = DOMAIN d
      BY DEF CrossHeap
    <3>2. QED BY <1>2, <2>3, <2>4, <3>1 DEF SwitchHeap, CrossHeap, With
  <2> HIDE DEF d
  <2>6. Upper(d, r) /\ LevelsOK(d, k) /\ In(d, O) = In(h, O) \ Reach(h, x)
    BY <2>1, <2>3, CutUpper
  <2>7. In(d, O) = {} /\ a \in Addresses \ DOMAIN d
    BY <2>3, <2>6
  <2>8. /\ Upper(With(d, a, l), r) /\ LevelsOK(With(d, a, l), k)
        /\ Lower(With(d, a, l), a) /\ IsChain(NextIn(With(d, a, l), O), a)
        /\ RootAdded(d, With(d, a, l), a, l)
    BY <2>3, <2>6, <2>7, AddRoot
  <2>9. Switched(With(d, a, l), a, l)
    BY <2>8 DEF RootAdded, Switched
  <2>10. QED BY <2>5, <2>8, <2>9
<1>3. QED BY <1>1, <1>2

\* The copy of a level in the other space.
SwitchedLevel(l) ==
  [NewLevel(O) EXCEPT !.A = l.A, !.index = l.index, !.isSetup = TRUE]

LEMMA SwitchedLevelType ==
  ASSUME NEW l, l \in LevelType
  PROVE  /\ SwitchedLevel(l) \in LevelType
         /\ SwitchedLevel(l).space = O /\ SwitchedLevel(l).next = NoNext
         /\ SwitchedLevel(l).index = l.index /\ SwitchedLevel(l).A = l.A
         /\ SwitchedLevel(l).isSetup = TRUE
<1>1. NewLevel(O) \in LevelType /\ NewLevel(O).space = O /\ NewLevel(O).next = NoNext
  BY NewLevelType, TwoSpaces
<1>2. QED BY <1>1 DEF SwitchedLevel, LevelType

LEMMA SwitchSpaceInv == HierarchyInv /\ SwitchSpace => HierarchyInv'
<1>1. SUFFICES ASSUME HierarchyInv, SwitchSpace PROVE HierarchyInv'
  OBVIOUS
<1> DEFINE x == IF prev = Null THEN Null ELSE heap[prev].next[Primary]
           l == SwitchedLevel(heap[cur])
<1>2. /\ pc = "built" /\ Hybrid /\ space = Primary
      /\ cfg' = cfg /\ reuse' = reuse /\ numLevels' = numLevels
      /\ setups' = setups /\ damaged' = damaged
  BY <1>1 DEF SwitchSpace
<1>3. pc \in Loop
  BY <1>2 DEF Loop
<1>4. /\ TypeOK /\ HeapOK(heap)
      /\ Upper(heap, fine[Primary]) /\ LevelsOK(heap, MinFine) /\ Lower(heap, fine[O])
      /\ Counted /\ Running /\ In(heap, O) = {} /\ cur \in In(heap, Primary)
      /\ heap[cur] \in LevelType /\ heap[cur].index + 1 = numLevels /\ cur \in DOMAIN heap
  BY <1>1, <1>2, <1>3, LoopFacts
<1>5. Counted'
  BY <1>2, <1>4 DEF Counted
<1>6. ~Plain
  BY <1>2 DEF Plain
<1>7. CASE ~Deletable(heap, x)
  <2>1. /\ pc' = "crashed" /\ heap' = heap /\ fine' = fine /\ coarse' = coarse
        /\ space' = space /\ cur' = cur /\ prev' = prev /\ last' = last
    BY <1>1, <1>7 DEF SwitchSpace, Crash, Goto
  <2>2. TypeOK'
    BY <1>2, <1>4, <2>1 DEF TypeOK, Stages
  <2>3. QED BY <1>1, <1>2, <1>5, <1>6, <2>1, <2>2, CrashStep
<1>8. CASE Deletable(heap, x)
  <2>1. PICK a \in Unused(heap) :
          /\ heap' = SwitchHeap(heap, prev, x, a, l)
          /\ fine' = [fine EXCEPT ![O] = a] /\ cur' = a
    BY <1>1, <1>8 DEF SwitchSpace, SwitchHeap, SwitchedLevel, O
  <2>2. /\ prev' = Null /\ space' = O /\ pc' = "top"
        /\ coarse' = coarse /\ last' = last
    BY <1>1, <1>8 DEF SwitchSpace, Goto, O
  <2>3. /\ l \in LevelType /\ l.space = O /\ l.next = NoNext
        /\ l.index + 1 = numLevels /\ l.isSetup
    BY <1>4, SwitchedLevelType
  <2>4. prev = Null \/ prev \in In(heap, Primary)
    BY <1>1, <1>2, <1>3, <1>4 DEF HierarchyInv, Behind
  <2>5. a \in Addresses \ DOMAIN heap
    BY <2>1 DEF Unused
  <2> HIDE DEF l
  <2>6. /\ Upper(heap', fine[Primary]) /\ LevelsOK(heap', MinFine)
        /\ Lower(heap', a) /\ IsChain(NextIn(heap', O), a) /\ Switched(heap', a, l)
    BY <1>4, <1>8, <2>1, <2>3, <2>4, <2>5, SwitchedHeap
  <2>7. HeapOK(heap') /\ In(heap', O) = {a} /\ heap'[a] = l
    BY <2>6 DEF Switched
  <2>8. fine'[Primary] = fine[Primary] /\ fine'[O] = a
        /\ fine' \in [Spaces -> Places] /\ a \in Places /\ Null \in Places
    BY <1>4, <2>1, <2>5, TwoSpaces DEF TypeOK, Places
  <2>9. TypeOK'
    BY <1>2, <1>4, <2>1, <2>2, <2>7, <2>8, TwoSpaces DEF TypeOK, Stages, Loop
  <2>10. Structure'
    <3>1. ~Single'
      BY <2>2, TwoSpaces DEF Single
    <3>2. QED BY <1>2, <2>2, <2>6, <2>8, <3>1, StructureStep
  <2>11. Working'
    <3>1. cur' \in In(heap', space') /\ heap'[cur'].index + 1 = numLevels'
          /\ heap'[cur'].isSetup /\ Hybrid'
      BY <1>2, <2>1, <2>2, <2>3, <2>7, ConfigKept
    <3>2. Next1' = Null
      BY <2>1, <2>2, <2>3, <2>7, TwoSpaces DEF Next1, NoNext
    <3>3. QED BY <2>2, <3>1, <3>2 DEF Working
  <2>12. Behind' /\ Copying'
    BY <2>2, TwoSpaces DEF Behind, Copying
  <2>13. InPlace'
    BY <1>2, <1>6, ConfigKept DEF InPlace
  <2>14. QED BY <1>5, <2>9, <2>10, <2>11, <2>12, <2>13 DEF HierarchyInv
<1>9. QED BY <1>7, <1>8

\* The chain of a memory space is all levels in it.
LEMMA WholeChain ==
  ASSUME NEW h, HeapOK(h), NEW s \in Spaces, NEW r \in Addresses,
         IsChain(NextIn(h, s), r)
  PROVE  Closure(h, r, {s}) = In(h, s)
<1> DEFINE n == NextIn(h, s)
           Closed == {R \in SUBSET Addresses : {r} \ {Null} \subseteq R /\ Follows(h, {s}, R)}
<1>1. /\ In(h, s) \subseteq DOMAIN h /\ DOMAIN h \subseteq Addresses
      /\ DOMAIN n = In(h, s) /\ \A b \in In(h, s) : n[b] = h[b].next[s]
  BY NextInDef DEF HeapOK
<1>2. Closure(h, r, {s}) = {b \in Addresses : \A R \in Closed : b \in R}
  BY DEF Closure
<1>3. r # Null /\ r \in In(h, s)
  BY NullIsNoPlace, ChainLinks
<1>4. In(h, s) \in Closed
  <2>1. Follows(h, {s}, In(h, s))
    <3>1. SUFFICES ASSUME NEW b \in In(h, s), NEW y \in Links(h, b, {s})
                   PROVE  y \in In(h, s)
      BY DEF Follows
    <3>2. y # Null /\ h[b].next[s] = y
      BY <1>1, LinksTyped
    <3>3. QED BY <3>2, ChainLinks
  <2>2. QED BY <1>1, <1>3, <2>1
<1>5. ASSUME NEW R \in Closed PROVE In(h, s) \subseteq R
  <2> DEFINE T == R \intersect In(h, s)
  <2>1. T \in SUBSET DOMAIN n /\ (r \in DOMAIN n => r \in T)
    BY <1>1, <1>3
  <2>2. \A b \in T : n[b] \in DOMAIN n => n[b] \in T
    <3>1. SUFFICES ASSUME NEW b \in T, n[b] \in In(h, s) PROVE n[b] \in R
      BY <1>1
    <3>2. h[b].next[s] # Null /\ b \in DOMAIN h /\ n[b] = h[b].next[s]
      BY <3>1, <1>1, NullIsNoPlace
    <3>3. n[b] \in Links(h, b, {s})
      BY <3>2, LinksTyped
    <3>4. QED BY <3>3 DEF Follows
  <2>3. T = DOMAIN n
    <3> HIDE DEF T, n
    <3>1. Rooted(n, r)
      BY DEF IsChain, n
    <3>2. QED BY <2>1, <2>2, <3>1 DEF Rooted
  <2>4. QED BY <2>3, <1>1
<1>6. QED
  <2> HIDE DEF Closed
  <2>1. QED BY <1>1, <1>2, <1>4, <1>5

\* Among levels of the mode's space one is the first.
LEMMA FirstLevel ==
  ASSUME NEW h, HeapOK(h), NEW r, Upper(h, r), NEW S \in SUBSET In(h, Primary), S # {}
  PROVE  \E a \in S : \A b \in S : h[a].index <= h[b].index
<1>1. SUFFICES ASSUME \A a \in S : \E b \in S : ~(h[a].index <= h[b].index) PROVE FALSE
  OBVIOUS
<1> DEFINE n == NextIn(h, Primary)
           W == {b \in In(h, Primary) : \A c \in S : h[b].index < h[c].index}
<1>2. /\ DOMAIN n = In(h, Primary) /\ \A b \in In(h, Primary) : n[b] = h[b].next[Primary]
      /\ \A b \in In(h, Primary) : h[b].index \in Nat
  BY NextInDef, LevelTypes
<1>3. r \in In(h, Primary) /\ h[r].index = 0
  BY ChainLinks DEF Upper
<1>4. r \in W
  <2>1. SUFFICES ASSUME NEW c \in S PROVE 0 < h[c].index
    BY <1>3
  <2>2. PICK b \in S : ~(h[c].index <= h[b].index)
    BY <1>1
  <2>3. h[b].index \in Nat /\ h[c].index \in Nat
    BY <1>2
  <2>4. QED BY <2>2, <2>3
<1>5. ASSUME NEW b \in W, n[b] \in DOMAIN n PROVE n[b] \in W
  <2>1. h[n[b]].index = h[b].index + 1
    BY <1>2, <1>5 DEF Upper, Indexed
  <2>2. SUFFICES ASSUME NEW c \in S PROVE h[b].index + 1 < h[c].index
    BY <1>2, <1>5, <2>1
  <2>3. PICK e \in S : ~(h[c].index <= h[e].index)
    BY <1>1
  <2>4. /\ h[b].index \in Nat /\ h[c].index \in Nat /\ h[e].index \in Nat
        /\ h[b].index < h[e].index
    BY <1>2
  <2>5. QED BY <2>3, <2>4
<1>6. W = DOMAIN n
  <2>1. W \in SUBSET DOMAIN n
    BY <1>2
  <2> HIDE DEF W, n
  <2>2. Rooted(n, r)
    BY DEF Upper, IsChain, n
  <2>3. QED BY <2>1, <2>2, <1>4, <1>5 DEF Rooted
<1>7. PICK c \in S : TRUE
  OBVIOUS
<1>8. QED BY <1>2, <1>6, <1>7

LEMMA SplitInv == HierarchyInv /\ Split => HierarchyInv'
<1>1. SUFFICES ASSUME HierarchyInv, Split PROVE HierarchyInv'
  OBVIOUS
<1> DEFINE R == Chain(fine[Primary], Primary)
           Small == {a \in R : heap[a].A.rows <= cfg.hostRows}
           Splits(a) == \A b \in Small : heap[a].index <= heap[b].index
<1>2. /\ pc = "split" /\ prev' = Null /\ first' = Null
      /\ cfg' = cfg /\ heap' = heap /\ fine' = fine /\ coarse' = coarse /\ reuse' = reuse
      /\ numLevels' = numLevels /\ setups' = setups /\ damaged' = damaged /\ space' = space
  BY <1>1 DEF Split
<1>3. /\ TypeOK /\ HeapOK(heap) /\ Alive /\ Running
      /\ Upper(heap, fine[Primary]) /\ LevelsOK(heap, MinFine) /\ Lower(heap, fine[O])
      /\ IsChain(NextIn(heap, O), fine[O])
      /\ fine[O] = Null /\ fine[Primary] \in In(heap, Primary)
      /\ space = Primary /\ ~Hybrid /\ cfg.hostRows > 0 /\ Counted /\ InPlace
  BY <1>1, <1>2, AliveFacts, SingleFacts DEF HierarchyInv, Copying
<1>4. R = In(heap, Primary) /\ In(heap, Primary) \subseteq Addresses
  <2>1. In(heap, Primary) \subseteq Addresses
    BY <1>3, NextInDef DEF HeapOK
  <2>2. QED BY <1>3, <2>1, WholeChain, TwoSpaces DEF Chain, Upper
<1> HIDE DEF R
<1>5. /\ pc' \in {"copy", "ready"} 
      /\ cur' \in In(heap, Primary) \union {Null}
      /\ last' \in Places /\ (pc' = "copy" => last' \in In(heap, Primary) \union {Null})
  <2>1. CASE Small = {}
    <3>1. pc' = "ready" /\ cur' = Null /\ last' = last
      BY <1>1, <2>1 DEF Split, Goto, R
    <3>2. QED BY <3>1, <1>3 DEF TypeOK
  <2>2. CASE Small # {}
    <3> DEFINE a == CHOOSE b \in Small : Splits(b)
               b0 == CHOOSE b \in R : heap[b].next[Primary] = a
    <3>1. /\ pc' = "copy" /\ cur' = a
          /\ last' = IF a = fine[Primary] THEN Null ELSE b0
      BY <1>1, <2>2 DEF Split, Goto, R
    <3>2. a \in Small
      <4>1. Small \in SUBSET In(heap, Primary)
        BY <1>4
      <4>2. \E b \in Small : Splits(b)
        <5> HIDE DEF Small
        <5>1. QED BY <1>3, <2>2, <4>1, FirstLevel
      <4>3. QED BY <4>2
    <3> HIDE DEF a
    <3>3. a \in In(heap, Primary)
      BY <3>2, <1>4
    <3>4. a # fine[Primary] => b0 \in R
      <4>1. SUFFICES ASSUME a # fine[Primary] PROVE \E b \in R : heap[b].next[Primary] = a
        OBVIOUS
      <4>2. /\ DOMAIN NextIn(heap, Primary) = In(heap, Primary)
            /\ \A b \in In(heap, Primary) : NextIn(heap, Primary)[b] = heap[b].next[Primary]
        BY NextInDef
      <4>3. \E b \in In(heap, Primary) : NextIn(heap, Primary)[b] = a
        BY <1>3, <3>3, <4>1, <4>2, HasPredecessor DEF Upper
      <4>4. QED BY <1>4, <4>2, <4>3
    <3>5. QED BY <1>4, <3>1, <3>3, <3>4 DEF Places
  <2>3. QED BY <2>1, <2>2
<1>6. TypeOK'
  <2>1. cur' \in Places /\ prev' \in Places /\ last' \in Places
    BY <1>2, <1>4, <1>5 DEF Places
  <2>2. QED BY <1>2, <1>3, <1>5, <2>1 DEF TypeOK, Stages
<1>7. Structure'
  BY <1>2, <1>3, <1>5, StructureStep, CopyingStep
<1>8. Working' /\ Behind'
  BY <1>5 DEF Working, Behind, Loop
<1>9. Copying'
  BY <1>2, <1>3, <1>5, ConfigKept DEF Copying, Places
<1>10. Counted'
  BY <1>2, <1>3 DEF Counted
<1>11. InPlace'
  BY <1>2, <1>3, <1>5, InPlaceStep
<1>12. QED BY <1>6, <1>7, <1>8, <1>9, <1>10, <1>11 DEF HierarchyInv

\* The copy of a level on the host, with its smoother or without.
CopiedLevel(l, drop) ==
  LET copy == [l EXCEPT !.space = O, !.next = NoNext, !.smoother = NoMatrix]
  IN  IF drop THEN copy ELSE SmootherSetUp(copy)

LEMMA CopiedLevelType ==
  ASSUME NEW l, l \in LevelType, NEW drop
  PROVE  LET m == CopiedLevel(l, drop)
         IN  m \in LevelType /\ m.space = O /\ m.next = NoNext
<1> DEFINE copy == [l EXCEPT !.space = O, !.next = NoNext, !.smoother = NoMatrix]
<1>1. copy \in LevelType /\ copy.space = O /\ copy.next = NoNext
  BY TwoSpaces DEF LevelType, NoNext, NoMatrix, MatrixType, Places
<1> HIDE DEF copy
<1>2. LET m == SmootherSetUp(copy)
      IN  m \in LevelType /\ m.space = O /\ m.next = NoNext
  BY <1>1, SmootherSetUpType
<1>3. CopiedLevel(l, drop) = copy \/ CopiedLevel(l, drop) = SmootherSetUp(copy)
  BY DEF CopiedLevel, copy
<1>4. QED BY <1>1, <1>2, <1>3

\* What the copying of host levels knows.
LEMMA CopyFacts ==
  ASSUME HierarchyInv, pc = "copy"
  PROVE  /\ TypeOK /\ HeapOK(heap) /\ Alive /\ Running /\ Counted /\ InPlace
         /\ Upper(heap, fine[Primary]) /\ LevelsOK(heap, MinFine) /\ Lower(heap, first)
         /\ IsChain(NextIn(heap, O), first)
         /\ first \in Places /\ (first = Null <=> prev = Null) /\ fine[O] = Null
         /\ space = Primary /\ ~Hybrid /\ cfg.hostRows > 0 /\ ~Plain
         /\ cur \in In(heap, Primary) \union {Null}
         /\ last \in In(heap, Primary) \union {Null}
         /\ prev = Null => In(heap, O) = {}
         /\ prev # Null => prev \in In(heap, O) /\ heap[prev].next[O] = Null
<1>1. Alive /\ Running
  BY DEF Alive, Running, Resting
<1>2. /\ Upper(heap, fine[Primary]) /\ LevelsOK(heap, MinFine) /\ Lower(heap, first)
      /\ IsChain(NextIn(heap, O), first) /\ TypeOK /\ HeapOK(heap)
  BY <1>1, AliveFacts DEF Base
<1>3. prev = Null => In(heap, O) = {}
  BY SingleFacts
<1>4. cfg.hostRows > 0 => ~Plain
  <2>1. cfg.hostRows \in Nat
    BY <1>2, ConfigTyped DEF TypeOK
  <2>2. QED BY <2>1 DEF Plain
<1>5. /\ space = Primary /\ ~Hybrid /\ cfg.hostRows > 0
      /\ cur \in In(heap, Primary) \union {Null}
      /\ last \in In(heap, Primary) \union {Null}
      /\ prev # Null => prev \in In(heap, O) /\ heap[prev].next[O] = Null
      /\ first \in Places /\ (first = Null <=> prev = Null) /\ fine[O] = Null
      /\ Counted /\ InPlace
  BY DEF HierarchyInv, Copying
<1>6. QED BY <1>1, <1>2, <1>3, <1>4, <1>5

\* g is h with the level l added at a, after p if there is one.
CopyMade(h, g, p, a, l) ==
  /\ HeapOK(g) /\ g[a] = l
  /\ In(g, O) = In(h, O) \union {a} /\ In(g, Primary) = In(h, Primary)
  /\ \A b \in DOMAIN h : b # p => g[b] = h[b]
  /\ p # Null => g[p] = Relinked(h[p], O, a)
  /\ Unlinked(h) => Unlinked(g)

\* The copy of cur that a step makes at a.
CopyAt(a) ==
  /\ a \in Addresses \ DOMAIN heap /\ prev' = a
  /\ CopyMade(heap, heap', prev, a, CopiedLevel(heap[cur], coarse[Primary].exists))
  /\ first' = IF prev = Null THEN a ELSE first
  /\ Upper(heap', fine[Primary]) /\ LevelsOK(heap', MinFine) /\ Lower(heap', first')
  /\ IsChain(NextIn(heap', O), first')

LEMMA CopyLevelHeap ==
  ASSUME HierarchyInv, CopyLevel
  PROVE  \E a \in Places : CopyAt(a)
<1> DEFINE l == CopiedLevel(heap[cur], coarse[Primary].exists)
<1>1. pc = "copy" /\ cur # Null
  BY DEF CopyLevel
<1>2. /\ TypeOK /\ HeapOK(heap) /\ cur \in In(heap, Primary)
      /\ Upper(heap, fine[Primary]) /\ LevelsOK(heap, MinFine) /\ Lower(heap, first)
      /\ IsChain(NextIn(heap, O), first) /\ (first = Null <=> prev = Null)
      /\ prev = Null => In(heap, O) = {}
      /\ prev # Null => prev \in In(heap, O) /\ heap[prev].next[O] = Null
  BY <1>1, CopyFacts
<1>3. PICK a \in Unused(heap) :
        /\ prev' = a /\ first' = IF first = Null THEN a ELSE first
        /\ heap' = IF prev = Null THEN With(heap, a, l)
                   ELSE [With(heap, a, l) EXCEPT ![prev].next[O] = a]
  BY DEF CopyLevel, CopiedLevel, O
<1>4. a \in Addresses \ DOMAIN heap /\ a \in Places /\ a # Null
  BY NullIsNoPlace DEF Unused, Places
<1>5. l \in LevelType /\ l.space = O /\ l.next = NoNext
  <2>1. heap[cur] \in LevelType
    BY <1>2, NextInDef, LevelTypes
  <2>2. QED BY <2>1, CopiedLevelType
<1>6. CASE prev = Null
  <2> HIDE DEF l
  <2>1. heap' = With(heap, a, l) /\ In(heap, O) = {}
    BY <1>2, <1>3, <1>6
  <2>2. first' = a
    BY <1>2, <1>3, <1>6
  <2>3. /\ Upper(With(heap, a, l), fine[Primary]) /\ LevelsOK(With(heap, a, l), MinFine)
        /\ Lower(With(heap, a, l), a) /\ IsChain(NextIn(With(heap, a, l), O), a)
        /\ RootAdded(heap, With(heap, a, l), a, l)
    BY <1>2, <1>4, <1>5, <2>1, AddRoot
  <2>4. CopyMade(heap, With(heap, a, l), prev, a, l)
    BY <1>6, <2>1, <2>3 DEF RootAdded, CopyMade
  <2>5. CopyAt(a)
    BY <1>3, <1>4, <1>6, <2>1, <2>2, <2>3, <2>4 DEF CopyAt, l
  <2>6. QED BY <1>4, <2>5
<1>7. CASE prev # Null
  <2> HIDE DEF l
  <2>1. prev \in In(heap, O) /\ heap[prev].next[O] = Null /\ prev \in DOMAIN heap
        /\ prev # a
    BY <1>2, <1>4, <1>7, NextInDef
  <2>2. heap' = Allocated(heap, prev, O, a, l)
    BY <1>3, <1>7, <2>1 DEF Allocated, With
  <2>3. Apart(heap)
    BY <1>2 DEF Lower
  <2>4. /\ Upper(heap', fine[Primary]) /\ LevelsOK(heap', MinFine)
        /\ Lower(heap', first) /\ IsChain(NextIn(heap', O), first)
        /\ LowerAdded(heap, heap', prev, a, l)
    BY <1>2, <1>4, <1>5, <2>1, <2>2, <2>3, AddLower
  <2>5. CopyMade(heap, heap', prev, a, l)
    BY <2>4 DEF LowerAdded, CopyMade
  <2>6. CopyAt(a)
    BY <1>2, <1>3, <1>4, <1>7, <2>4, <2>5 DEF CopyAt, l
  <2>7. QED BY <1>4, <2>6
<1>8. QED BY <1>6, <1>7

LEMMA CopyLevelInv == HierarchyInv /\ CopyLevel => HierarchyInv'
<1>1. SUFFICES ASSUME HierarchyInv, CopyLevel PROVE HierarchyInv'
  OBVIOUS
<1> DEFINE l == CopiedLevel(heap[cur], coarse[Primary].exists)
<1>2. /\ pc = "copy" /\ cur # Null /\ pc' = pc
      /\ cfg' = cfg /\ fine' = fine /\ reuse' = reuse /\ numLevels' = numLevels
      /\ setups' = setups
      /\ damaged' = damaged /\ space' = space /\ last' = last
      /\ coarse' = [coarse EXCEPT ![Primary].exists = FALSE]
      /\ cur' = heap[cur].next[Primary]
  BY <1>1 DEF CopyLevel
<1>3. /\ TypeOK /\ HeapOK(heap) /\ Alive /\ Running /\ Counted /\ InPlace
      /\ Upper(heap, fine[Primary])
      /\ space = Primary /\ ~Hybrid /\ cfg.hostRows > 0 /\ ~Plain
      /\ cur \in In(heap, Primary) /\ last \in In(heap, Primary) \union {Null}
      /\ first \in Places /\ (first = Null <=> prev = Null) /\ fine[O] = Null
  BY <1>1, <1>2, CopyFacts
<1>4. PICK a \in Places : CopyAt(a)
  BY <1>1, CopyLevelHeap
<1>5. /\ a \in Addresses /\ a # Null /\ prev' = a
      /\ first' = IF prev = Null THEN a ELSE first
      /\ Upper(heap', fine'[Primary]) /\ LevelsOK(heap', MinFine) /\ Lower(heap', first')
      /\ IsChain(NextIn(heap', O), first')
  BY <1>2, <1>4, NullIsNoPlace DEF CopyAt
<1>6. l.next = NoNext
  <2>1. heap[cur] \in LevelType
    BY <1>3, NextInDef, LevelTypes
  <2>2. QED BY <2>1, CopiedLevelType
<1>7. /\ HeapOK(heap') /\ a \in In(heap', O) /\ heap'[a] = l
      /\ In(heap', Primary) = In(heap, Primary)
      /\ Unlinked(heap) => Unlinked(heap')
  BY <1>4 DEF CopyAt, CopyMade
<1> HIDE DEF l
<1>8. cur' \in In(heap, Primary) \union {Null} /\ In(heap, Primary) \subseteq Addresses
  BY <1>2, <1>3, ChainLinks, NextInDef DEF Upper, HeapOK
<1>9. TypeOK'
  <2>1. coarse' \in [Spaces -> [exists : BOOLEAN, A : MatrixType]]
    BY <1>2, <1>3, TwoSpaces DEF TypeOK
  <2>2. cur' \in Places /\ prev' \in Places
    BY <1>4, <1>5, <1>8 DEF Places
  <2>3. QED BY <1>2, <1>3, <1>5, <1>7, <2>1, <2>2 DEF TypeOK
<1>10. Structure'
  <2>1. ~Single'
    BY <1>2, <1>5 DEF Single
  <2>2. QED BY <1>2, <1>5, <2>1, CopyingStep
<1>11. Working' /\ Behind'
  BY <1>2 DEF Working, Behind, Loop
<1>12. Copying'
  <2>1. heap'[a].next[O] = Null
    BY <1>6, <1>7, TwoSpaces DEF NoNext
  <2>2. Hybrid' = Hybrid /\ cfg'.hostRows = cfg.hostRows
    BY <1>2, ConfigKept
  <2>3. first' \in Places /\ first' # Null
    BY <1>3, <1>4, <1>5
  <2>4. QED BY <1>2, <1>3, <1>5, <1>7, <1>8, <2>1, <2>2, <2>3 DEF Copying
<1>13. Counted'
  BY <1>2, <1>3 DEF Counted
<1>14. InPlace'
  BY <1>2, <1>3, <1>7, InPlaceStep
<1>15. QED BY <1>9, <1>10, <1>11, <1>12, <1>13, <1>14 DEF HierarchyInv

\* All the levels of the other space hang on the root of their chain.
LEMMA ChainReach ==
  ASSUME NEW h, HeapOK(h), NEW q \in Places, Lower(h, q), IsChain(NextIn(h, O), q)
  PROVE  Reach(h, q) = In(h, O)
<1>1. Follows(h, Spaces, In(h, O))
  <2>1. SUFFICES ASSUME NEW b \in In(h, O), NEW y \in Links(h, b, Spaces)
                 PROVE  y \in In(h, O)
    BY DEF Follows
  <2>2. y # Null /\ \E s \in Spaces : h[b].next[s] = y
    BY LinksTyped
  <2>3. y = h[b].next[O]
    BY <2>2, TwoSpaces DEF Lower, Apart
  <2>4. QED BY <2>2, <2>3, ChainLinks
<1>2. In(h, O) \in SUBSET Addresses
  BY NextInDef DEF HeapOK
<1>3. q \in In(h, O) \/ q = Null
  BY ChainLinks
<1>4. Reach(h, q) \subseteq In(h, O)
  BY <1>1, <1>2, <1>3, Reaching
<1>5. In(h, O) \subseteq Reach(h, q)
  BY RootReaches, TwoSpaces DEF Lower
<1>6. QED BY <1>4, <1>5

\* An exception takes the copies with it and leaves the rest as it was.
LEMMA CopyThrowsInv == HierarchyInv /\ CopyThrows => HierarchyInv'
<1>1. SUFFICES ASSUME HierarchyInv, CopyThrows PROVE HierarchyInv'
  OBVIOUS
<1>2. /\ pc = "copy" /\ pc' = "failed" /\ cfg' = cfg /\ fine' = fine /\ coarse' = coarse
      /\ reuse' = reuse /\ numLevels' = numLevels /\ setups' = setups /\ space' = space
      /\ damaged' = TRUE /\ cur' = Null /\ prev' = Null /\ last' = Null
      /\ heap' = Without(heap, Reach(heap, first))
  BY <1>1 DEF CopyThrows, Goto
<1>3. /\ TypeOK /\ HeapOK(heap) /\ Alive /\ Counted /\ InPlace
      /\ Upper(heap, fine[Primary]) /\ LevelsOK(heap, MinFine) /\ Lower(heap, first)
      /\ IsChain(NextIn(heap, O), first) /\ first \in Places /\ fine[O] = Null
  BY <1>1, <1>2, CopyFacts
<1>4. Reach(heap, first) = In(heap, O)
  BY <1>3, ChainReach
<1>5. /\ HeapOK(heap') /\ DOMAIN heap' = DOMAIN heap \ In(heap, O)
      /\ \A b \in DOMAIN heap \ In(heap, O) : heap'[b] = heap[b]
  BY <1>2, <1>3, <1>4, DeletedHeap DEF Deleted
<1>6. In(heap, Primary) \subseteq DOMAIN heap \ In(heap, O)
  BY TwoSpaces DEF In
<1>7. In(heap', O) = {} /\ In(heap', Primary) = In(heap, Primary)
  BY <1>5, <1>6 DEF In
<1>8. SameUpper(heap, heap')
  BY <1>5, <1>6, <1>7 DEF SameUpper
<1>9. /\ Upper(heap', fine'[Primary]) /\ LevelsOK(heap', MinFine)
      /\ Lower(heap', fine'[O]) /\ IsChain(NextIn(heap', O), fine'[O])
  BY <1>2, <1>3, <1>5, <1>7, <1>8, UpperKept, LevelsKept, NoLower
<1>10. TypeOK'
  BY <1>2, <1>3, <1>5 DEF TypeOK, Stages, Places
<1>11. Structure'
  BY <1>2, <1>3, <1>9, StructureStep
<1>12. Working' /\ Behind' /\ Copying'
  BY <1>2 DEF Working, Behind, Copying, Loop
<1>13. Counted'
  BY <1>2, <1>3 DEF Counted, Running, Alive, Resting
<1>14. InPlace'
  <2>1. Unlinked(heap) => Unlinked(heap')
    BY <1>5, <1>6, <1>7 DEF Unlinked
  <2>2. QED BY <1>2, <1>3, <2>1, InPlaceStep
<1>15. QED BY <1>10, <1>11, <1>12, <1>13, <1>14 DEF HierarchyInv

LEMMA LinkCopiesInv == HierarchyInv /\ LinkCopies => HierarchyInv'
<1>1. SUFFICES ASSUME HierarchyInv, LinkCopies PROVE HierarchyInv'
  OBVIOUS
<1> DEFINE x == heap[last].next[Primary]
<1>2. /\ pc = "copy" /\ cfg' = cfg /\ reuse' = reuse /\ numLevels' = numLevels
      /\ setups' = setups /\ damaged' = damaged
  BY <1>1 DEF LinkCopies
<1>3. /\ TypeOK /\ HeapOK(heap) /\ Counted
      /\ Upper(heap, fine[Primary]) /\ LevelsOK(heap, MinFine) /\ Lower(heap, first)
      /\ first \in Places
      /\ cfg.hostRows > 0 /\ ~Plain
      /\ last \in In(heap, Primary) \union {Null} /\ setups > 0 /\ setups \in Nat
  BY <1>1, <1>2, CopyFacts DEF Counted, TypeOK
<1>4. Counted'
  BY <1>2, <1>3 DEF Counted
<1>5. CASE last = Null \/ ~Deletable(heap, x)
  <2>1. /\ pc' = "crashed" /\ heap' = heap /\ fine' = fine /\ coarse' = coarse
        /\ space' = space /\ cur' = cur /\ prev' = prev /\ last' = last
    BY <1>1, <1>5 DEF LinkCopies, Crash, Goto
  <2>2. TypeOK'
    BY <1>2, <1>3, <2>1 DEF TypeOK, Stages
  <2>3. QED BY <1>1, <1>2, <1>3, <1>4, <2>1, <2>2, CrashStep
<1>6. CASE last # Null /\ Deletable(heap, x)
  <2>1. /\ heap' = CrossHeap(heap, last, x, first)
        /\ pc' = "ready" /\ prev' = Null /\ last' = Null
        /\ fine' = [fine EXCEPT ![O] = first]
        /\ coarse' = coarse /\ space' = space /\ cur' = cur
    BY <1>1, <1>6 DEF LinkCopies, Goto, CrossHeap, O
  <2>2. /\ last \in In(heap, Primary) /\ Null \in Places /\ fine' \in [Spaces -> Places]
        /\ fine'[Primary] = fine[Primary] /\ fine'[O] = first
    BY <1>3, <1>6, <2>1, TwoSpaces DEF TypeOK, Places
  <2>3. IsCrossHeap(heap, heap', last, x, first)
    BY <1>3, <1>6, <2>1, <2>2, CrossedHeap
  <2>4. HeapOK(heap') /\ CutTo(heap, heap', last, x)
    BY <2>3 DEF IsCrossHeap
  <2>5. Upper(heap', fine'[Primary]) /\ LevelsOK(heap', MinFine) /\ Lower(heap', fine'[O])
    BY <1>3, <2>2, <2>4, CutUpper
  <2>6. TypeOK'
    BY <1>2, <1>3, <2>1, <2>2, <2>4 DEF TypeOK, Stages
  <2>7. Structure'
    <3>1. ~Running' /\ ~Single'
      BY <2>1 DEF Running, Single, Resting
    <3>2. QED BY <1>2, <2>1, <2>5, <3>1, StructureStep
  <2>8. Working' /\ Behind' /\ Copying'
    BY <2>1 DEF Working, Behind, Copying, Loop
  <2>9. InPlace'
    <3>1. Plain' = Plain /\ cfg'.hostRows = cfg.hostRows /\ cfg.hostRows \in Nat
      BY <1>2, <1>3, ConfigKept, ConfigTyped DEF TypeOK
    <3>2. QED BY <1>2, <1>3, <2>1, <3>1 DEF InPlace
  <2>10. QED BY <1>4, <2>6, <2>7, <2>8, <2>9 DEF HierarchyInv
<1>7. QED BY <1>5, <1>6

\* Deleting the two roots one after the other deletes everything.
LEMMA AllDeleted ==
  ASSUME NEW h, HeapOK(h), NEW s \in Spaces, NEW t \in Spaces, s # t,
         NEW p \in Places, Rooted(NextIn(h, s), p),
         NEW q \in Places, Rooted(NextIn(h, t), q)
  PROVE  DOMAIN Deleted(Deleted(h, p), q) = {}
<1> DEFINE g == Deleted(h, p)
<1>1. HeapOK(g) /\ DOMAIN g = DOMAIN h \ Reach(h, p)
      /\ \A b \in DOMAIN g : g[b] = h[b]
  BY DeletedHeap
<1> HIDE DEF g
<1>2. Rooted(NextIn(g, t), q)
  <2>1. \A b \in DOMAIN g : g[b].space = h[b].space
    BY <1>1
  <2>2. \A b \in In(g, t) : g[b].next[t] = h[b].next[t]
    BY <1>1, NextInDef
  <2>3. QED BY <1>1, <2>1, <2>2, RestHeap
<1>3. In(h, s) \subseteq Reach(h, p) /\ In(g, t) \subseteq Reach(g, q)
  BY <1>1, <1>2, RootReaches
<1>4. DOMAIN g \subseteq In(g, t)
  <2>1. SUFFICES ASSUME NEW b \in DOMAIN g PROVE g[b].space = t
    BY DEF In
  <2>2. b \in DOMAIN h /\ b \notin In(h, s) /\ g[b] = h[b]
    BY <1>1, <1>3
  <2>3. h[b].space \in Spaces /\ h[b].space # s
    BY <2>2, LevelTypes DEF In
  <2>4. QED BY <2>2, <2>3, TwoSpaces
<1>5. DOMAIN Deleted(g, q) = DOMAIN g \ Reach(g, q)
  BY <1>1, DeletedHeap
<1>6. QED BY <1>3, <1>4, <1>5 DEF g

\* A chain that nothing leads out of and a level alone may be deleted, in
\* either order.
LEMMA BothDeletable ==
  ASSUME NEW h, HeapOK(h), NEW r, Upper(h, r), Unlinked(h), NEW q \in Places, Lower(h, q),
         q # Null => q \in DOMAIN h /\ h[q].next = NoNext
  PROVE  /\ Deletable(h, r) /\ Deletable(Deleted(h, r), q)
         /\ Deletable(h, q) /\ Deletable(Deleted(h, q), r)
<1>1. r \in In(h, Primary) /\ r \in Places
  <2>1. r \in In(h, Primary)
    BY ChainLinks DEF Upper
  <2>2. QED BY <2>1, NextInDef DEF HeapOK, Places
<1>2. Deletable(h, r) /\ Reach(h, r) \subseteq In(h, Primary)
  BY <1>1, ChainDeletable
<1>3. /\ HeapOK(Deleted(h, r)) /\ DOMAIN Deleted(h, r) = DOMAIN h \ Reach(h, r)
      /\ \A b \in DOMAIN h \ Reach(h, r) : Deleted(h, r)[b] = h[b]
  BY <1>1, DeletedHeap
<1>4. CASE q = Null
  <2>1. Deletable(h, q) /\ Deleted(h, q) = h
    BY <1>4, NullDeletable, DeletedHeap
  <2>2. QED BY <1>2, <1>3, <1>4, <2>1, NullDeletable
<1>5. CASE q # Null
  <2>1. /\ q \in DOMAIN h /\ q \in In(h, O) /\ q \notin In(h, Primary)
        /\ \A s \in Spaces : h[q].next[s] = Null
    BY <1>5, TwoSpaces DEF Lower, Typed, In, NoNext
  <2>2. Deletable(h, q) /\ Reach(h, q) = {q}
    BY <2>1, SingleDeletable
  <2>3. Deletable(Deleted(h, r), q)
    <3>1. q \in DOMAIN Deleted(h, r) /\ Deleted(h, r)[q] = h[q]
      BY <1>2, <1>3, <2>1
    <3>2. QED BY <1>3, <2>1, <3>1, SingleDeletable
  <2>4. Deletable(Deleted(h, q), r)
    <3> DEFINE g == Deleted(h, q)
    <3>1. /\ HeapOK(g) /\ DOMAIN g = DOMAIN h \ {q}
          /\ \A b \in DOMAIN h \ {q} : g[b] = h[b]
      BY <2>2, DeletedHeap
    <3> HIDE DEF g
    <3>2. In(g, Primary) = In(h, Primary)
      BY <2>1, <3>1 DEF In
    <3>3. \A b \in In(h, Primary) : g[b] = h[b]
      BY <2>1, <3>1, NextInDef
    <3>4. Upper(g, r) /\ Unlinked(g)
      BY <3>2, <3>3, UpperKept DEF SameUpper, Unlinked
    <3>5. Deletable(g, r)
      BY <1>1, <3>1, <3>2, <3>4, ChainDeletable
    <3>6. QED BY <3>5 DEF g
  <2>5. QED BY <1>2, <2>2, <2>3, <2>4
<1>6. QED BY <1>4, <1>5

LEMMA DestroyInv == HierarchyInv /\ Destroy => HierarchyInv'
<1>1. SUFFICES ASSUME HierarchyInv, Destroy PROVE HierarchyInv'
  OBVIOUS
<1> DEFINE d == fine["device"]
           h == fine["host"]
           g == Deleted(heap, d)
<1>2. /\ Resting /\ cfg' = cfg /\ reuse' = reuse /\ numLevels' = numLevels
      /\ setups' = setups /\ damaged' = damaged
  BY <1>1 DEF Destroy
<1>3. /\ TypeOK /\ HeapOK(heap) /\ Alive
      /\ Upper(heap, fine[Primary]) /\ Lower(heap, fine[O])
      /\ fine[Primary] \in Places /\ fine[O] \in Places
  BY <1>1, <1>2, AliveFacts DEF Resting, Alive
<1>4. Counted' \/ pc' \notin {"crashed", "destroyed"}
  <2>1. Counted
    BY <1>1 DEF HierarchyInv
  <2>2. QED BY <1>2, <2>1 DEF Counted, Running, Alive
<1>5. \/ Primary = "device" /\ O = "host"
      \/ Primary = "host" /\ O = "device"
  BY TwoSpaces DEF Spaces
<1>6. CASE ~(Deletable(heap, d) /\ Deletable(g, h))
  <2>1. /\ pc' = "crashed" /\ heap' = heap /\ fine' = fine /\ coarse' = coarse
        /\ space' = space /\ cur' = cur /\ prev' = prev /\ last' = last
    BY <1>1, <1>6 DEF Destroy, Crash, Goto
  <2>2. TypeOK'
    BY <1>2, <1>3, <2>1 DEF TypeOK, Stages
  <2>3. ~Plain
    <3>1. SUFFICES ASSUME Plain PROVE Deletable(heap, d) /\ Deletable(g, h)
      BY <1>6
    <3>2. /\ Unlinked(heap)
          /\ fine[O] # Null => fine[O] \in DOMAIN heap /\ heap[fine[O]].next = NoNext
      BY <1>1, <1>3, <3>1 DEF HierarchyInv, InPlace, Plain
    <3>3. /\ Deletable(heap, fine[Primary]) /\ Deletable(Deleted(heap, fine[Primary]), fine[O])
          /\ Deletable(heap, fine[O]) /\ Deletable(Deleted(heap, fine[O]), fine[Primary])
      BY <1>3, <3>2, BothDeletable
    <3>4. QED BY <1>5, <3>3
  <2>4. QED BY <1>1, <1>2, <1>4, <2>1, <2>2, <2>3, CrashStep
<1>7. CASE Deletable(heap, d) /\ Deletable(g, h)
  <2>1. /\ heap' = Deleted(g, h) /\ fine' = NoNext /\ pc' = "destroyed"
        /\ coarse' = coarse /\ space' = space /\ cur' = cur /\ prev' = prev /\ last' = last
    BY <1>1, <1>7 DEF Destroy, Goto
  <2>2. HeapOK(heap') /\ DOMAIN heap' = {}
    <3>1. /\ Rooted(NextIn(heap, Primary), fine[Primary])
          /\ Rooted(NextIn(heap, O), fine[O])
      BY <1>3 DEF Upper, IsChain, Lower
    <3>2. d \in Places /\ h \in Places
      BY <1>3, <1>5
    <3>3. HeapOK(g)
      BY <1>3, <3>2, DeletedHeap
    <3>4. HeapOK(Deleted(g, h))
      <4> HIDE DEF g
      <4>1. QED BY <3>2, <3>3, DeletedHeap
    <3>5. DOMAIN Deleted(g, h) = {}
      BY <1>3, <1>5, <3>1, AllDeleted, TwoSpaces
    <3>6. QED BY <2>1, <3>4, <3>5
  <2>3. TypeOK'
    <3>1. fine' \in [Spaces -> Places]
      BY <2>1 DEF NoNext, Places
    <3>2. QED BY <1>2, <1>3, <2>1, <2>2, <3>1 DEF TypeOK, Stages
  <2>4. Structure'
    BY <2>1, <2>2 DEF Structure, Alive, Running, Single
  <2>5. Working' /\ Behind' /\ Copying'
    BY <2>1 DEF Working, Behind, Copying, Loop
  <2>6. InPlace'
    BY <2>1 DEF InPlace, Alive
  <2>7. QED BY <1>4, <2>1, <2>3, <2>4, <2>5, <2>6 DEF HierarchyInv
<1>8. QED BY <1>6, <1>7

-----------------------------------------------------------------------------
(* The theorems. *)

LEMMA SetupStepInv == HierarchyInv /\ SetupStep => HierarchyInv'
  BY SetFineMatrixInv, ReachBottomInv, ReuseNextInv, AllocateNextInv,
     CreateCoarseVerticesInv, DescendInv, StopCoarseningInv, SetupThrowsInv,
     SetupCoarseSolverInv, SwitchSpaceInv, SplitInv, CopyLevelInv, CopyThrowsInv,
     LinkCopiesInv
     DEF SetupStep

LEMMA IdleInv == HierarchyInv /\ UNCHANGED vars => HierarchyInv'
<1>1. SUFFICES ASSUME HierarchyInv, UNCHANGED vars PROVE HierarchyInv'
  OBVIOUS
<1>2. /\ cfg' = cfg /\ heap' = heap /\ fine' = fine /\ coarse' = coarse
      /\ reuse' = reuse /\ numLevels' = numLevels /\ setups' = setups
      /\ damaged' = damaged /\ pc' = pc /\ space' = space
      /\ cur' = cur /\ prev' = prev /\ last' = last /\ first' = first
  BY <1>1 DEF vars, local, copyVars
<1>3. TypeOK' /\ Structure'
  BY <1>1, <1>2
     DEF HierarchyInv, TypeOK, Structure, Base, Alive, Running, Resting, Single, MinFine
<1>4. Working' /\ Behind' /\ Copying'
  BY <1>1, <1>2
     DEF HierarchyInv, Working, Behind, Copying, Next1, Hybrid, MinFine, MinRows
<1>5. Counted' /\ InPlace'
  BY <1>1, <1>2
     DEF HierarchyInv, Counted, InPlace, Plain, Hybrid, MinFine, Running, Alive, Resting
<1>6. QED BY <1>3, <1>4, <1>5 DEF HierarchyInv

LEMMA NextInv == HierarchyInv /\ [Next]_vars => HierarchyInv'
<1>1. \A r \in ReuseChoices : HierarchyInv /\ BeginSetup(r) => HierarchyInv'
  BY BeginSetupInv
<1>2. QED BY <1>1, SetupStepInv, DestroyInv, IdleInv DEF Next

\* However setups, exceptions, rebuilds and moves to the other memory space
\* follow each other, the levels of each space form one chain from their root,
\* and the loop is where it takes itself to be.
THEOREM HierarchyInvariant == Spec => []HierarchyInv
<1>1. Init => HierarchyInv
  BY InitInv
<1>2. HierarchyInv /\ [Next]_vars => HierarchyInv'
  BY NextInv
<1>3. QED BY <1>1, <1>2, PTL DEF Spec

\* Levels are lost where copies are made, and nowhere else.
LostInv == lost # {} => cfg.hostRows > 0

LEMMA LostStep == HierarchyInv /\ LostInv /\ [Next]_vars => LostInv'
<1>1. SUFFICES ASSUME HierarchyInv, LostInv, [Next]_vars PROVE LostInv'
  OBVIOUS
<1>2. cfg' = cfg
  BY <1>1 DEF Next, BeginSetup, SetupStep, SetFineMatrix, ReachBottom, ReuseNext,
     AllocateNext, CreateCoarseVertices, Descend, StopCoarsening, SetupThrows,
     SetupCoarseSolver, SwitchSpace, Split, CopyLevel, CopyThrows, LinkCopies, Destroy, vars
<1>3. CASE CopyThrows
  BY <1>1, <1>2, <1>3, CopyFacts DEF CopyThrows, LostInv
<1>4. CASE ~CopyThrows
  <2>1. lost' = lost
    BY <1>1, <1>4 DEF Next, BeginSetup, SetupStep, SetFineMatrix, ReachBottom, ReuseNext,
       AllocateNext, CreateCoarseVertices, Descend, StopCoarsening, SetupThrows,
       SetupCoarseSolver, SwitchSpace, Split, CopyLevel, LinkCopies, Destroy, vars, copyVars
  <2>2. QED BY <1>1, <1>2, <2>1 DEF LostInv
<1>5. QED BY <1>3, <1>4

\* Every level is reached from one of the two roots or from the first copy,
\* whatever coarsening threw; an exception during the copying loses the copies,
\* and without host levels none is ever lost.
THEOREM LevelsAreLostByCopyingOnly == Spec => []NothingLeaks
<1>1. HierarchyInv /\ LostInv => NothingLeaks
  <2>1. SUFFICES ASSUME HierarchyInv, pc # "crashed", NEW b \in DOMAIN heap
                 PROVE  \E a \in {fine["host"], fine["device"], cur, prev, last, first} :
                          b \in Reach(heap, a)
    BY DEF NothingLeaks, LostInv
  <2>2. pc # "destroyed"
    BY <2>1 DEF HierarchyInv, Structure
  <2>3. /\ HeapOK(heap) /\ Upper(heap, fine[Primary]) /\ Lower(heap, Base)
        /\ fine[Primary] \in Places /\ Base \in Places
    <3>1. pc = "copy" => first \in Places
      BY <2>1, CopyFacts
    <3>2. QED BY <2>1, <2>2, <3>1, AliveFacts DEF Alive, Base
  <2>4. /\ In(heap, Primary) \subseteq Reach(heap, fine[Primary])
        /\ In(heap, O) \subseteq Reach(heap, Base)
    BY <2>3, RootReaches, TwoSpaces DEF Upper, IsChain, Lower
  <2>5. b \in In(heap, Primary) \/ b \in In(heap, O)
    BY <2>1, <2>3, LevelTypes, TwoSpaces DEF In
  <2>6. fine[Primary] \in {fine["host"], fine["device"]}
        /\ Base \in {fine["host"], fine["device"], first}
    BY TwoSpaces DEF Spaces, Base
  <2>7. QED BY <2>4, <2>5, <2>6
<1>2. Init => LostInv
  BY DEF Init, LostInv
<1>3. Spec => []LostInv
  BY <1>2, HierarchyInvariant, LostStep, PTL DEF Spec
<1>4. QED BY <1>1, <1>3, HierarchyInvariant, PTL

\* In the memory space of its mode a hierarchy is never deleted twice and no
\* level is used after its deletion.
THEOREM PlainNeverCrashesAlways == Spec => []PlainNeverCrashes
<1>1. HierarchyInv => PlainNeverCrashes
  BY DEF HierarchyInv, InPlace, PlainNeverCrashes
<1>2. QED BY <1>1, HierarchyInvariant, PTL

-----------------------------------------------------------------------------
(* What a setup keeps of the one before. *)

\* No level goes, and none is coarsened anew.
Keeps(h, g) ==
  \A a \in DOMAIN h :
    a \in DOMAIN g /\ g[a].aggregates = h[a].aggregates /\ (h[a].isSetup => g[a].isSetup)

\* What StructureKept says of one level in a step.
KeptOf(a) ==
  (/\ Plain /\ ~damaged /\ heap[a].isSetup /\ ~Resting
   /\ \/ a \notin DOMAIN heap' \/ ~heap'[a].isSetup
      \/ /\ \E b \in Links(heap, a, Spaces) : heap[b].isSetup
         /\ heap'[a].aggregates # heap[a].aggregates)
  => reuse # -1 /\ heap[a].index >= reuse

LEMMA KeepsKept ==
  ASSUME Keeps(heap, heap'), NEW a \in DOMAIN heap
  PROVE  KeptOf(a)
  BY DEF Keeps, KeptOf

\* In its own space the loop sees one chain, with no pointer out of it.
LEMMA PlainLoop ==
  ASSUME HierarchyInv, pc \in Loop, Plain
  PROVE  space = Primary /\ Unlinked(heap)
  BY LoopFacts, TwoSpaces DEF HierarchyInv, InPlace, Plain

LEMMA SetFineMatrixKeeps ==
  ASSUME HierarchyInv, NEW n \in FineRows, SetFineMatrix(n), NEW a \in DOMAIN heap
  PROVE  KeptOf(a)
<1> DEFINE r == fine[Primary]
           rebuild == heap[r].isSetup /\ reuse = 0
<1>1. pc = "fine" /\ HeapOK(heap) /\ setups \in Nat /\ n \in Nat /\ r \in DOMAIN heap
  <2>1. pc = "fine"
    BY DEF SetFineMatrix
  <2>2. Alive
    BY <2>1 DEF Alive
  <2>3. QED BY <2>1, <2>2, AliveFacts, NextInDef, HierarchyAssumption DEF TypeOK
<1>2. CASE rebuild
  <2>1. reuse # -1 /\ heap[a].index >= reuse
    BY <1>1, <1>2, LevelTypes
  <2>2. QED BY <2>1 DEF KeptOf
<1>3. CASE ~rebuild
  <2>1. heap' = [heap EXCEPT ![r] = FineLevel(@, n)]
    BY <1>3 DEF SetFineMatrix, FineLevel
  <2>2. LET l == FineLevel(heap[r], n)
        IN  l.isSetup = TRUE /\ l.aggregates = heap[r].aggregates
    BY <1>1, LevelTypes, FineLevelType
  <2>3. heap'[r].isSetup = TRUE /\ heap'[r].aggregates = heap[r].aggregates
    BY <1>1, <2>1, <2>2
  <2>4. Keeps(heap, heap')
    BY <2>1, <2>3 DEF Keeps
  <2>5. QED BY <2>4, KeepsKept
<1>4. QED BY <1>2, <1>3

LEMMA ReachBottomKeeps ==
  ASSUME HierarchyInv, ReachBottom, NEW a \in DOMAIN heap
  PROVE  KeptOf(a)
<1>1. pc \in Loop
  BY DEF ReachBottom, Loop
<1>2. HeapOK(heap) /\ cur \in DOMAIN heap
  BY <1>1, LoopFacts
<1>3. heap' = heap \/ heap' = [heap EXCEPT ![cur] = SmootherSetUp(@)]
  BY DEF ReachBottom
<1>4. Relabeled(heap, heap') \/ heap' = heap
  BY <1>2, <1>3, SmoothedHeap
<1>5. Keeps(heap, heap')
  BY <1>4 DEF Relabeled, Keeps
<1>6. QED BY <1>5, KeepsKept

LEMMA ReuseNextKeeps ==
  ASSUME HierarchyInv, ReuseNext, NEW a \in DOMAIN heap
  PROVE  KeptOf(a)
<1> DEFINE b == Next1
<1>1. heap' = [heap EXCEPT ![b].index = numLevels, ![b].A.version = 0]
  BY DEF ReuseNext, Next1
<1>2. pc \in Loop
  BY DEF ReuseNext, Loop
<1>3. HeapOK(heap)
  BY <1>2, LoopFacts
<1>4. DOMAIN heap' = DOMAIN heap /\ \A c \in DOMAIN heap : c # b => heap'[c] = heap[c]
  BY <1>1
<1>5. b \in DOMAIN heap =>
        heap'[b].isSetup = heap[b].isSetup /\ heap'[b].aggregates = heap[b].aggregates
  <2>1. b \in DOMAIN heap => heap[b] \in LevelType
    BY <1>3, LevelTypes
  <2>2. QED BY <1>1, <2>1 DEF LevelType
<1>6. Keeps(heap, heap')
  BY <1>4, <1>5 DEF Keeps
<1>7. QED BY <1>6, KeepsKept

\* Only levels from numLevels on are replaced, and only when reuse says so.
LEMMA AllocateNextKeeps ==
  ASSUME HierarchyInv, AllocateNext, NEW a \in DOMAIN heap
  PROVE  KeptOf(a)
<1> DEFINE x == heap[cur].next[space]
           l == [NewLevel(space) EXCEPT !.index = numLevels]
<1>1. pc = "top" /\ pc \in Loop
  BY DEF AllocateNext, Loop
<1>2. SUFFICES ASSUME Plain PROVE KeptOf(a)
  BY DEF KeptOf
<1>3. /\ HeapOK(heap) /\ Upper(heap, fine[Primary]) /\ cur \in In(heap, space)
      /\ cur \in DOMAIN heap /\ heap[cur] \in LevelType /\ x \in Places
      /\ heap[cur].index + 1 = numLevels /\ space = Primary /\ Unlinked(heap)
      /\ TypeOK
  BY <1>1, <1>2, LoopFacts, PlainLoop DEF Next1
<1>4. CASE ~Deletable(heap, x)
  <2>1. heap' = heap
    BY <1>4 DEF AllocateNext, Crash
  <2>2. QED BY <2>1, KeepsKept DEF Keeps
<1>5. CASE Deletable(heap, x)
  <2>1. PICK b \in Unused(Deleted(heap, x)) :
          heap' = Allocated(Deleted(heap, x), cur, space, b, l)
    BY <1>5 DEF AllocateNext, Allocated
  <2>2. b \in Addresses \ DOMAIN Deleted(heap, x)
    BY <2>1 DEF Unused
  <2>3. cur \notin Reach(heap, x)
    <3>1. space \in Spaces
      BY <1>3, TwoSpaces
    <3>2. QED BY <1>3, <1>5, <3>1, StaysItself
  <2>4. /\ HeapOK(Deleted(heap, x)) /\ DOMAIN Deleted(heap, x) = DOMAIN heap \ Reach(heap, x)
        /\ \A c \in DOMAIN heap \ Reach(heap, x) : Deleted(heap, x)[c] = heap[c]
    BY <1>3, DeletedHeap
  <2>5. l \in LevelType
    BY <1>3, NewLevelType DEF NewLevel, LevelType, TypeOK
  <2> HIDE DEF l
  <2>6. IsAllocated(Deleted(heap, x), heap', cur, space, b, l)
    <3>1. cur \in DOMAIN Deleted(heap, x) /\ space \in Spaces
      BY <1>3, <2>3, <2>4, TwoSpaces
    <3>2. IsAllocated(Deleted(heap, x), Allocated(Deleted(heap, x), cur, space, b, l),
                      cur, space, b, l)
      BY <2>2, <2>4, <2>5, <3>1, AllocatedHeap
    <3>3. QED BY <2>1, <3>2
  <2>7. CASE a \notin Reach(heap, x)
    <3>1. a \in DOMAIN heap'
      BY <2>4, <2>6, <2>7 DEF IsAllocated
    <3>2. heap'[a].isSetup = heap[a].isSetup /\ heap'[a].aggregates = heap[a].aggregates
      <4>1. CASE a # cur
        BY <2>4, <2>6, <2>7, <4>1 DEF IsAllocated
      <4>2. CASE a = cur
        <5>1. heap'[cur] = Relinked(heap[cur], space, b)
          BY <1>3, <2>3, <2>4, <2>6 DEF IsAllocated
        <5>2. heap[cur] \in LevelType /\ space \in Spaces /\ b \in Places
          BY <1>3, <2>2, TwoSpaces DEF Places
        <5>3. LET m == Relinked(heap[cur], space, b)
              IN  m.isSetup = heap[cur].isSetup /\ m.aggregates = heap[cur].aggregates
          BY <5>2, RelinkedType
        <5>4. QED BY <4>2, <5>1, <5>3
      <4>3. QED BY <4>1, <4>2
    <3>3. QED BY <3>1, <3>2 DEF KeptOf
  <2>8. CASE a \in Reach(heap, x)
    <3>1. x # Null
      BY <1>3, <2>8, NullDeletable
    <3>2. x \in In(heap, Primary) /\ heap[x].index = numLevels
      BY <1>3, <3>1, ChainLinks DEF Upper, Indexed
    <3>3. heap[a].index >= numLevels
      BY <1>3, <2>8, <3>2, ChainDeletable
    <3>4. reuse # -1 /\ reuse <= numLevels
      BY <3>1 DEF AllocateNext, KeepNext
    <3>5. heap[a].index \in Nat /\ numLevels \in Nat /\ reuse \in Int
      BY <1>3, LevelTypes, HierarchyAssumption DEF TypeOK
    <3>6. heap[a].index >= reuse
      BY <3>3, <3>4, <3>5
    <3>7. QED BY <3>4, <3>6 DEF KeptOf
  <2>9. QED BY <2>7, <2>8
<1>6. QED BY <1>4, <1>5

\* Only a level that none that is set up follows is coarsened anew.
LEMMA CreateCoarseVerticesKeeps ==
  ASSUME HierarchyInv, CreateCoarseVertices, NEW a \in DOMAIN heap
  PROVE  KeptOf(a)
<1>1. pc = "vertices" /\ pc \in Loop
  BY DEF CreateCoarseVertices, Loop
<1>2. PICK c \in 1..heap[cur].A.rows : heap' = [heap EXCEPT ![cur].aggregates = c]
  BY DEF CreateCoarseVertices
<1>3. SUFFICES ASSUME Plain PROVE KeptOf(a)
  BY DEF KeptOf
<1>4. /\ HeapOK(heap) /\ cur \in In(heap, Primary) /\ cur \in DOMAIN heap
      /\ heap[cur] \in LevelType /\ space = Primary /\ Unlinked(heap)
  BY <1>1, <1>3, LoopFacts, PlainLoop
<1>5. DOMAIN heap' = DOMAIN heap /\ heap'[cur].isSetup = heap[cur].isSetup
      /\ \A b \in DOMAIN heap : b # cur => heap'[b] = heap[b]
  BY <1>2, <1>4 DEF LevelType
<1>6. ~\E b \in Links(heap, cur, Spaces) : heap[b].isSetup
  <2>1. SUFFICES ASSUME NEW b \in Links(heap, cur, Spaces) PROVE ~heap[b].isSetup
    OBVIOUS
  <2>2. b # Null /\ \E s \in Spaces : heap[cur].next[s] = b
    BY <1>4, LinksTyped
  <2>3. b = heap[cur].next[Primary]
    BY <1>4, <2>2, TwoSpaces DEF Unlinked
  <2>4. QED BY <1>1, <1>4, <2>3 DEF HierarchyInv, Working, Next1
<1>7. QED BY <1>5, <1>6 DEF KeptOf

LEMMA DescendKeeps ==
  ASSUME HierarchyInv, Descend, NEW a \in DOMAIN heap
  PROVE  KeptOf(a)
<1>1. /\ Descended(heap, heap', cur, Next1)
      /\ IsSetUpBelow(heap'[Next1], heap[Next1], heap[cur].aggregates, heap[cur].A.version)
      /\ IsSetUpAbove(heap'[cur], heap[cur], heap[cur].aggregates)
  BY DescendHeap
<1>2. Keeps(heap, heap')
  BY <1>1 DEF Descended, IsSetUpBelow, IsSetUpAbove, Keeps
<1>3. QED BY <1>2, KeepsKept

\* A level whose coarsening led to one that was set up is good enough again.
LEMMA StopCoarseningKeeps ==
  ASSUME HierarchyInv, StopCoarsening, NEW a \in DOMAIN heap
  PROVE  KeptOf(a)
<1> DEFINE x == heap[cur].next[space]
           h == [Deleted(heap, x) EXCEPT ![cur].next[space] = Null]
<1>1. pc = "matrices" /\ pc \in Loop
  BY DEF StopCoarsening, Loop
<1>2. SUFFICES ASSUME Plain PROVE KeptOf(a)
  BY DEF KeptOf
<1>3. /\ HeapOK(heap) /\ cur \in In(heap, space) /\ LevelsOK(heap, MinFine)
      /\ cur \in DOMAIN heap /\ heap[cur] \in LevelType
      /\ space = Primary /\ Unlinked(heap) /\ Working
  BY <1>1, <1>2, LoopFacts, PlainLoop DEF HierarchyInv
<1>4. x \in In(heap, Primary) /\ x \in DOMAIN heap /\ x # Null
  BY <1>1, <1>3, NextInDef, LevelTypes DEF Working, Next1
<1>5. ~heap[x].isSetup
  <2>1. LevelOK(heap, cur, MinFine)
    BY <1>3 DEF LevelsOK
  <2>2. SUFFICES ASSUME heap[x].isSetup PROVE FALSE
    OBVIOUS
  <2>3. Shrinks(heap[cur])
    BY <1>3, <1>4, <2>1, <2>2 DEF LevelOK
  <2>4. heap[cur].aggregates \in Nat /\ heap[cur].A.rows \in Nat
    BY <1>3, LevelTypes
  <2>5. QED BY <2>3, <2>4 DEF Shrinks, StopCoarsening, CoarseEnough
<1>6. Reach(heap, x) = {x} /\ Deletable(heap, x)
  <2>1. heap[x].next[Primary] = Null
    BY <1>3, <1>4, <1>5 DEF LevelsOK, LevelOK
  <2>2. \A s \in Spaces : heap[x].next[s] = Null
    BY <1>3, <1>4, <2>1, TwoSpaces DEF Unlinked
  <2>3. QED BY <1>3, <1>4, <2>2, SingleDeletable
<1>7. CASE ~IsCoarsest(h, cur)
  <2>1. heap' = heap
    BY <1>7 DEF StopCoarsening, Crash
  <2>2. QED BY <2>1, KeepsKept DEF Keeps
<1>8. CASE IsCoarsest(h, cur)
  <2>1. PICK smooth \in BOOLEAN : smooth = ~coarse[space].exists
    <3>1. (~coarse[space].exists) \in BOOLEAN
      OBVIOUS
    <3>2. QED BY <3>1
  <2>2. heap' = StopHeap(heap, cur, space, x, smooth)
    BY <1>6, <1>8, <2>1 DEF StopCoarsening, StopHeap, Linked
  <2>3. Stopped(heap, heap', cur, space, x, smooth)
    <3>1. space \in Spaces
      BY <1>3, TwoSpaces
    <3>2. QED BY <1>3, <1>6, <2>2, <3>1, StoppedHeap
  <2>4. DOMAIN heap' = DOMAIN heap \ {x}
        /\ \A b \in DOMAIN heap' : heap'[b].isSetup = heap[b].isSetup
                                   /\ heap'[b].aggregates = heap[b].aggregates
    BY <1>6, <2>3 DEF Stopped
  <2>5. QED BY <1>5, <2>4 DEF KeptOf
<1>9. QED BY <1>7, <1>8

LEMMA KeptStep ==
  ASSUME HierarchyInv, Next, NEW a \in DOMAIN heap
  PROVE  KeptOf(a)
<1>1. CASE Resting
  BY <1>1 DEF KeptOf
<1>2. CASE ~Resting
  <2>1. SetupStep
    BY <1>2 DEF Next, BeginSetup, Destroy
  <2>2. CASE heap' = heap
    BY <2>2, KeepsKept DEF Keeps
  <2>3. CASE SwitchSpace \/ CopyLevel \/ CopyThrows \/ LinkCopies
    <3>1. CASE SwitchSpace
      BY <3>1 DEF SwitchSpace, KeptOf, Plain
    <3>2. CASE CopyLevel \/ CopyThrows \/ LinkCopies
      <4>1. pc = "copy"
        BY <3>2 DEF CopyLevel, CopyThrows, LinkCopies
      <4>2. ~Plain
        BY <4>1, CopyFacts
      <4>3. QED BY <4>2 DEF KeptOf
    <3>3. QED BY <2>3, <3>1, <3>2
  <2>4. CASE SetupThrows \/ SetupCoarseSolver \/ Split
    BY <2>2, <2>4 DEF SetupThrows, SetupCoarseSolver, Split
  <2>5. QED BY <2>1, <2>3, <2>4, SetFineMatrixKeeps, ReachBottomKeeps, ReuseNextKeeps,
               AllocateNextKeeps, CreateCoarseVerticesKeeps, DescendKeeps,
               StopCoarseningKeeps DEF SetupStep
<1>3. QED BY <1>1, <1>2

\* A setup keeps the levels of the hierarchy, and the coarsening of each, up to
\* structure_reuse_levels.
THEOREM StructureIsKept == Spec => StructureKept
<1>1. HierarchyInv /\ [Next]_vars =>
        [\A a \in DOMAIN heap :
           (/\ Plain /\ ~damaged /\ heap[a].isSetup /\ ~Resting
            /\ \/ a \notin DOMAIN heap' \/ ~heap'[a].isSetup
               \/ /\ \E b \in Links(heap, a, Spaces) : heap[b].isSetup
                  /\ heap'[a].aggregates # heap[a].aggregates)
           => reuse # -1 /\ heap[a].index >= reuse]_vars
  <2>1. SUFFICES ASSUME HierarchyInv, Next PROVE \A a \in DOMAIN heap : KeptOf(a)
    BY DEF KeptOf
  <2>2. QED BY <2>1, KeptStep
<1>2. QED BY <1>1, HierarchyInvariant, PTL DEF Spec, StructureKept

-----------------------------------------------------------------------------
(* What a setup has done, step by step. *)

\* Coarse solvers come only with the solver.
Subsides == cfg' = cfg /\ \A s \in Spaces : coarse'[s].exists => coarse[s].exists

LEMMA LoopSetup ==
  ASSUME SetupInv, Subsides, pc' \notin {"split", "copy", "ready"}, Progress'
  PROVE  SetupInv'
  BY DEF SetupInv, Subsides

\* What Settled looks at is the same in g.
SameSettled(h, g, a) ==
  /\ a \in In(h, Primary) /\ g[a].index = h[a].index /\ g[a].A = h[a].A
  /\ g[a].smoother = h[a].smoother /\ g[a].vectors = h[a].vectors
  /\ g[a].aggregates = h[a].aggregates /\ g[a].next[Primary] = h[a].next[Primary]
  /\ h[h[a].next[Primary]].isSetup => g[h[a].next[Primary]].isSetup

LEMMA SettledStep ==
  ASSUME SettledAbove, setups' = setups, numLevels' = numLevels,
         \A a \in In(heap', Primary) :
           heap'[a].index + 1 < numLevels => SameSettled(heap, heap', a)
  PROVE  SettledAbove'
<1>1. SUFFICES ASSUME NEW a \in In(heap', Primary), heap'[a].index + 1 < numLevels
               PROVE  Settled(heap, a)'
  BY DEF SettledAbove
<1>2. SameSettled(heap, heap', a)
  BY <1>1
<1>3. Settled(heap, a)
  BY <1>1, <1>2 DEF SettledAbove, SameSettled
<1>4. QED BY <1>2, <1>3 DEF Settled, SameSettled

LEMMA BeginSetupSetup ==
  ASSUME HierarchyInv, SetupInv, NEW r \in ReuseChoices, BeginSetup(r)
  PROVE  SetupInv'
<1>1. pc' \in {"fine", "crashed"} /\ Subsides
  BY DEF BeginSetup, Goto, Crash, Subsides
<1>2. Progress'
  BY <1>1 DEF Progress, Loop
<1>3. QED BY <1>1, <1>2, LoopSetup

LEMMA SetFineMatrixSetup ==
  ASSUME HierarchyInv, SetupInv, NEW n \in FineRows, SetFineMatrix(n), HierarchyInv'
  PROVE  SetupInv'
<1> DEFINE a == fine[Primary]
           rebuild == heap[a].isSetup /\ reuse = 0
<1>1. /\ pc = "fine" /\ cfg' = cfg /\ numLevels' = numLevels /\ setups' = setups
      /\ coarse' = coarse /\ pc' \in {"top", "crashed"}
  BY DEF SetFineMatrix, Crash, Goto
<1>2. /\ numLevels = 1 /\ HeapOK(heap') /\ setups \in Nat /\ n \in Nat
      /\ HeapOK(heap) /\ a \in DOMAIN heap
  <2>1. Alive /\ Running
    BY <1>1, SingleFacts
  <2>2. QED BY <1>1, <2>1, AliveFacts, NextInDef, HierarchyAssumption
            DEF HierarchyInv, TypeOK, Working
<1>3. SettledAbove'
  <2>1. \A b \in In(heap', Primary) : heap'[b].index \in Nat
    BY <1>2, NextInDef, LevelTypes
  <2>2. QED BY <1>1, <1>2, <2>1 DEF SettledAbove
<1>4. pc' = "top" => heap'[cur'].A.version = setups
  <2>1. SUFFICES ASSUME pc' = "top" PROVE heap'[cur'].A.version = setups
    OBVIOUS
  <2>2. CASE rebuild
    <3>1. PICK b \in Unused(Deleted(heap, a)) :
            /\ heap' = With(Deleted(heap, a), b, FineLevel(NewLevel(Primary), n))
            /\ cur' = b
      BY <2>1, <2>2 DEF SetFineMatrix, FineLevel, Crash, Goto
    <3>2. heap'[b] = FineLevel(NewLevel(Primary), n)
      BY <3>1 DEF With
    <3>3. FineLevel(NewLevel(Primary), n).A = [rows |-> n, version |-> setups]
      BY <1>2, NewLevelType, FineLevelType, TwoSpaces
    <3>4. QED BY <3>1, <3>2, <3>3
  <2>3. CASE ~rebuild
    <3>1. heap' = [heap EXCEPT ![a] = FineLevel(@, n)] /\ cur' = a
      BY <2>1, <2>3 DEF SetFineMatrix, FineLevel, Crash, Goto
    <3>2. heap[a] \in LevelType
      BY <1>2, LevelTypes
    <3>3. FineLevel(heap[a], n).A = [rows |-> n, version |-> setups]
      BY <1>2, <3>2, FineLevelType
    <3>4. heap'[a] = FineLevel(heap[a], n)
      BY <1>2, <3>1
    <3>5. QED BY <3>1, <3>3, <3>4
  <2>4. QED BY <2>2, <2>3
<1>5. Progress'
  BY <1>1, <1>3, <1>4 DEF Progress, Loop
<1>6. QED BY <1>1, <1>5, LoopSetup DEF Subsides

\* What the loop has in the mode's space.
LEMMA ProgressFacts ==
  ASSUME HierarchyInv, SetupInv, pc \in Loop, space = Primary
  PROVE  /\ SettledAbove /\ heap[cur].A.version = setups /\ HeapOK(heap) /\ TypeOK
         /\ Upper(heap, fine[Primary]) /\ LevelsOK(heap, MinFine)
         /\ cur \in In(heap, Primary) /\ cur \in DOMAIN heap
         /\ heap[cur] \in LevelType /\ heap[cur].index + 1 = numLevels
         /\ heap[cur].index \in Nat /\ numLevels \in Nat /\ setups \in Nat
         /\ \A b \in In(heap, Primary) :
              /\ b \in DOMAIN heap /\ heap[b].index \in Nat
              /\ heap[b].index + 1 < numLevels => b # cur /\ Settled(heap, b)
<1>1. SettledAbove /\ heap[cur].A.version = setups
  BY DEF SetupInv, Progress
<1>2. /\ HeapOK(heap) /\ TypeOK /\ Upper(heap, fine[Primary]) /\ LevelsOK(heap, MinFine)
      /\ cur \in In(heap, Primary) /\ cur \in DOMAIN heap
      /\ heap[cur] \in LevelType /\ heap[cur].index + 1 = numLevels
  BY LoopFacts
<1>3. numLevels \in Nat /\ setups \in Nat
  BY <1>2 DEF TypeOK
<1>4. \A b \in In(heap, Primary) : b \in DOMAIN heap /\ heap[b].index \in Nat
  BY <1>2, NextInDef, LevelTypes
<1>5. QED BY <1>1, <1>2, <1>3, <1>4 DEF SettledAbove

LEMMA ReachBottomSetup ==
  ASSUME HierarchyInv, SetupInv, ReachBottom
  PROVE  SetupInv'
<1>1. /\ pc = "top" /\ pc' = "built" /\ cfg' = cfg /\ numLevels' = numLevels
      /\ setups' = setups /\ space' = space /\ cur' = cur
  BY DEF ReachBottom, Goto
<1>2. PICK e \in BOOLEAN :
        /\ e => coarse[space].exists
        /\ coarse' = [coarse EXCEPT ![space].exists = e]
        /\ heap' = IF e THEN heap ELSE [heap EXCEPT ![cur] = SmootherSetUp(@)]
  <2>1. \A x : (coarse[space].exists /\ ~x) \in BOOLEAN
    OBVIOUS
  <2>2. QED BY <2>1 DEF ReachBottom
<1>3. pc \in Loop /\ TypeOK
  BY <1>1, LoopFacts DEF Loop
<1>4. Subsides
  BY <1>1, <1>2, <1>3 DEF Subsides, TypeOK
<1>5. Progress'
  <2>1. SUFFICES ASSUME space = Primary
                 PROVE  /\ SettledAbove' /\ heap'[cur].A.version = setups
                        /\ ~coarse'[Primary].exists => heap'[cur].smoother = heap'[cur].A
    BY <1>1 DEF Progress
  <2>2. /\ HeapOK(heap) /\ Upper(heap, fine[Primary]) /\ LevelsOK(heap, MinFine)
        /\ SettledAbove /\ cur \in DOMAIN heap /\ heap[cur] \in LevelType
        /\ heap[cur].A.version = setups
        /\ \A b \in In(heap, Primary) : heap[b].index + 1 < numLevels => b # cur
    BY <1>3, <2>1, ProgressFacts
  <2>3. Relabeled(heap, heap')
    <3>1. e => Relabeled(heap, heap')
      BY <1>2, <2>2 DEF Relabeled
    <3>2. ~e => Relabeled(heap, heap')
      BY <1>2, <2>2, SmoothedHeap
    <3>3. QED BY <3>1, <3>2
  <2>4. \A b \in DOMAIN heap : b # cur => heap'[b] = heap[b]
    BY <1>2
  <2>5. SettledAbove'
    <3>1. In(heap', Primary) = In(heap, Primary)
      BY <2>3 DEF Relabeled, In
    <3>2. \A b \in In(heap, Primary) : heap[b].next[Primary] # Null =>
             heap[b].next[Primary] \in DOMAIN heap
      BY <2>2, ChainLinks DEF Upper
    <3>3. ASSUME NEW b \in In(heap', Primary), heap'[b].index + 1 < numLevels
          PROVE  SameSettled(heap, heap', b)
      <4>1. b \in In(heap, Primary) /\ b \in DOMAIN heap /\ heap[b].index + 1 < numLevels
        BY <2>3, <3>1, <3>3, NextInDef DEF Relabeled
      <4>2. b # cur /\ heap'[b] = heap[b]
        BY <2>2, <2>4, <4>1
      <4>3. Settled(heap, b)
        BY <2>2, <4>1 DEF SettledAbove
      <4>4. heap[b].next[Primary] \in DOMAIN heap
        BY <3>2, <4>1, <4>3 DEF Settled
      <4>5. QED BY <2>3, <4>1, <4>2, <4>4 DEF SameSettled, Relabeled
    <3>4. QED BY <1>1, <2>2, <3>3, SettledStep
  <2>6. heap'[cur].A.version = setups
    BY <1>2, <2>2, SmootherSetUpType
  <2>7. ~coarse'[Primary].exists => heap'[cur].smoother = heap'[cur].A
    <3>1. coarse'[Primary].exists = e
      BY <1>2, <1>3, <2>1, TwoSpaces DEF TypeOK
    <3>2. QED BY <1>2, <2>2, <3>1, SmootherSetUpType
  <2>8. QED BY <2>5, <2>6, <2>7
<1>6. QED BY <1>1, <1>4, <1>5, LoopSetup

\* The index of a level tells it from the others; the last has the largest.
LEMMA IndexTells ==
  ASSUME NEW h, HeapOK(h), NEW r, Upper(h, r)
  PROVE  /\ \A a, b \in In(h, Primary) : h[a].index = h[b].index => a = b
         /\ \A e \in In(h, Primary) : h[e].next[Primary] = Null =>
              \A a \in In(h, Primary) :
                /\ h[a].index <= h[e].index
                /\ h[a].next[Primary] = Null => a = e
<1> DEFINE n == NextIn(h, Primary)
           ix == [d \in In(h, Primary) |-> h[d].index]
<1>1. /\ DOMAIN n = In(h, Primary)
      /\ \A d \in In(h, Primary) : n[d] = h[d].next[Primary] /\ ix[d] = h[d].index
  BY NextInDef
<1>2. Counts(n, ix)
  <2>1. \A d \in In(h, Primary) : h[d].index \in Nat
    BY NextInDef, LevelTypes
  <2>2. QED BY <1>1, <2>1 DEF Counts, Upper, Indexed
<1>3. r \in DOMAIN n /\ ix[r] = 0 /\ IsChain(n, r)
  BY <1>1 DEF Upper, IsChain
<1> HIDE DEF n, ix
<1>4. \A a, b \in DOMAIN n : ix[a] = ix[b] => a = b
  BY <1>2, <1>3, CountsApart
<1>5. ASSUME NEW e \in DOMAIN n, n[e] = Null
      PROVE  \A a \in DOMAIN n : ix[a] <= ix[e] /\ (n[a] = Null => a = e)
  <2>1. /\ \A a \in DOMAIN n : ix[a] <= ix[e]
        /\ \A a \in DOMAIN n : n[a] = Null => a = e
    BY <1>2, <1>3, <1>5, CountsToEnd
  <2>2. QED BY <2>1
<1>6. QED BY <1>1, <1>4, <1>5

\* Levels above cur stay settled when neither they nor those after them change.
LEMMA StaySettled ==
  ASSUME HierarchyInv, SetupInv, pc \in Loop, space = Primary,
         Upper(heap', fine[Primary]), cur \in In(heap', Primary),
         setups' = setups, numLevels' = numLevels,
         \A b \in In(heap', Primary) : heap'[b].index + 1 < numLevels =>
           b # cur /\ b \in In(heap, Primary) /\ heap'[b] = heap[b],
         \A b \in In(heap', Primary) :
           b \in In(heap, Primary) /\ b # heap'[cur].next[Primary] /\ heap[b].isSetup =>
             heap'[b].isSetup
  PROVE  SettledAbove'
<1>1. /\ SettledAbove /\ Upper(heap, fine[Primary]) /\ HeapOK(heap)
      /\ \A b \in In(heap, Primary) : heap[b].index + 1 < numLevels => Settled(heap, b)
  BY ProgressFacts
<1>2. SUFFICES ASSUME NEW b \in In(heap', Primary), heap'[b].index + 1 < numLevels
               PROVE  SameSettled(heap, heap', b)
  BY <1>1, SettledStep
<1>3. b # cur /\ b \in In(heap, Primary) /\ heap'[b] = heap[b]
  BY <1>2
<1>4. Settled(heap, b)
  BY <1>1, <1>2, <1>3
<1>5. heap[b].next[Primary] # Null /\ heap[heap[b].next[Primary]].isSetup
  BY <1>4 DEF Settled
<1>6. heap[b].next[Primary] \in In(heap, Primary)
  BY <1>1, <1>3, <1>5, ChainLinks DEF Upper
<1>7. /\ heap[b].next[Primary] \in In(heap', Primary)
      /\ heap[b].next[Primary] # heap'[cur].next[Primary]
  <2>1. heap'[b].next[Primary] # Null /\ heap'[b].next[Primary] = heap[b].next[Primary]
    BY <1>3, <1>5
  <2>2. /\ heap'[b].next[Primary] \in In(heap', Primary)
        /\ heap'[b].next[Primary] # heap'[cur].next[Primary]
    BY <1>3, <2>1, ChainLinks DEF Upper
  <2>3. QED BY <2>1, <2>2
<1>8. heap'[heap[b].next[Primary]].isSetup
  BY <1>5, <1>6, <1>7
<1>9. QED BY <1>3, <1>8 DEF SameSettled

\* The next level, in the mode's space.
LEMMA NextLevel ==
  ASSUME HierarchyInv, pc \in Loop, space = Primary, Next1 # Null
  PROVE  /\ Next1 \in In(heap, Primary) /\ Next1 \in DOMAIN heap /\ heap[Next1] \in LevelType
         /\ heap[Next1].index = numLevels /\ Next1 # cur /\ heap[cur].next[Primary] = Next1
<1>1. /\ Upper(heap, fine[Primary]) /\ HeapOK(heap) /\ cur \in In(heap, Primary)
      /\ heap[cur].index + 1 = numLevels /\ heap[cur] \in LevelType
  BY LoopFacts
<1>2. heap[cur].next[Primary] = Next1 /\ Next1 \in In(heap, Primary)
  BY <1>1, ChainLinks DEF Upper, Next1
<1>3. heap[Next1].index = numLevels
  BY <1>1, <1>2 DEF Upper, Indexed
<1>4. Next1 \in DOMAIN heap /\ heap[Next1] \in LevelType
  BY <1>1, <1>2, NextInDef, LevelTypes
<1>5. heap[cur].index \in Nat
  BY <1>1 DEF LevelType
<1>6. QED BY <1>1, <1>2, <1>3, <1>4, <1>5

LEMMA ReuseNextSetup ==
  ASSUME HierarchyInv, SetupInv, ReuseNext, HierarchyInv'
  PROVE  SetupInv'
<1> DEFINE a == Next1
<1>1. /\ pc = "top" /\ pc' = "matrices" /\ cfg' = cfg /\ fine' = fine /\ coarse' = coarse
      /\ numLevels' = numLevels /\ setups' = setups /\ space' = space /\ cur' = cur
      /\ heap' = [heap EXCEPT ![a].index = numLevels, ![a].A.version = 0] /\ a # Null
  BY DEF ReuseNext, Goto, KeepNext, Next1
<1>2. pc \in Loop /\ pc' \in Loop
  BY <1>1 DEF Loop
<1>3. Progress'
  <2>1. SUFFICES ASSUME space = Primary PROVE SettledAbove' /\ heap'[cur].A.version = setups
    BY <1>1 DEF Progress
  <2>2. /\ a \in In(heap, Primary) /\ a \in DOMAIN heap /\ heap[a] \in LevelType
        /\ heap[a].index = numLevels /\ a # cur
    BY <1>1, <1>2, <2>1, NextLevel
  <2>3. /\ cur \in In(heap, Primary) /\ cur \in DOMAIN heap /\ heap[cur].A.version = setups
        /\ heap[cur].index + 1 = numLevels /\ numLevels \in Nat /\ HeapOK(heap)
    BY <1>2, <2>1, ProgressFacts
  <2> HIDE DEF a
  <2>4. DOMAIN heap' = DOMAIN heap /\ \A b \in DOMAIN heap : b # a => heap'[b] = heap[b]
    BY <1>1
  <2>5. /\ heap'[a].space = heap[a].space /\ heap'[a].index = numLevels
        /\ heap'[a].isSetup = heap[a].isSetup
    BY <1>1, <2>2 DEF LevelType
  <2>6. In(heap', Primary) = In(heap, Primary)
    BY <2>4, <2>5 DEF In
  <2>7. \A b \in In(heap', Primary) : heap'[b].index + 1 < numLevels =>
          b # cur /\ b \in In(heap, Primary) /\ heap'[b] = heap[b]
    <3>1. SUFFICES ASSUME NEW b \in In(heap', Primary), heap'[b].index + 1 < numLevels
                   PROVE  b # cur /\ b \in In(heap, Primary) /\ heap'[b] = heap[b]
      OBVIOUS
    <3>2. b \in In(heap, Primary) /\ b \in DOMAIN heap
      BY <2>6, NextInDef
    <3>3. b # a
      BY <2>3, <2>5, <3>1
    <3>4. heap'[b] = heap[b]
      BY <2>4, <3>2, <3>3
    <3>5. b # cur
      BY <2>3, <3>1, <3>4
    <3>6. QED BY <3>2, <3>4, <3>5
  <2>8. \A b \in In(heap', Primary) :
          b \in In(heap, Primary) /\ b # heap'[cur].next[Primary] /\ heap[b].isSetup =>
            heap'[b].isSetup
    BY <2>4, <2>5, NextInDef
  <2>9. Upper(heap', fine[Primary])
    BY <1>1, AliveFacts DEF HierarchyInv, Structure, Alive
  <2>10. SettledAbove'
    BY <1>1, <1>2, <2>1, <2>3, <2>6, <2>7, <2>8, <2>9, StaySettled
  <2>11. QED BY <2>2, <2>3, <2>4, <2>10
<1>4. QED BY <1>1, <1>3, LoopSetup DEF Subsides

LEMMA CreateCoarseVerticesSetup ==
  ASSUME HierarchyInv, SetupInv, CreateCoarseVertices, HierarchyInv'
  PROVE  SetupInv'
<1>1. PICK c \in 1..heap[cur].A.rows : heap' = [heap EXCEPT ![cur].aggregates = c]
  BY DEF CreateCoarseVertices
<1>2. /\ pc = "vertices" /\ pc' = "matrices" /\ cfg' = cfg /\ fine' = fine
      /\ coarse' = coarse /\ numLevels' = numLevels /\ setups' = setups
      /\ space' = space /\ cur' = cur
  BY DEF CreateCoarseVertices, Goto
<1>3. pc \in Loop /\ pc' \in Loop
  BY <1>2 DEF Loop
<1>4. Progress'
  <2>1. SUFFICES ASSUME space = Primary PROVE SettledAbove' /\ heap'[cur].A.version = setups
    BY <1>2 DEF Progress
  <2>2. /\ cur \in In(heap, Primary) /\ cur \in DOMAIN heap /\ heap[cur].A.version = setups
        /\ heap[cur].index + 1 = numLevels /\ heap[cur] \in LevelType /\ numLevels \in Nat
    BY <1>3, <2>1, ProgressFacts
  <2>3. DOMAIN heap' = DOMAIN heap /\ \A b \in DOMAIN heap : b # cur => heap'[b] = heap[b]
    BY <1>1
  <2>4. /\ heap'[cur].space = heap[cur].space /\ heap'[cur].index = heap[cur].index
        /\ heap'[cur].isSetup = heap[cur].isSetup /\ heap'[cur].A = heap[cur].A
    BY <1>1, <2>2 DEF LevelType
  <2>5. In(heap', Primary) = In(heap, Primary)
    BY <2>3, <2>4 DEF In
  <2>6. \A b \in In(heap', Primary) : heap'[b].index + 1 < numLevels =>
          b # cur /\ b \in In(heap, Primary) /\ heap'[b] = heap[b]
    <3>1. SUFFICES ASSUME NEW b \in In(heap', Primary), heap'[b].index + 1 < numLevels
                   PROVE  b # cur /\ b \in In(heap, Primary) /\ heap'[b] = heap[b]
      OBVIOUS
    <3>2. b # cur
      BY <2>2, <2>4, <3>1
    <3>3. QED BY <2>3, <2>5, <3>2, NextInDef
  <2>7. \A b \in In(heap', Primary) :
          b \in In(heap, Primary) /\ b # heap'[cur].next[Primary] /\ heap[b].isSetup =>
            heap'[b].isSetup
    BY <2>3, <2>4, NextInDef
  <2>8. Upper(heap', fine[Primary])
    BY <1>2, AliveFacts DEF HierarchyInv, Structure, Alive
  <2>9. SettledAbove'
    BY <1>2, <1>3, <2>1, <2>2, <2>5, <2>6, <2>7, <2>8, StaySettled
  <2>10. QED BY <2>2, <2>4, <2>9
<1>5. QED BY <1>2, <1>4, LoopSetup DEF Subsides

LEMMA AllocateNextSetup ==
  ASSUME HierarchyInv, SetupInv, AllocateNext, HierarchyInv'
  PROVE  SetupInv'
<1> DEFINE x == heap[cur].next[space]
           l == [NewLevel(space) EXCEPT !.index = numLevels]
<1>1. /\ pc = "top" /\ cfg' = cfg /\ numLevels' = numLevels /\ setups' = setups
      /\ coarse' = coarse /\ space' = space /\ cur' = cur /\ fine' = fine
      /\ pc' \in {"vertices", "crashed"}
  BY DEF AllocateNext, Crash, Goto
<1>2. pc \in Loop
  BY <1>1 DEF Loop
<1>3. Progress'
  <2>1. SUFFICES ASSUME space = Primary, pc' = "vertices"
                 PROVE  SettledAbove' /\ heap'[cur].A.version = setups
    BY <1>1 DEF Progress, Loop
  <2>2. /\ cur \in In(heap, Primary) /\ cur \in DOMAIN heap /\ heap[cur].A.version = setups
        /\ heap[cur].index + 1 = numLevels /\ heap[cur] \in LevelType /\ numLevels \in Nat
        /\ HeapOK(heap) /\ TypeOK /\ x \in Places /\ space \in Spaces
    BY <1>2, <2>1, ProgressFacts, LoopFacts DEF Next1
  <2>3. Deletable(heap, x)
    BY <2>1 DEF AllocateNext, Crash, Goto
  <2>4. PICK a \in Unused(Deleted(heap, x)) :
          heap' = Allocated(Deleted(heap, x), cur, space, a, l)
    BY <2>3 DEF AllocateNext, Allocated
  <2>5. a \in Addresses \ DOMAIN Deleted(heap, x) /\ a \in Places
    BY <2>4 DEF Unused, Places
  <2>6. cur \notin Reach(heap, x)
    BY <2>2, <2>3, StaysItself
  <2>7. /\ HeapOK(Deleted(heap, x)) /\ DOMAIN Deleted(heap, x) = DOMAIN heap \ Reach(heap, x)
        /\ \A b \in DOMAIN heap \ Reach(heap, x) : Deleted(heap, x)[b] = heap[b]
    BY <2>2, DeletedHeap
  <2>8. l \in LevelType /\ l.index = numLevels
    BY <2>2, NewLevelType DEF NewLevel, LevelType
  <2> HIDE DEF l, x
  <2>9. IsAllocated(Deleted(heap, x), heap', cur, space, a, l)
    <3>1. cur \in DOMAIN Deleted(heap, x)
      BY <2>2, <2>6, <2>7
    <3>2. IsAllocated(Deleted(heap, x), Allocated(Deleted(heap, x), cur, space, a, l),
                      cur, space, a, l)
      BY <2>2, <2>5, <2>7, <2>8, <3>1, AllocatedHeap
    <3>3. QED BY <2>4, <3>2
  <2>10. /\ DOMAIN heap' = (DOMAIN heap \ Reach(heap, x)) \union {a}
         /\ heap'[a].index = numLevels /\ cur # a
         /\ \A b \in DOMAIN heap \ Reach(heap, x) : b # cur => heap'[b] = heap[b]
         /\ heap'[cur] = Relinked(heap[cur], Primary, a)
    BY <2>1, <2>2, <2>5, <2>6, <2>7, <2>8, <2>9 DEF IsAllocated
  <2>11. /\ heap'[cur].space = heap[cur].space /\ heap'[cur].index = heap[cur].index
         /\ heap'[cur].A = heap[cur].A /\ heap'[cur].isSetup = heap[cur].isSetup
         /\ heap'[cur].next[Primary] = a
    <3>1. LET m == Relinked(heap[cur], Primary, a)
          IN  /\ m.next[Primary] = a /\ m.next[O] = heap[cur].next[O]
              /\ m.space = heap[cur].space /\ m.index = heap[cur].index
              /\ m.A = heap[cur].A /\ m.isSetup = heap[cur].isSetup
              /\ m.aggregates = heap[cur].aggregates
      BY <2>2, <2>5, RelinkedHere
    <3>2. QED BY <2>10, <3>1
  <2>12. cur \in In(heap', Primary)
    BY <2>2, <2>6, <2>10, <2>11, NextInDef DEF In
  <2>13. \A b \in In(heap', Primary) : heap'[b].index + 1 < numLevels =>
           b # cur /\ b \in In(heap, Primary) /\ heap'[b] = heap[b]
    <3>1. SUFFICES ASSUME NEW b \in In(heap', Primary), heap'[b].index + 1 < numLevels
                   PROVE  b # cur /\ b \in In(heap, Primary) /\ heap'[b] = heap[b]
      OBVIOUS
    <3>2. b # cur /\ b # a
      BY <2>2, <2>10, <2>11, <3>1
    <3>3. b \in DOMAIN heap \ Reach(heap, x) /\ heap'[b] = heap[b]
      BY <2>10, <3>2, NextInDef
    <3>4. b \in In(heap, Primary)
      BY <3>3 DEF In
    <3>5. QED BY <3>2, <3>3, <3>4
  <2>14. \A b \in In(heap', Primary) :
           b \in In(heap, Primary) /\ b # heap'[cur].next[Primary] /\ heap[b].isSetup =>
             heap'[b].isSetup
    <3>1. SUFFICES ASSUME NEW b \in In(heap', Primary), b # a, heap[b].isSetup
                   PROVE  heap'[b].isSetup
      BY <2>11
    <3>2. b \in DOMAIN heap \ Reach(heap, x)
      BY <2>10, <3>1, NextInDef
    <3>3. QED BY <2>10, <2>11, <3>1, <3>2
  <2>15. Upper(heap', fine[Primary])
    BY <1>1, <2>1, AliveFacts DEF HierarchyInv, Structure, Alive
  <2>16. SettledAbove'
    BY <1>1, <1>2, <2>1, <2>12, <2>13, <2>14, <2>15, StaySettled
  <2>17. QED BY <2>2, <2>11, <2>16
<1>4. QED BY <1>1, <1>3, LoopSetup DEF Subsides

LEMMA DescendSetup ==
  ASSUME HierarchyInv, SetupInv, Descend
  PROVE  SetupInv'
<1> DEFINE a == Next1
<1>1. /\ pc = "matrices" /\ pc' = "top" /\ cur' = a /\ cfg' = cfg /\ coarse' = coarse
      /\ numLevels' = numLevels + 1 /\ setups' = setups /\ space' = space
  BY DEF Descend, Goto, Next1
<1>2. pc \in Loop
  BY <1>1 DEF Loop
<1>3. Progress'
  <2>1. SUFFICES ASSUME space = Primary PROVE SettledAbove' /\ heap'[a].A.version = setups
    BY <1>1 DEF Progress
  <2>2. /\ cur \in In(heap, Primary) /\ cur \in DOMAIN heap /\ heap[cur].A.version = setups
        /\ heap[cur].index + 1 = numLevels /\ heap[cur] \in LevelType /\ numLevels \in Nat
        /\ HeapOK(heap) /\ Upper(heap, fine[Primary]) /\ Working
        /\ \A b \in In(heap, Primary) :
              /\ b \in DOMAIN heap /\ heap[b].index \in Nat
              /\ heap[b].index + 1 < numLevels => b # cur /\ Settled(heap, b)
    BY <1>2, <2>1, ProgressFacts DEF HierarchyInv
  <2>3. /\ Descended(heap, heap', cur, a) /\ a \in DOMAIN heap /\ a # cur
        /\ IsSetUpBelow(heap'[a], heap[a], heap[cur].aggregates, heap[cur].A.version)
        /\ IsSetUpAbove(heap'[cur], heap[cur], heap[cur].aggregates)
    BY DescendHeap
  <2>4. /\ a \in In(heap, Primary) /\ heap[a].index = numLevels
        /\ heap[cur].next[Primary] = a /\ a # Null
    <3>1. a # Null
      BY <2>2, <2>3, LevelTypes
    <3>2. QED BY <1>2, <2>1, <3>1, NextLevel
  <2> HIDE DEF a
  <2>5. /\ DOMAIN heap' = DOMAIN heap /\ \A b \in DOMAIN heap : b # a /\ b # cur => heap'[b] = heap[b]
    BY <2>3 DEF Descended
  <2>6. /\ heap'[a].space = heap[a].space /\ heap'[a].index = heap[a].index
        /\ heap'[a].isSetup = TRUE /\ heap'[a].A.version = setups
    BY <2>2, <2>3 DEF IsSetUpBelow
  <2>7. /\ heap'[cur].space = heap[cur].space /\ heap'[cur].index = heap[cur].index
        /\ heap'[cur].next = heap[cur].next /\ heap'[cur].A = heap[cur].A
        /\ heap'[cur].smoother = heap[cur].A /\ heap'[cur].isSetup = heap[cur].isSetup
        /\ heap'[cur].vectors = heap'[cur].aggregates
    BY <2>3 DEF IsSetUpAbove
  <2>8. In(heap', Primary) = In(heap, Primary)
    BY <2>5, <2>6, <2>7 DEF In
  <2>9. \A b \in In(heap, Primary) : heap'[b].index = heap[b].index
    BY <2>2, <2>5, <2>6, <2>7
  <2>10. \A b \in DOMAIN heap : heap[b].isSetup => heap'[b].isSetup
    BY <2>5, <2>6, <2>7
  <2>11. ASSUME NEW b \in In(heap, Primary), heap[b].index + 1 < numLevels + 1
         PROVE  Settled(heap, b)'
    <3>1. CASE heap[b].index + 1 < numLevels
      <4>1. b # cur /\ b # a /\ Settled(heap, b) /\ b \in DOMAIN heap
        BY <2>2, <2>4, <3>1
      <4>2. heap'[b] = heap[b]
        BY <2>5, <4>1
      <4>3. heap[b].next[Primary] # Null /\ heap[heap[b].next[Primary]].isSetup
        BY <4>1 DEF Settled
      <4>4. heap[b].next[Primary] \in DOMAIN heap
        BY <2>2, <4>3, ChainLinks DEF Upper
      <4>5. heap'[heap[b].next[Primary]].isSetup
        BY <2>10, <4>3, <4>4
      <4>6. QED BY <1>1, <4>1, <4>2, <4>5 DEF Settled
    <3>2. CASE ~(heap[b].index + 1 < numLevels)
      <4>1. heap[b].index = heap[cur].index
        BY <2>2, <2>11, <3>2
      <4>2. b = cur
        BY <2>2, <4>1, IndexTells
      <4>3. heap'[cur].next[Primary] = a /\ heap'[a].isSetup
        BY <2>4, <2>6, <2>7
      <4>4. QED BY <1>1, <2>2, <2>4, <2>7, <4>2, <4>3 DEF Settled
    <3>3. QED BY <3>1, <3>2
  <2>12. SettledAbove'
    BY <1>1, <2>8, <2>9, <2>11 DEF SettledAbove
  <2>13. QED BY <2>6, <2>12
<1>4. QED BY <1>1, <1>3, LoopSetup DEF Subsides

LEMMA StopCoarseningSetup ==
  ASSUME HierarchyInv, SetupInv, StopCoarsening, HierarchyInv'
  PROVE  SetupInv'
<1> DEFINE x == heap[cur].next[space]
<1>1. /\ pc = "matrices" /\ cfg' = cfg /\ numLevels' = numLevels /\ setups' = setups
      /\ coarse' = coarse /\ space' = space /\ cur' = cur /\ fine' = fine
      /\ pc' \in {"built", "crashed"}
  BY DEF StopCoarsening, Crash, Goto
<1>2. pc \in Loop
  BY <1>1 DEF Loop
<1>3. Progress'
  <2>1. SUFFICES ASSUME space = Primary, pc' = "built"
                 PROVE  /\ SettledAbove' /\ heap'[cur].A.version = setups
                        /\ ~coarse[Primary].exists => heap'[cur].smoother = heap'[cur].A
    BY <1>1 DEF Progress, Loop
  <2>2. /\ cur \in In(heap, Primary) /\ cur \in DOMAIN heap /\ heap[cur].A.version = setups
        /\ heap[cur].index + 1 = numLevels /\ heap[cur] \in LevelType /\ numLevels \in Nat
        /\ HeapOK(heap) /\ space \in Spaces
    BY <1>2, <2>1, ProgressFacts, LoopFacts
  <2>3. PICK smooth \in BOOLEAN : smooth = ~coarse[space].exists
    <3>1. (~coarse[space].exists) \in BOOLEAN
      OBVIOUS
    <3>2. QED BY <3>1
  <2>4. Deletable(heap, x) /\ heap' = StopHeap(heap, cur, space, x, smooth)
    BY <2>1, <2>3 DEF StopCoarsening, StopHeap, Linked, Crash, Goto
  <2>5. Stopped(heap, heap', cur, space, x, smooth)
    <3>1. x = heap[cur].next[space]
      OBVIOUS
    <3> HIDE DEF x
    <3>2. QED BY <2>2, <2>4, <3>1, StoppedHeap
  <2> HIDE DEF x
  <2>6. /\ cur \notin Reach(heap, x) /\ DOMAIN heap' = DOMAIN heap \ Reach(heap, x)
        /\ \A b \in DOMAIN heap' \ {cur} : heap'[b] = heap[b]
        /\ heap'[cur].space = heap[cur].space /\ heap'[cur].index = heap[cur].index
        /\ heap'[cur].A = heap[cur].A /\ heap'[cur].isSetup = heap[cur].isSetup
        /\ heap'[cur].smoother = IF smooth THEN heap[cur].A ELSE heap[cur].smoother
    BY <2>5 DEF Stopped
  <2>7. cur \in In(heap', Primary)
    BY <2>2, <2>6, NextInDef DEF In
  <2>8. \A b \in In(heap', Primary) : heap'[b].index + 1 < numLevels =>
          b # cur /\ b \in In(heap, Primary) /\ heap'[b] = heap[b]
    <3>1. SUFFICES ASSUME NEW b \in In(heap', Primary), heap'[b].index + 1 < numLevels
                   PROVE  b # cur /\ b \in In(heap, Primary) /\ heap'[b] = heap[b]
      OBVIOUS
    <3>2. b # cur
      BY <2>2, <2>6, <3>1
    <3>3. b \in DOMAIN heap /\ heap'[b] = heap[b]
      BY <2>6, <3>2, NextInDef
    <3>4. b \in In(heap, Primary)
      BY <3>3 DEF In
    <3>5. QED BY <3>2, <3>3, <3>4
  <2>9. \A b \in In(heap', Primary) :
          b \in In(heap, Primary) /\ b # heap'[cur].next[Primary] /\ heap[b].isSetup =>
            heap'[b].isSetup
    BY <2>6, NextInDef
  <2>10. Upper(heap', fine[Primary])
    BY <1>1, <2>1, AliveFacts DEF HierarchyInv, Structure, Alive
  <2>11. SettledAbove'
    BY <1>1, <1>2, <2>1, <2>7, <2>8, <2>9, <2>10, StaySettled
  <2>12. ~coarse[Primary].exists => heap'[cur].smoother = heap'[cur].A
    BY <2>1, <2>3, <2>6
  <2>13. QED BY <2>2, <2>6, <2>11, <2>12
<1>4. QED BY <1>1, <1>3, LoopSetup DEF Subsides

LEMMA SetupThrowsSetup ==
  ASSUME HierarchyInv, SetupInv, SetupThrows
  PROVE  SetupInv'
<1>1. pc' = "failed" /\ cfg' = cfg /\ coarse' = coarse
  BY DEF SetupThrows, Goto
<1>2. QED BY <1>1, LoopSetup DEF Subsides, Progress, Loop

\* A complete chain that nothing leads out of is what a solve needs.
LEMMA CompleteSolid ==
  ASSUME HeapOK(heap'), Upper(heap', fine'[Primary]), NEW k, LevelsOK(heap', k),
         In(heap', Primary) = DOMAIN heap', Unlinked(heap'), Complete', numLevels' \in Nat
  PROVE  Solid'
<1>1. PICK e \in In(heap', Primary) :
        /\ heap'[e].next[Primary] = Null /\ heap'[e].index + 1 = numLevels'
        /\ Solved(heap, e)'
  BY DEF Complete
<1>2. \A a \in DOMAIN heap' :
        /\ heap'[a].next[O] = Null /\ NextOf(heap', a) = heap'[a].next[Primary]
        /\ heap'[a].index \in Nat
  BY LevelTypes DEF Unlinked, NextOf
<1>3. Joined(heap') = NextIn(heap', Primary)
  BY <1>2 DEF Joined, NextIn
<1>4. IsChain(Joined(heap'), fine'[Primary])
  BY <1>3 DEF Upper
<1>5. \E d \in DOMAIN heap' : NextOf(heap', d) = Null
  BY <1>1, <1>2
<1>6. ASSUME NEW a \in DOMAIN heap'
      PROVE  LET b == NextOf(heap', a)
             IN  IF b = Null
                   THEN heap'[a].index + 1 = numLevels' /\ Solved(heap, a)'
                   ELSE /\ heap'[a].A.version = setups' /\ heap'[a].smoother = heap'[a].A
                        /\ heap'[b].index = heap'[a].index + 1
                        /\ heap'[b].A.rows = heap'[a].aggregates
                        /\ heap'[a].vectors = heap'[a].aggregates
                        /\ heap'[a].aggregates < heap'[a].A.rows
  <2> DEFINE b == heap'[a].next[Primary]
  <2>1. NextOf(heap', a) = b /\ a \in In(heap', Primary)
    BY <1>2
  <2>2. CASE b = Null
    <3>1. a = e
      BY <1>1, <2>1, <2>2, IndexTells
    <3>2. QED BY <1>1, <2>1, <2>2, <3>1
  <2>3. CASE b # Null
    <3>1. heap'[a].index <= heap'[e].index /\ a # e
      BY <1>1, <2>1, <2>3, IndexTells
    <3>2. heap'[a].index # heap'[e].index
      BY <1>1, <2>1, <3>1, IndexTells
    <3>3. heap'[a].index + 1 < numLevels'
      BY <1>1, <1>2, <3>1, <3>2
    <3>4. Settled(heap, a)'
      BY <2>1, <3>3 DEF Complete, SettledAbove
    <3>5. b \in In(heap', Primary)
      BY <2>1, <2>3, ChainLinks DEF Upper
    <3>6. heap'[b].index = heap'[a].index + 1
      BY <2>1, <3>5 DEF Upper, Indexed
    <3>7. Shrinks(heap'[a]) /\ heap'[b].A.rows = heap'[a].aggregates
      BY <2>1, <2>3, <3>4 DEF LevelsOK, LevelOK, Settled
    <3>8. QED BY <2>1, <2>3, <3>4, <3>6, <3>7 DEF Settled, Shrinks
  <2>4. QED BY <2>2, <2>3
<1>7. QED BY <1>2, <1>4, <1>5, <1>6 DEF Solid

LEMMA SetupCoarseSolverSetup ==
  ASSUME HierarchyInv, SetupInv, SetupCoarseSolver, HierarchyInv'
  PROVE  SetupInv'
<1>1. /\ pc = "built" /\ (Hybrid => space # Primary)
      /\ heap' = heap /\ fine' = fine /\ cfg' = cfg
      /\ numLevels' = numLevels /\ setups' = setups
      /\ coarse' = IF coarse[space].exists
                     THEN [coarse EXCEPT ![space].A = heap[Coarsest(cur, space)].A] ELSE coarse
      /\ \/ cfg.hostRows > 0 /\ pc' = "split"
         \/ ~(cfg.hostRows > 0) /\ pc' = "ready"
  BY DEF SetupCoarseSolver, Finish, Goto
<1>2. pc \in Loop
  BY <1>1 DEF Loop
<1>3. /\ TypeOK /\ HeapOK(heap) /\ Alive /\ InPlace /\ space \in Spaces
      /\ Upper(heap, fine[Primary]) /\ LevelsOK(heap, MinFine)
      /\ space = O => Hybrid
  BY <1>2, LoopFacts
<1>4. \A s \in Spaces : coarse'[s].exists = coarse[s].exists
  BY <1>1, <1>3 DEF TypeOK
<1>5. ASSUME space = Primary PROVE Complete'
  <2>1. /\ SettledAbove /\ heap[cur].A.version = setups /\ cur \in In(heap, Primary)
        /\ heap[cur].index + 1 = numLevels
    BY <1>2, <1>5, ProgressFacts
  <2>2. heap[cur].next[Primary] = Null
    BY <1>1, <1>2, <1>5 DEF HierarchyInv, Working, Next1
  <2>3. ~coarse[Primary].exists => heap[cur].smoother = heap[cur].A
    BY <1>1, <1>2, <1>5 DEF SetupInv, Progress
  <2>4. heap[cur].space = Primary
    BY <2>1, NextInDef
  <2>5. heap' = heap /\ numLevels' = numLevels /\ setups' = setups
    BY <1>1
  <2>6. PICK e \in In(heap, Primary) : e = cur
    BY <2>1
  <2>7. Solved(heap, e)'
    <3>1. CASE coarse[Primary].exists
      <4>1. coarse' = [coarse EXCEPT ![Primary].A = heap[cur].A]
        BY <1>1, <1>5, <3>1, CoarsestIsCur
      <4>2. coarse'[Primary].A = heap[cur].A /\ coarse'[Primary].exists = coarse[Primary].exists
        BY <1>3, <4>1, TwoSpaces DEF TypeOK
      <4>3. QED BY <2>5, <2>1, <2>4, <2>6, <3>1, <4>2 DEF Solved
    <3>2. CASE ~coarse[Primary].exists
      <4>1. coarse' = coarse
        BY <1>1, <1>5, <3>2
      <4>2. QED BY <2>5, <2>1, <2>3, <2>4, <2>6, <3>2, <4>1 DEF Solved
    <3>3. QED BY <3>1, <3>2
  <2>8. SettledAbove'
    BY <2>5, <2>1 DEF SettledAbove, Settled
  <2>9. QED BY <2>5, <2>1, <2>2, <2>6, <2>7, <2>8 DEF Complete
<1>6. Hybrid' = Hybrid /\ cfg.hostRows \in Nat
  BY <1>1, <1>3, ConfigKept, ConfigTyped DEF TypeOK
<1>7. pc' = "split" => Complete'
  <2>1. cfg.hostRows > 0 => space = Primary
    BY <1>3, ConfigTyped, TwoSpaces DEF TypeOK
  <2>2. QED BY <1>1, <1>5, <2>1
<1>8. ASSUME pc' = "ready", ~Hybrid PROVE Solid'
  <2>1. space = Primary
    BY <1>3, <1>8, TwoSpaces
  <2>2. In(heap', Primary) = DOMAIN heap'
    BY <1>1, <1>2, <2>1, LoopFacts
  <2>3. Unlinked(heap')
    BY <1>1, <1>3, <1>6, <1>8 DEF InPlace
  <2>4. numLevels' \in Nat
    BY <1>1, <1>3 DEF TypeOK
  <2>5. /\ HeapOK(heap') /\ Upper(heap', fine'[Primary]) /\ LevelsOK(heap', MinFine)
    BY <1>1, <1>3
  <2>6. QED BY <1>5, <2>1, <2>2, <2>3, <2>4, <2>5, CompleteSolid
<1>9. Progress'
  BY <1>1 DEF Progress, Loop
<1>10. QED BY <1>1, <1>4, <1>6, <1>7, <1>8, <1>9 DEF SetupInv

LEMMA SwitchSpaceSetup ==
  ASSUME HierarchyInv, SetupInv, SwitchSpace
  PROVE  SetupInv'
<1>1. /\ cfg' = cfg /\ coarse' = coarse
      /\ (pc' = "crashed" \/ (pc' = "top" /\ space' = O))
  BY DEF SwitchSpace, Crash, Goto, O
<1>2. Progress'
  BY <1>1, TwoSpaces DEF Progress, Loop
<1>3. QED BY <1>1, <1>2, LoopSetup DEF Subsides

LEMMA SplitSetup ==
  ASSUME HierarchyInv, SetupInv, Split
  PROVE  SetupInv'
<1> DEFINE R == Chain(fine[Primary], Primary)
           Small == {a \in R : heap[a].A.rows <= cfg.hostRows}
           Splits(a) == \A b \in Small : heap[a].index <= heap[b].index
<1>1. /\ pc = "split" /\ prev' = Null
      /\ cfg' = cfg /\ heap' = heap /\ fine' = fine /\ coarse' = coarse
      /\ numLevels' = numLevels /\ setups' = setups
  BY DEF Split
<1>2. /\ TypeOK /\ HeapOK(heap) /\ Alive /\ InPlace
      /\ Upper(heap, fine[Primary]) /\ LevelsOK(heap, MinFine)
      /\ In(heap, O) = {} /\ In(heap, Primary) = DOMAIN heap
      /\ fine[Primary] \in In(heap, Primary)
      /\ ~Hybrid /\ cfg.hostRows > 0
  BY <1>1, AliveFacts, SingleFacts DEF HierarchyInv, Copying
<1>3. R = In(heap, Primary) /\ In(heap, Primary) \subseteq Addresses
  <2>1. In(heap, Primary) \subseteq Addresses
    BY <1>2, NextInDef DEF HeapOK
  <2>2. QED BY <1>2, <2>1, WholeChain, TwoSpaces DEF Chain, Upper
<1>4. Complete'
  BY <1>1 DEF SetupInv, Complete, SettledAbove, Settled, Solved
<1> HIDE DEF R
<1>5. /\ pc' \in {"copy", "ready"}
      /\ pc' = "copy" => /\ cur' # Null
                         /\ last' # Null => heap[last'].next[Primary] = cur'
  <2>1. CASE Small = {}
    <3>1. pc' = "ready"
      BY <2>1 DEF Split, Goto, R
    <3>2. QED BY <3>1
  <2>2. CASE Small # {}
    <3> DEFINE a == CHOOSE b \in Small : Splits(b)
               b0 == CHOOSE b \in R : heap[b].next[Primary] = a
    <3>1. /\ pc' = "copy" /\ cur' = a
          /\ last' = IF a = fine[Primary] THEN Null ELSE b0
      BY <2>2 DEF Split, Goto, R
    <3>2. a \in Small
      <4>1. Small \in SUBSET In(heap, Primary)
        BY <1>3
      <4>2. \E b \in Small : Splits(b)
        <5> HIDE DEF Small
        <5>1. QED BY <1>2, <2>2, <4>1, FirstLevel
      <4>3. QED BY <4>2
    <3> HIDE DEF a
    <3>3. a \in In(heap, Primary) /\ a # Null
      BY <3>2, <1>3, NullIsNoPlace
    <3>4. a # fine[Primary] => b0 \in R /\ heap[b0].next[Primary] = a
      <4>1. SUFFICES ASSUME a # fine[Primary] PROVE \E b \in R : heap[b].next[Primary] = a
        OBVIOUS
      <4>2. /\ DOMAIN NextIn(heap, Primary) = In(heap, Primary)
            /\ \A b \in In(heap, Primary) : NextIn(heap, Primary)[b] = heap[b].next[Primary]
        BY NextInDef
      <4>3. \E b \in In(heap, Primary) : NextIn(heap, Primary)[b] = a
        BY <1>2, <3>3, <4>1, <4>2, HasPredecessor DEF Upper
      <4>4. QED BY <1>3, <4>2, <4>3
    <3>5. QED BY <3>1, <3>3, <3>4
  <2>3. QED BY <2>1, <2>2
<1>6. pc' = "copy" => Copies'
  <2>1. SUFFICES ASSUME pc' = "copy" PROVE Copies'
    OBVIOUS
  <2>2. In(heap', O) = {} /\ Indexed(heap', O)
    BY <1>1, <1>2 DEF Indexed
  <2>3. QED BY <1>1, <1>4, <1>5, <2>1, <2>2 DEF Copies
<1>7. ASSUME pc' = "ready", setups = 1 PROVE Solid'
  <2>1. Unlinked(heap')
    BY <1>1, <1>2, <1>7 DEF InPlace
  <2>2. numLevels' \in Nat /\ In(heap', Primary) = DOMAIN heap'
    BY <1>1, <1>2 DEF TypeOK
  <2>3. HeapOK(heap') /\ Upper(heap', fine'[Primary]) /\ LevelsOK(heap', MinFine)
    BY <1>1, <1>2
  <2>4. QED BY <1>4, <2>1, <2>2, <2>3, CompleteSolid
<1>8. Progress'
  BY <1>5 DEF Progress, Loop
<1>9. \A s \in Spaces : coarse'[s].exists = coarse[s].exists
  BY <1>1
<1>10. QED BY <1>1, <1>2, <1>5, <1>6, <1>7, <1>8, <1>9 DEF SetupInv

LEMMA CopiedLevelData ==
  ASSUME NEW l, l \in LevelType
  PROVE  LET m == CopiedLevel(l, FALSE)
         IN  /\ Copied(m, l) /\ m.smoother = m.A
             /\ m.space = O /\ m.next[Primary] = Null /\ m.next[O] = Null
<1> DEFINE copy == [l EXCEPT !.space = O, !.next = NoNext, !.smoother = NoMatrix]
<1>1. /\ copy \in LevelType /\ Copied(copy, l) /\ copy.space = O /\ copy.next = NoNext
  BY TwoSpaces DEF LevelType, NoNext, NoMatrix, MatrixType, Places, Copied
<1> HIDE DEF copy
<1>2. LET m == SmootherSetUp(copy)
      IN  /\ m \in LevelType /\ m.space = copy.space /\ m.index = copy.index /\ m.A = copy.A
          /\ m.isSetup = copy.isSetup /\ m.smoother = copy.A /\ m.aggregates = copy.aggregates
          /\ m.vectors = copy.vectors /\ m.next = copy.next
  BY <1>1, SmootherSetUpType
<1>3. CopiedLevel(l, FALSE) = SmootherSetUp(copy)
  BY DEF CopiedLevel, copy
<1>4. QED BY <1>1, <1>2, <1>3, TwoSpaces DEF Copied, NoNext

LEMMA CopyLevelSetup ==
  ASSUME HierarchyInv, SetupInv, CopyLevel
  PROVE  SetupInv'
<1>1. /\ pc = "copy" /\ cur # Null /\ pc' = pc /\ cfg' = cfg
      /\ numLevels' = numLevels /\ setups' = setups /\ last' = last
      /\ coarse' = [coarse EXCEPT ![Primary].exists = FALSE]
      /\ cur' = heap[cur].next[Primary]
  BY DEF CopyLevel
<1>2. /\ TypeOK /\ HeapOK(heap) /\ Upper(heap, fine[Primary])
      /\ cur \in In(heap, Primary) /\ last \in In(heap, Primary) \union {Null}
      /\ prev = Null => In(heap, O) = {}
      /\ prev # Null => prev \in In(heap, O)
      /\ IsChain(NextIn(heap, O), first)
  BY <1>1, CopyFacts
<1>3. Subsides
  BY <1>1, <1>2, TwoSpaces DEF Subsides, TypeOK
<1>4. ASSUME ~cfg.coarse, setups = 1 PROVE Copies'
  <2>1. Copies /\ coarse[Primary].exists = FALSE /\ coarse[O].exists = FALSE
    <3>1. ~coarse[Primary].exists /\ ~coarse[O].exists
      BY <1>4, TwoSpaces DEF SetupInv
    <3>2. coarse[Primary].exists \in BOOLEAN /\ coarse[O].exists \in BOOLEAN
      BY <1>2, TwoSpaces DEF TypeOK
    <3>3. QED BY <1>1, <1>4, <3>1, <3>2 DEF SetupInv
  <2>2. coarse'[Primary].exists = FALSE /\ coarse'[O].exists = FALSE
    BY <1>1, <1>2, <2>1, TwoSpaces DEF TypeOK
  <2>3. heap[cur] \in LevelType /\ cur \in DOMAIN heap /\ heap[cur].index \in Nat
    BY <1>2, NextInDef, LevelTypes
  <2>4. PICK a \in Places : CopyAt(a)
    BY CopyLevelHeap
  <2>5. /\ a \in Addresses \ DOMAIN heap /\ a # Null /\ prev' = a
        /\ first' = (IF prev = Null THEN a ELSE first)
        /\ heap'[a] = CopiedLevel(heap[cur], FALSE)
        /\ In(heap', O) = In(heap, O) \union {a} /\ In(heap', Primary) = In(heap, Primary)
        /\ \A b \in DOMAIN heap : b # prev => heap'[b] = heap[b]
        /\ prev # Null => heap'[prev] = Relinked(heap[prev], O, a)
    BY <2>1, <2>4, NullIsNoPlace DEF CopyAt, CopyMade
  <2>6. /\ Copied(heap'[a], heap[cur]) /\ heap'[a].smoother = heap'[a].A
        /\ heap'[a].next[O] = Null
    BY <2>3, <2>5, CopiedLevelData
  <2>7. \A d \in In(heap, Primary) : heap'[d] = heap[d] /\ d \in DOMAIN heap
    <3>1. \A d \in In(heap, Primary) : d # prev
      BY <1>2, NextInDef, NullIsNoPlace, TwoSpaces DEF HeapOK
    <3>2. QED BY <2>5, <3>1, NextInDef
  <2>8. prev # Null =>
          /\ prev \in DOMAIN heap /\ prev # a
          /\ heap'[prev].next[O] = a /\ heap'[prev].index = heap[prev].index
          /\ heap'[prev].smoother = heap[prev].smoother /\ heap'[prev].A = heap[prev].A
          /\ heap'[prev].aggregates = heap[prev].aggregates
          /\ heap'[prev].vectors = heap[prev].vectors
    <3>1. SUFFICES ASSUME prev # Null
                   PROVE  /\ prev \in DOMAIN heap /\ prev # a
                          /\ heap'[prev].next[O] = a /\ heap'[prev].index = heap[prev].index
                          /\ heap'[prev].smoother = heap[prev].smoother
                          /\ heap'[prev].A = heap[prev].A
                          /\ heap'[prev].aggregates = heap[prev].aggregates
                          /\ heap'[prev].vectors = heap[prev].vectors
      OBVIOUS
    <3>2. prev \in DOMAIN heap /\ heap[prev] \in LevelType /\ O \in Spaces /\ a \in Places
      BY <1>2, <3>1, NextInDef, LevelTypes, TwoSpaces
    <3>3. LET m == Relinked(heap[prev], O, a)
          IN  /\ m \in LevelType /\ m.space = heap[prev].space
              /\ m.index = heap[prev].index /\ m.A = heap[prev].A
              /\ m.isSetup = heap[prev].isSetup /\ m.smoother = heap[prev].smoother
              /\ m.aggregates = heap[prev].aggregates /\ m.vectors = heap[prev].vectors
              /\ m.next[O] = a /\ \A t \in Spaces : t # O => m.next[t] = heap[prev].next[t]
      BY <3>2, RelinkedType
    <3>4. QED BY <2>5, <3>1, <3>2, <3>3
  \* Of an old copy only the link may have changed.
  <2>9. \A b \in In(heap, O) :
          /\ b \in DOMAIN heap /\ b # a /\ heap'[b].index = heap[b].index
          /\ heap'[b].smoother = heap[b].smoother /\ heap'[b].A = heap[b].A
          /\ heap'[b].aggregates = heap[b].aggregates /\ heap'[b].vectors = heap[b].vectors
          /\ heap'[b].next[O] = IF b = prev THEN a ELSE heap[b].next[O]
    <3>1. SUFFICES ASSUME NEW b \in In(heap, O)
                   PROVE  /\ b \in DOMAIN heap /\ b # a /\ heap'[b].index = heap[b].index
                          /\ heap'[b].smoother = heap[b].smoother /\ heap'[b].A = heap[b].A
                          /\ heap'[b].aggregates = heap[b].aggregates
                          /\ heap'[b].vectors = heap[b].vectors
                          /\ heap'[b].next[O] = IF b = prev THEN a ELSE heap[b].next[O]
      OBVIOUS
    <3>2. b \in DOMAIN heap /\ b # Null /\ b # a
      BY <1>2, <2>5, NextInDef, LevelTypes
    <3>3. CASE b = prev
      BY <2>8, <3>2, <3>3
    <3>4. CASE b # prev
      BY <2>5, <3>2, <3>4
    <3>5. QED BY <3>3, <3>4
  <2>10. Complete'
    <3>1. SettledAbove'
      <4>1. SUFFICES ASSUME NEW d \in In(heap', Primary), heap'[d].index + 1 < numLevels
                     PROVE  SameSettled(heap, heap', d)
        BY <1>1, <2>1, SettledStep DEF Copies, Complete
      <4>2. d \in In(heap, Primary) /\ heap'[d] = heap[d]
        BY <2>5, <2>7, <4>1
      <4>3. Settled(heap, d)
        BY <2>1, <4>1, <4>2 DEF Copies, Complete, SettledAbove
      <4>4. heap[d].next[Primary] \in In(heap, Primary)
        BY <1>2, <4>2, <4>3, ChainLinks DEF Upper, Settled
      <4>5. heap'[heap[d].next[Primary]] = heap[heap[d].next[Primary]]
        BY <2>7, <4>4
      <4>6. QED BY <4>2, <4>5 DEF SameSettled
    <3>2. PICK e \in In(heap, Primary) :
            heap[e].next[Primary] = Null /\ heap[e].index + 1 = numLevels /\ Solved(heap, e)
      BY <2>1 DEF Copies, Complete
    <3>3. heap'[e] = heap[e] /\ heap[e].space = Primary
      BY <2>7, <3>2, NextInDef
    <3>4. Solved(heap, e)'
      BY <1>1, <2>1, <2>2, <3>2, <3>3 DEF Solved
    <3>5. QED BY <1>1, <2>5, <3>1, <3>2, <3>3, <3>4 DEF Complete
  <2>11. Indexed(heap', O)
    <3>1. SUFFICES ASSUME NEW b \in In(heap', O), heap'[b].next[O] \in In(heap', O)
                   PROVE  heap'[heap'[b].next[O]].index = heap'[b].index + 1
      BY DEF Indexed
    <3>2. heap'[b].next[O] # Null
      BY <1>2, <2>5, <3>1, NextInDef, NullIsNoPlace DEF HeapOK
    <3>3. b \in In(heap, O)
      BY <2>5, <2>6, <3>1, <3>2
    <3>4. CASE b = prev
      <4>1. heap[cur].index = heap[prev].index + 1
        BY <1>1, <1>2, <2>1, <3>3, <3>4, NextInDef, NullIsNoPlace DEF Copies, HeapOK
      <4>2. heap'[a].index = heap[cur].index
        BY <2>6 DEF Copied
      <4>3. QED BY <2>9, <3>3, <3>4, <4>1, <4>2
    <3>5. CASE b # prev
      <4>1. heap'[b].next[O] = heap[b].next[O]
        BY <2>9, <3>3, <3>5
      <4>2. heap[b].next[O] \in In(heap, O)
        BY <1>2, <3>2, <3>3, <4>1, ChainLinks
      <4>3. heap[heap[b].next[O]].index = heap[b].index + 1
        BY <2>1, <3>3, <4>2 DEF Copies, Indexed
      <4>4. QED BY <2>9, <3>3, <4>1, <4>2, <4>3
    <3>6. QED BY <3>4, <3>5
  <2>12. ASSUME NEW b \in In(heap', O)
         PROVE  /\ heap'[b].smoother = heap'[b].A
                /\ \E d \in In(heap', Primary) : Copied(heap'[b], heap'[d])
                /\ heap'[b].next[O] = Null => b = prev'
    <3>1. CASE b = a
      BY <1>2, <2>5, <2>6, <2>7, <3>1
    <3>2. CASE b # a
      <4>1. b \in In(heap, O)
        BY <2>5, <3>2
      <4>2. /\ heap[b].smoother = heap[b].A
            /\ heap[b].next[O] = Null => b = prev
        BY <2>1, <4>1 DEF Copies
      <4>3. PICK d \in In(heap, Primary) : Copied(heap[b], heap[d])
        BY <2>1, <4>1 DEF Copies
      <4>4. Copied(heap'[b], heap'[d])
        BY <2>7, <2>9, <4>1, <4>3 DEF Copied
      <4>5. heap'[b].next[O] # Null
        BY <2>5, <2>9, <4>1, <4>2
      <4>6. QED BY <2>5, <2>9, <4>1, <4>2, <4>4, <4>5
    <3>3. QED BY <3>1, <3>2
  <2>13. last # Null =>
           /\ heap'[last].next[Primary] # Null
           /\ heap'[first'].index = heap'[last].index + 1
    <3>1. SUFFICES ASSUME last # Null
                   PROVE  /\ heap[last].next[Primary] # Null
                          /\ heap'[first'].index = heap[last].index + 1
      BY <1>2, <2>7
    <3>2. last \in In(heap, Primary)
      BY <1>2, <3>1
    <3>3. CASE prev = Null
      <4>1. heap[last].next[Primary] = cur
        BY <2>1, <3>1, <3>3 DEF Copies
      <4>2. heap[cur].index = heap[last].index + 1
        BY <1>2, <3>2, <4>1 DEF Upper, Indexed
      <4>3. heap'[a].index = heap[cur].index
        BY <2>6 DEF Copied
      <4>4. QED BY <1>1, <2>5, <3>3, <4>1, <4>2, <4>3
    <3>4. CASE prev # Null
      <4>1. /\ heap[last].next[Primary] # Null
            /\ heap[first].index = heap[last].index + 1
        BY <2>1, <3>1, <3>4 DEF Copies
      <4>2. first \in In(heap, O)
        <5>1. In(heap, O) # {}
          BY <1>2, <3>4
        <5>2. first # Null
          BY <1>2, <5>1, NoRootNoLower DEF IsChain
        <5>3. QED BY <1>2, <5>2, ChainLinks
      <4>3. QED BY <2>5, <2>9, <3>4, <4>1, <4>2
    <3>5. QED BY <3>3, <3>4
  <2>14. cur' # Null => heap'[cur'].index = heap'[a].index + 1
    <3>1. SUFFICES ASSUME cur' # Null PROVE heap'[cur'].index = heap'[a].index + 1
      OBVIOUS
    <3>2. cur' \in In(heap, Primary)
      BY <1>1, <1>2, <3>1, ChainLinks DEF Upper
    <3>3. heap[cur'].index = heap[cur].index + 1
      BY <1>1, <1>2, <3>2 DEF Upper, Indexed
    <3>4. QED BY <2>6, <2>7, <3>2, <3>3 DEF Copied
  <2>15. cur' = Null => heap'[a].index + 1 = numLevels
    <3>1. SUFFICES ASSUME cur' = Null PROVE heap'[a].index + 1 = numLevels
      OBVIOUS
    <3>2. PICK e \in In(heap, Primary) :
            heap[e].next[Primary] = Null /\ heap[e].index + 1 = numLevels
      BY <2>1 DEF Copies, Complete
    <3>3. heap[cur].next[Primary] = Null
      BY <1>1, <3>1
    <3>4. cur = e
      BY <1>2, <3>2, <3>3, IndexTells
    <3>5. QED BY <2>6, <3>2, <3>4 DEF Copied
  <2>16. QED BY <1>1, <2>5, <2>10, <2>11, <2>12, <2>13, <2>14, <2>15 DEF Copies
<1>5. Progress'
  BY <1>1 DEF Progress, Loop
<1>6. cfg' = cfg /\ \A s \in Spaces : coarse'[s].exists => coarse[s].exists
  BY <1>3 DEF Subsides
<1>7. ~cfg'.coarse => \A s \in Spaces : ~coarse'[s].exists
  BY <1>6 DEF SetupInv
<1>8. QED BY <1>1, <1>4, <1>5, <1>7 DEF SetupInv

\* The copies, hung to the last level that is kept, are what a solve needs.
LEMMA LinkCopiesSolid ==
  ASSUME HierarchyInv, Copies, cur = Null, pc = "copy", setups = 1, last # Null,
         ~coarse[O].exists, NEW x, x = heap[last].next[Primary], Deletable(heap, x),
         heap' = CrossHeap(heap, last, x, first),
         fine' = [fine EXCEPT ![O] = first], numLevels' = numLevels, setups' = setups, coarse' = coarse
  PROVE  Solid'
<1>1. /\ TypeOK /\ HeapOK(heap) /\ Alive /\ InPlace
      /\ Upper(heap, fine[Primary]) /\ LevelsOK(heap, MinFine) /\ Lower(heap, first)
      /\ IsChain(NextIn(heap, O), first) /\ ~Hybrid
      /\ last \in In(heap, Primary) /\ last \in DOMAIN heap /\ numLevels \in Nat
      /\ first \in Places
  BY CopyFacts, NextInDef, TwoSpaces DEF TypeOK
<1>2. Unlinked(heap)
  BY <1>1 DEF InPlace
<1>3. /\ prev # Null /\ prev \in In(heap, O) /\ heap[prev].next[O] = Null
      /\ heap[prev].index + 1 = numLevels
      /\ x # Null /\ heap[first].index = heap[last].index + 1
  BY CopyFacts DEF Copies
<1>4. /\ SettledAbove /\ Indexed(heap, O)
      /\ \A a \in In(heap, O) :
           /\ heap[a].smoother = heap[a].A
           /\ \E d \in In(heap, Primary) : Copied(heap[a], heap[d])
           /\ heap[a].next[O] = Null => a = prev
  BY DEF Copies, Complete
<1>5. PICK e \in In(heap, Primary) :
        heap[e].next[Primary] = Null /\ heap[e].index + 1 = numLevels /\ Solved(heap, e)
  BY DEF Copies, Complete
<1>6. /\ \A a, b \in In(heap, Primary) : heap[a].index = heap[b].index => a = b
      /\ \A a \in In(heap, Primary) : heap[a].index <= heap[e].index /\ heap[a].index \in Nat
      /\ \A a \in In(heap, Primary) : heap[a].next[Primary] # Null => a # e
  BY <1>1, <1>5, IndexTells, NextInDef, LevelTypes
\* What the loop left of a level that another follows.
<1>7. ASSUME NEW a \in In(heap, Primary), heap[a].index # heap[e].index
      PROVE  LET b == heap[a].next[Primary]
             IN  /\ heap[a].A.version = setups /\ heap[a].smoother = heap[a].A
                 /\ heap[a].vectors = heap[a].aggregates
                 /\ heap[a].aggregates < heap[a].A.rows
                 /\ b \in In(heap, Primary) /\ heap[b].index = heap[a].index + 1
                 /\ heap[b].A.rows = heap[a].aggregates
  <2>1. heap[a].index + 1 < numLevels
    BY <1>1, <1>5, <1>6, <1>7
  <2>2. Settled(heap, a)
    BY <1>4, <2>1 DEF SettledAbove
  <2>3. heap[a].next[Primary] \in In(heap, Primary)
    BY <1>1, <2>2, ChainLinks DEF Upper, Settled
  <2>4. heap[heap[a].next[Primary]].index = heap[a].index + 1
    BY <1>1, <2>3 DEF Upper, Indexed
  <2>5. Shrinks(heap[a]) /\ heap[heap[a].next[Primary]].A.rows = heap[a].aggregates
    BY <1>1, <2>2 DEF LevelsOK, LevelOK, Settled
  <2>6. QED BY <2>2, <2>3, <2>4, <2>5 DEF Settled, Shrinks
<1>8. x \in In(heap, Primary)
  BY <1>1, <1>3, ChainLinks DEF Upper
<1>9. IsCrossHeap(heap, heap', last, x, first)
  BY <1>1, CrossedHeap
<1>10. HeapOK(heap') /\ CutTo(heap, heap', last, x) /\ heap'[last] = Crossed(heap[last], first)
  BY <1>9 DEF IsCrossHeap
<1>11. /\ last \in In(heap', Primary) /\ Upper(heap', fine[Primary])
       /\ In(heap', Primary) \subseteq In(heap, Primary)
       /\ In(heap', O) = In(heap, O) \ Reach(heap, x)
       /\ \A b \in In(heap', Primary) : b # last => heap[b].next[Primary] # Null
  BY <1>1, <1>3, <1>10, CutUpper
<1>12. In(heap', O) = In(heap, O)
  <2>1. Reach(heap, x) \subseteq In(heap, Primary)
    BY <1>1, <1>2, <1>8, ChainDeletable
  <2>2. In(heap, Primary) \intersect In(heap, O) = {}
    BY TwoSpaces DEF In
  <2>3. QED BY <1>11, <2>1, <2>2
<1>13. DOMAIN heap' = In(heap', Primary) \union In(heap', O)
       /\ In(heap', Primary) \intersect In(heap', O) = {}
  <2>1. \A a \in DOMAIN heap' : heap'[a].space \in Spaces
    BY <1>10, LevelTypes
  <2>2. QED BY <2>1, TwoSpaces DEF In
<1>14. \A a \in DOMAIN heap' : a # last => heap'[a] = heap[a] /\ a \in DOMAIN heap
  BY <1>10 DEF CutTo
<1>15. /\ heap'[last].space = heap[last].space /\ heap'[last].index = heap[last].index
       /\ heap'[last].A = heap[last].A /\ heap'[last].smoother = heap[last].smoother
       /\ heap'[last].aggregates = heap[last].aggregates
       /\ heap'[last].vectors = heap[last].vectors
       /\ heap'[last].next[Primary] = Null /\ heap'[last].next[O] = first
  <2>1. heap[last] \in LevelType
    BY <1>1, LevelTypes
  <2>2. IsCrossed(heap'[last], heap[last], first)
    BY <1>1, <1>10, <2>1, CrossedType
  <2>3. QED BY <2>2 DEF IsCrossed
<1>16. \A a \in In(heap', O) :
         /\ a # last /\ heap'[a] = heap[a] /\ a \in In(heap, O) /\ a \in DOMAIN heap'
         /\ heap'[a].next[Primary] = Null
  <2>1. \A a \in In(heap', O) : a # last
    BY <1>11, <1>13
  <2>2. QED BY <1>1, <1>12, <1>14, <2>1, NextInDef DEF Lower, Apart
<1>17. \A a \in In(heap', Primary) :
         /\ a \in DOMAIN heap' /\ a \in In(heap, Primary)
         /\ heap[a].next[Primary] # Null
         /\ a # last => heap'[a] = heap[a] /\ heap'[a].next[O] = Null
         /\ heap'[a].index = heap[a].index /\ heap'[a].A = heap[a].A
         /\ heap'[a].smoother = heap[a].smoother /\ heap'[a].aggregates = heap[a].aggregates
         /\ heap'[a].vectors = heap[a].vectors
  BY <1>2, <1>3, <1>11, <1>14, <1>15, NextInDef DEF Unlinked
<1>18. first # Null /\ first \in In(heap', O)
  <2>1. first # Null
    BY <1>1, <1>3, NoRootNoLower DEF IsChain
  <2>2. QED BY <1>1, <1>12, <2>1, ChainLinks
<1>19. \A a \in DOMAIN heap' :
         /\ a \in In(heap', Primary) /\ a # last => NextOf(heap', a) = heap[a].next[Primary]
         /\ a = last => NextOf(heap', a) = first
         /\ a \in In(heap', O) => NextOf(heap', a) = heap[a].next[O]
  BY <1>15, <1>16, <1>17 DEF NextOf
<1>20. IsChain(Joined(heap'), fine[Primary])
  <2> DEFINE n1 == NextIn(heap', Primary)
             n2 == NextIn(heap', O)
             m == Joined(heap')
  <2>1. /\ DOMAIN n1 = In(heap', Primary) /\ DOMAIN n2 = In(heap', O)
        /\ \A a \in In(heap', Primary) : n1[a] = heap'[a].next[Primary]
        /\ \A a \in In(heap', O) : n2[a] = heap'[a].next[O]
    BY NextInDef
  <2>2. IsChain(n1, fine[Primary]) /\ fine[Primary] # Null
    BY <1>11 DEF Upper
  <2>3. IsChain(n2, first)
    <3>1. n2 = NextIn(heap, O)
      BY <1>12, <1>16 DEF NextIn
    <3>2. QED BY <1>1, <3>1
  <2>4. DOMAIN m = DOMAIN heap' /\ \A a \in DOMAIN heap' : m[a] = NextOf(heap', a)
    BY DEF Joined
  <2>5. last \in DOMAIN n1 /\ n1[last] = Null /\ m[last] = first
    <3>1. last \in In(heap', Primary)
      BY <1>11
    <3>2. last \in DOMAIN heap' /\ heap'[last].next[Primary] = Null
      BY <1>15, <1>17, <3>1
    <3>3. NextOf(heap', last) = first
      BY <1>19, <3>2
    <3>4. n1[last] = Null
      BY <2>1, <3>1, <3>2
    <3>5. m[last] = first
      BY <2>4, <3>2, <3>3
    <3>6. QED BY <2>1, <3>1, <3>4, <3>5
  <2>6. \A a \in DOMAIN n1 : a # last => m[a] = n1[a]
    BY <1>17, <1>19, <2>1, <2>4
  <2>7. \A a \in DOMAIN n2 : m[a] = n2[a]
    BY <1>16, <1>19, <2>1, <2>4
  <2>8. DOMAIN m = DOMAIN n1 \union DOMAIN n2 /\ DOMAIN n1 \intersect DOMAIN n2 = {}
    BY <1>13, <2>1, <2>4
  <2> HIDE DEF n1, n2, m
  <2>9. IsChain(m, fine[Primary])
    BY <1>18, <2>2, <2>3, <2>5, <2>6, <2>7, <2>8, JoinedChains
  <2>10. QED BY <2>9 DEF m
<1>21. prev \in DOMAIN heap' /\ NextOf(heap', prev) = Null
  BY <1>3, <1>12, <1>16, <1>19
<1>22. \A a \in DOMAIN heap' : heap'[a].next[Primary] = Null \/ heap'[a].next[O] = Null
  BY <1>13, <1>15, <1>16, <1>17
\* The levels that are kept ...
<1>23. ASSUME NEW a \in In(heap', Primary)
       PROVE  LET b == NextOf(heap', a)
              IN  /\ b # Null
                  /\ heap'[a].A.version = setups /\ heap'[a].smoother = heap'[a].A
                  /\ heap'[b].index = heap'[a].index + 1
                  /\ heap'[b].A.rows = heap'[a].aggregates
                  /\ heap'[a].vectors = heap'[a].aggregates
                  /\ heap'[a].aggregates < heap'[a].A.rows
  <2>1. a \in In(heap, Primary) /\ heap[a].next[Primary] # Null
    BY <1>17
  <2>2. heap[a].index # heap[e].index
    BY <1>5, <1>6, <2>1
  <2> DEFINE b == heap[a].next[Primary]
  <2>3. /\ heap[a].A.version = setups /\ heap[a].smoother = heap[a].A
        /\ heap[a].vectors = heap[a].aggregates
        /\ heap[a].aggregates < heap[a].A.rows
        /\ b \in In(heap, Primary) /\ heap[b].index = heap[a].index + 1
        /\ heap[b].A.rows = heap[a].aggregates
    BY <1>7, <2>1, <2>2
  <2>4. CASE a # last
    <3>1. NextOf(heap', a) = b
      BY <1>17, <1>19, <2>4
    <3>2. b \in In(heap', Primary)
      <4>1. heap'[a].next[Primary] = b
        BY <1>17, <2>4
      <4>2. QED BY <1>11, <2>1, <4>1, ChainLinks DEF Upper
    <3>3. QED BY <1>17, <2>1, <2>3, <3>1, <3>2
  <2>5. CASE a = last
    <3>1. NextOf(heap', a) = first /\ heap'[first] = heap[first] /\ first \in In(heap, O)
      BY <1>16, <1>17, <1>18, <1>19, <2>5
    <3>2. PICK d \in In(heap, Primary) : Copied(heap[first], heap[d])
      BY <1>4, <3>1
    <3>3. heap[d].index = heap[b].index
      BY <1>3, <2>3, <2>5, <3>2 DEF Copied
    <3>4. d = b
      BY <1>6, <2>3, <3>2, <3>3
    <3>5. heap'[first].A = heap[b].A /\ heap'[first].index = heap[b].index
      BY <3>1, <3>2, <3>4 DEF Copied
    <3>6. QED BY <1>17, <1>18, <2>3, <3>1, <3>5
  <2>6. QED BY <2>4, <2>5
\* ... and the copies.
<1>24. ASSUME NEW a \in In(heap', O)
       PROVE  LET b == NextOf(heap', a)
              IN  IF b = Null
                    THEN heap'[a].index + 1 = numLevels /\ Solved(heap, a)'
                    ELSE /\ heap'[a].A.version = setups /\ heap'[a].smoother = heap'[a].A
                         /\ heap'[b].index = heap'[a].index + 1
                         /\ heap'[b].A.rows = heap'[a].aggregates
                         /\ heap'[a].vectors = heap'[a].aggregates
                         /\ heap'[a].aggregates < heap'[a].A.rows
  <2> DEFINE b == heap[a].next[O]
  <2>1. a \in In(heap, O) /\ heap'[a] = heap[a] /\ NextOf(heap', a) = b /\ heap'[a].space = O
    BY <1>16, <1>19, NextInDef
  <2>2. PICK d \in In(heap, Primary) : Copied(heap[a], heap[d])
    BY <1>4, <2>1
  <2>3. /\ heap[a].smoother = heap[a].A /\ heap[a].A = heap[d].A
        /\ heap[a].index = heap[d].index /\ heap[a].aggregates = heap[d].aggregates
        /\ heap[a].vectors = heap[d].vectors
    BY <1>4, <2>1, <2>2 DEF Copied
  <2>4. CASE b = Null
    <3>1. a = prev
      BY <1>4, <2>1, <2>4
    <3>2. heap[d].index = heap[e].index
      <4>1. heap[d].index + 1 = heap[e].index + 1
        BY <1>3, <1>5, <2>3, <3>1
      <4>2. heap[d].index \in Nat /\ heap[e].index \in Nat
        BY <1>5, <1>6, <2>2
      <4>3. QED BY <4>1, <4>2
    <3>3. d = e
      BY <1>5, <1>6, <2>2, <3>2
    <3>4. heap[a].A.version = setups
      BY <1>5, <2>3, <3>3 DEF Solved
    <3>5. Solved(heap, a)'
      BY <2>1, <2>3, <3>4 DEF Solved
    <3>6. QED BY <1>3, <2>1, <2>4, <3>1, <3>5
  <2>5. CASE b # Null
    <3>1. b \in In(heap, O)
      BY <1>1, <2>1, <2>5, ChainLinks
    <3>2. heap[b].index = heap[a].index + 1 /\ heap'[b] = heap[b]
      BY <1>4, <1>12, <1>16, <2>1, <3>1 DEF Indexed
    <3>3. PICK c \in In(heap, Primary) : Copied(heap[b], heap[c])
      BY <1>4, <3>1
    <3>4. heap[c].index = heap[d].index + 1 /\ heap[c].A = heap[b].A
      BY <2>3, <3>2, <3>3 DEF Copied
    <3>5. heap[d].index # heap[e].index
      <4>1. heap[d].index \in Nat /\ heap[c].index <= heap[e].index
        BY <1>6, <2>2, <3>3
      <4>2. QED BY <1>5, <1>6, <3>4, <4>1
    <3>6. /\ heap[d].A.version = setups
          /\ heap[d].vectors = heap[d].aggregates
          /\ heap[d].aggregates < heap[d].A.rows
          /\ heap[d].next[Primary] \in In(heap, Primary)
          /\ heap[heap[d].next[Primary]].index = heap[d].index + 1
          /\ heap[heap[d].next[Primary]].A.rows = heap[d].aggregates
      BY <1>7, <2>2, <3>5
    <3>7. heap[d].next[Primary] = c
      BY <1>6, <3>3, <3>4, <3>6
    <3>8. QED BY <2>1, <2>3, <2>5, <3>2, <3>4, <3>6, <3>7
  <2>6. QED BY <2>4, <2>5
<1>25. fine'[Primary] = fine[Primary]
  BY <1>1, TwoSpaces DEF TypeOK
<1>26. QED BY <1>13, <1>20, <1>25, <1>21, <1>22, <1>23, <1>24 DEF Solid

LEMMA CopyThrowsSetup ==
  ASSUME SetupInv, CopyThrows
  PROVE  SetupInv'
<1>1. pc' = "failed" /\ cfg' = cfg /\ coarse' = coarse
  BY DEF CopyThrows, Goto
<1>2. QED BY <1>1, LoopSetup DEF Subsides, Progress, Loop

LEMMA LinkCopiesSetup ==
  ASSUME HierarchyInv, SetupInv, LinkCopies
  PROVE  SetupInv'
<1> DEFINE x == heap[last].next[Primary]
<1>1. /\ pc = "copy" /\ cur = Null /\ cfg' = cfg /\ numLevels' = numLevels
      /\ setups' = setups /\ coarse' = coarse /\ pc' \in {"ready", "crashed"}
  BY DEF LinkCopies, Crash, Goto
<1>2. cfg.hostRows > 0 /\ cfg'.hostRows = cfg.hostRows
  BY <1>1, CopyFacts
<1>3. ASSUME pc' = "ready", ~cfg.coarse, setups = 1 PROVE Solid'
  <2>1. Copies /\ ~coarse[O].exists
    BY <1>1, <1>3, TwoSpaces DEF SetupInv
  <2>2. /\ last # Null /\ Deletable(heap, x) /\ heap' = CrossHeap(heap, last, x, first)
        /\ fine' = [fine EXCEPT ![O] = first]
    BY <1>3 DEF LinkCopies, Goto, Crash, CrossHeap, O
  <2>3. x = heap[last].next[Primary]
    OBVIOUS
  <2> HIDE DEF x
  <2>4. QED BY <1>1, <1>3, <2>1, <2>2, <2>3, LinkCopiesSolid
<1>4. Progress'
  BY <1>1 DEF Progress, Loop
<1>5. QED BY <1>1, <1>2, <1>3, <1>4 DEF SetupInv

LEMMA DestroySetup ==
  ASSUME SetupInv, Destroy
  PROVE  SetupInv'
<1>1. pc' \in {"destroyed", "crashed"} /\ cfg' = cfg /\ coarse' = coarse
  BY DEF Destroy, Goto, Crash
<1>2. QED BY <1>1, LoopSetup DEF Subsides, Progress, Loop

LEMMA IdleSetup ==
  ASSUME SetupInv, UNCHANGED vars
  PROVE  SetupInv'
<1>1. /\ cfg' = cfg /\ heap' = heap /\ fine' = fine /\ coarse' = coarse
      /\ numLevels' = numLevels /\ setups' = setups /\ pc' = pc /\ space' = space
      /\ cur' = cur /\ prev' = prev /\ last' = last /\ first' = first
  BY DEF vars, local, copyVars
<1>2. SettledAbove' = SettledAbove
  BY <1>1 DEF SettledAbove, Settled
<1>3. Progress' = Progress /\ Complete' = Complete
  BY <1>1, <1>2 DEF Progress, Complete, Solved
<1>4. Copies' = Copies
  BY <1>1, <1>3 DEF Copies
<1>5. Solid' = Solid
  BY <1>1 DEF Solid, Solved
<1>6. Hybrid' = Hybrid
  BY <1>1 DEF Hybrid, MinFine
<1>7. QED BY <1>1, <1>3, <1>4, <1>5, <1>6 DEF SetupInv

LEMMA InitSetup == Init => SetupInv
  BY DEF Init, SetupInv, Progress, Loop

LEMMA NextSetup == HierarchyInv /\ SetupInv /\ [Next]_vars => SetupInv'
<1>1. SUFFICES ASSUME HierarchyInv, SetupInv, [Next]_vars PROVE SetupInv'
  OBVIOUS
<1>2. HierarchyInv'
  BY <1>1, NextInv
<1>3. \A r \in ReuseChoices : BeginSetup(r) => SetupInv'
  BY <1>1, BeginSetupSetup
<1>4. \A n \in FineRows : SetFineMatrix(n) => SetupInv'
  BY <1>1, <1>2, SetFineMatrixSetup
<1>5. SetupStep => SetupInv'
  BY <1>1, <1>2, <1>4, ReachBottomSetup, ReuseNextSetup, AllocateNextSetup,
     CreateCoarseVerticesSetup, DescendSetup, StopCoarseningSetup, SetupThrowsSetup,
     SetupCoarseSolverSetup, SwitchSpaceSetup, SplitSetup, CopyLevelSetup, CopyThrowsSetup,
     LinkCopiesSetup
     DEF SetupStep
<1>6. QED BY <1>1, <1>3, <1>5, DestroySetup, IdleSetup DEF Next

\* When setup() returns, the levels that a solve walks along are one chain
\* through both memory spaces, and each is set up on this setup's values: the
\* loop leaves finished levels behind it, and the copies are made of them.
THEOREM SetupInvariant == Spec => [](HierarchyInv /\ SetupInv)
<1>1. Init => HierarchyInv /\ SetupInv
  BY InitInv, InitSetup
<1>2. HierarchyInv /\ SetupInv /\ [Next]_vars => (HierarchyInv /\ SetupInv)'
  BY NextInv, NextSetup
<1>3. QED BY <1>1, <1>2, PTL DEF Spec

\* The levels of a solve are all there are, and each leads to at most one.
LEMMA SolidPath ==
  ASSUME HierarchyInv, Alive, Solid
  PROVE  /\ Path = DOMAIN heap
         /\ \A a \in DOMAIN heap :
              /\ Links(heap, a, Spaces) = {NextOf(heap, a)} \ {Null}
              /\ IsCoarsest(heap, a) <=> NextOf(heap, a) = Null
<1> DEFINE r == fine[Primary]
           m == Joined(heap)
<1>1. /\ HeapOK(heap) /\ r \in Places /\ r # Null /\ IsChain(m, r)
      /\ DOMAIN m = DOMAIN heap /\ \A a \in DOMAIN heap : m[a] = NextOf(heap, a)
  BY AliveFacts DEF Solid, Upper, Joined
<1>2. ASSUME NEW a \in DOMAIN heap
      PROVE  /\ Links(heap, a, Spaces) = {NextOf(heap, a)} \ {Null}
             /\ IsCoarsest(heap, a) <=> NextOf(heap, a) = Null
  <2>1. heap[a].next \in [Spaces -> Places]
    BY <1>1, LevelTypes DEF LevelType
  <2>2. heap[a].next[Primary] = Null \/ heap[a].next[O] = Null
    BY DEF Solid
  <2>3. \A x : x \in Links(heap, a, Spaces) <=>
               x # Null /\ (heap[a].next[Primary] = x \/ heap[a].next[O] = x)
    BY <1>1, LinksTyped, TwoSpaces
  <2>4. \A x : x \in Links(heap, a, Spaces) <=> x # Null /\ NextOf(heap, a) = x
    BY <2>2, <2>3 DEF NextOf
  <2>5. Links(heap, a, Spaces) = {NextOf(heap, a)} \ {Null}
    BY <2>4
  <2>6. IsCoarsest(heap, a) => NextOf(heap, a) = Null
    BY TwoSpaces DEF IsCoarsest, NoNext, NextOf
  <2>7. ASSUME NextOf(heap, a) = Null PROVE IsCoarsest(heap, a)
    <3>1. heap[a].next[Primary] = Null /\ heap[a].next[O] = Null
      BY <2>7 DEF NextOf
    <3>2. \A s \in Spaces : heap[a].next[s] = Null
      BY <3>1, TwoSpaces
    <3>3. QED BY <2>1, <3>2 DEF IsCoarsest, NoNext
  <2>8. QED BY <2>5, <2>6, <2>7
<1> HIDE DEF m, r
<1>3. Reach(heap, r) \subseteq DOMAIN heap
  <2>1. \A b \in DOMAIN heap : Links(heap, b, Spaces) \subseteq DOMAIN heap
    BY <1>1, <1>2 DEF IsChain
  <2>2. DOMAIN heap \in SUBSET Addresses /\ r \in DOMAIN heap
    BY <1>1 DEF HeapOK, IsChain
  <2>3. QED BY <1>1, <2>1, <2>2, Reaching DEF Follows
<1>4. Reach(heap, r) = DOMAIN m
  <2>1. r \in Reach(heap, r)
    BY <1>1, Reaching
  <2>2. \A b \in Reach(heap, r) : m[b] \in DOMAIN m => m[b] \in Reach(heap, r)
    <3>1. SUFFICES ASSUME NEW b \in Reach(heap, r), m[b] \in DOMAIN m
                   PROVE  m[b] \in Reach(heap, r)
      OBVIOUS
    <3>2. b \in DOMAIN heap /\ m[b] = NextOf(heap, b) /\ m[b] # Null
      BY <1>1, <1>3, <3>1, NullIsNoPlace DEF IsChain
    <3>3. m[b] \in Links(heap, b, Spaces)
      BY <1>2, <3>2
    <3>4. QED BY <1>1, <3>1, <3>3, Reaching
  <2>3. Reach(heap, r) \in SUBSET DOMAIN m
    BY <1>1, <1>3
  <2>4. QED BY <1>1, <2>1, <2>2, <2>3 DEF IsChain, Rooted
<1>5. Path = DOMAIN heap
  BY <1>1, <1>4 DEF Path, r
<1>6. QED BY <1>2, <1>5

LEMMA SolvableSolid ==
  ASSUME HierarchyInv, SetupInv, Solvable
  PROVE  Solid /\ Alive
  BY DEF Solvable, SetupInv, Alive

\* A setup that returns has set every smoother and coarse solver that a cycle
\* runs up on the matrix its level has now, whatever was reused, copied or thrown.
THEOREM SolversAreCurrent == Spec => []SolversCurrent
<1>1. ASSUME HierarchyInv, SetupInv PROVE SolversCurrent
  <2>1. SUFFICES ASSUME Solvable, NEW a \in Path
                 PROVE  LET l == heap[a]
                        IN  /\ l.A.version = setups
                            /\ IF IsCoarsest(heap, a) /\ coarse[l.space].exists
                                 THEN coarse[l.space].A = l.A ELSE l.smoother = l.A
    BY DEF SolversCurrent
  <2>2. Solid /\ Alive
    BY <1>1, <2>1, SolvableSolid
  <2>3. a \in DOMAIN heap /\ (IsCoarsest(heap, a) <=> NextOf(heap, a) = Null)
    BY <1>1, <2>1, <2>2, SolidPath
  <2>4. CASE NextOf(heap, a) = Null
    BY <2>2, <2>3, <2>4 DEF Solid, Solved
  <2>5. CASE NextOf(heap, a) # Null
    BY <2>2, <2>3, <2>5 DEF Solid
  <2>6. QED BY <2>4, <2>5
<1>2. QED BY <1>1, SetupInvariant, PTL

\* Consecutive levels of a finished hierarchy fit, through both memory spaces,
\* num_levels counts them and max_levels bounds them.
THEOREM LevelsAlwaysFit == Spec => []LevelsFit
<1>1. ASSUME HierarchyInv, SetupInv, Solvable
      PROVE  /\ \A a \in Path : \A b \in Links(heap, a, Spaces) :
                  /\ heap[b].A.rows = heap[a].aggregates /\ heap[a].vectors = heap[b].A.rows
                  /\ heap[b].A.rows < heap[a].A.rows
                  /\ heap[b].index = heap[a].index + 1
             /\ Cardinality(Path) = numLevels
             /\ numLevels = 1 \/ numLevels <= MaxLevels
  <2>1. /\ Solid /\ Path = DOMAIN heap
        /\ \A a \in DOMAIN heap : Links(heap, a, Spaces) = {NextOf(heap, a)} \ {Null}
    BY <1>1, SolvableSolid, SolidPath
  <2>2. ASSUME NEW a \in Path, NEW b \in Links(heap, a, Spaces)
        PROVE  /\ heap[b].A.rows = heap[a].aggregates /\ heap[a].vectors = heap[b].A.rows
               /\ heap[b].A.rows < heap[a].A.rows
               /\ heap[b].index = heap[a].index + 1
    <3>1. a \in DOMAIN heap /\ b = NextOf(heap, a) /\ b # Null
      BY <2>1, <2>2
    <3>2. QED BY <2>1, <3>1 DEF Solid
  <2> DEFINE ix == [a \in DOMAIN heap |-> heap[a].index]
             m == Joined(heap)
             r == fine[Primary]
  <2>3. /\ HeapOK(heap) /\ r # Null /\ heap[r].index = 0
        /\ IsChain(m, r) /\ DOMAIN m = DOMAIN heap
        /\ \A a \in DOMAIN heap : m[a] = NextOf(heap, a)
    BY <1>1, <2>1, SolvableSolid, AliveFacts DEF Solid, Upper, Joined
  <2>4. r \in DOMAIN m /\ ix[r] = 0
    BY <2>3 DEF IsChain
  <2>5. \A a \in DOMAIN m : ix[a] = heap[a].index /\ ix[a] \in Nat
    BY <2>3, LevelTypes
  <2>6. \A a \in DOMAIN m : m[a] \in DOMAIN m => ix[m[a]] = ix[a] + 1
    <3>1. SUFFICES ASSUME NEW a \in DOMAIN m, m[a] \in DOMAIN m PROVE ix[m[a]] = ix[a] + 1
      OBVIOUS
    <3>2. m[a] # Null /\ m[a] = NextOf(heap, a)
      BY <2>3, <3>1, NullIsNoPlace DEF IsChain
    <3>3. heap[m[a]].index = heap[a].index + 1
      BY <2>1, <2>3, <3>2 DEF Solid
    <3>4. QED BY <2>5, <3>1, <3>3
  <2>7. PICK e \in DOMAIN heap : NextOf(heap, e) = Null
    BY <2>1 DEF Solid
  <2>8. heap[e].index + 1 = numLevels
    BY <2>1, <2>7 DEF Solid
  <2> HIDE DEF ix, m, r
  <2>9. Counts(m, ix)
    BY <2>5, <2>6 DEF Counts
  <2>10. Cardinality(DOMAIN m) = ix[e] + 1
    BY <2>3, <2>4, <2>7, <2>9, ChainLength
  <2>11. Cardinality(Path) = numLevels
    BY <2>1, <2>3, <2>5, <2>8, <2>10
  <2>12. numLevels = 1 \/ numLevels <= MaxLevels
    <3>1. numLevels <= 1 \/ numLevels <= MaxLevels
      BY <1>1 DEF HierarchyInv, Counted
    <3>2. heap[e].index \in Nat
      BY <2>3, <2>5, <2>7
    <3>3. QED BY <2>8, <3>1, <3>2
  <2>13. QED BY <2>2, <2>11, <2>12
<1>2. HierarchyInv /\ SetupInv => LevelsFit
  BY <1>1 DEF LevelsFit
<1>3. QED BY <1>2, SetupInvariant, PTL

=============================================================================
