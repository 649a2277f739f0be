-------------------------------- MODULE Pmis --------------------------------
(***************************************************************************)
(* The choice of coarse points by the PMIS selector and by the aggressive  *)
(* PMIS selector of the classical path, on a matrix whose rows are spread  *)
(* over ranks (classical/selectors/pmis.cu, aggressive_pmis.cu, the device *)
(* versions).                                                              *)
(*                                                                         *)
(* Each round marks unassigned points as coarse, unmarks those with a      *)
(* heavier strong neighbor, and makes fine the ones that depend on a       *)
(* coarse point.  A rank computes its own rows, and marks points of its    *)
(* halo; the owners take the minimum of all marks.  The kernels have one   *)
(* thread per row, and their result does not depend on the order of the    *)
(* threads: all writes of one kernel to one place have one value.          *)
(*                                                                         *)
(* Exchanges keep what NeighborSync promises: a rank leaves its k-th one   *)
(* when its neighbors have entered theirs, with what they sent there.  The *)
(* test for the last round is a reduction over all ranks.                  *)
(***************************************************************************)
EXTENDS Integers, Sequences, FiniteSets, FiniteSetsExt

CONSTANTS
    Points,      \* rows of the matrix, all ranks
    Ranks,
    Adjacent,    \* pairs of points with an entry in the matrix, both ways
    Inputs,      \* what to consider: the partition, the strong connections,
                 \*   the hash of each point in each pass (of the row's number in the
                 \*   matrix of that pass), and which of the two selectors
    Unit         \* the weight 1.0; a hash is between 0.0 and 1.0

ASSUME PmisAssumption ==
    /\ IsFiniteSet(Points) /\ IsFiniteSet(Ranks)
    /\ Unit \in Nat \ {0}
    /\ Adjacent \subseteq Points \X Points
    /\ \A i, j \in Points : <<i, j>> \in Adjacent => <<j, i>> \in Adjacent
    /\ Inputs \subseteq [owner : [Points -> Ranks], strong : SUBSET Adjacent,
                         hash : [1..2 -> [Points -> 0..Unit]], aggressive : BOOLEAN]

\* types.h; the minimum of two marks prevails.
COARSE == -1
FINE == -2
STRONG_FINE == -3
UNASSIGNED == -4
Marks == {COARSE, FINE, STRONG_FINE, UNASSIGNED}

VARIABLES
    input,       \* the input of this behavior; it does not change
    pc,          \* where each rank is
    pass,        \* 1, or 2 in the second pass of the aggressive selector
    iter,        \* rounds of this pass a rank has ended
    cf_map,      \* cf_map of each pass and rank, over its rows and halo
    scratch,     \* marks of this round
    mailbox,     \* what a rank sent in each of its exchanges
    reductions,  \* what it gave to each all_reduce_max
    result       \* cf_map when the selector has returned

vars == <<input, pc, pass, iter, cf_map, scratch, mailbox, reductions, result>>

-----------------------------------------------------------------------------
(* The matrices of the two passes. *)

owner == input.owner
strong == input.strong

\* Coarse points of the first pass.
FirstCoarse == {i \in Points : cf_map[1][owner[i]][i] = COARSE}

\* The matrix S2: coarse points joined by one or two strong connections.
S2 == {e \in FirstCoarse \X FirstCoarse :
         /\ e[1] # e[2]
         /\ \/ e \in strong
            \/ \E k \in Points : <<e[1], k>> \in strong /\ <<k, e[2]>> \in strong}

Strong(p) == IF p = 1 THEN strong ELSE S2
Entries(p) == IF p = 1 THEN Adjacent ELSE S2
Rows(p, r) ==
    {i \in (IF p = 1 THEN Points ELSE FirstCoarse) : owner[i] = r}
Halo(p, r) == {j \in Points : owner[j] # r
                               /\ \E i \in Rows(p, r) : <<i, j>> \in Entries(p)}
OneRing(p, r) == Rows(p, r) \cup Halo(p, r)
Neighbors(p, r) == {n \in Ranks \ {r} : \E j \in Points :
                       \/ owner[j] = n /\ j \in Halo(p, r)
                       \/ owner[j] = r /\ j \in Halo(p, n)}

\* A point weighs as much as points depend on it, plus its hash.
Weight(p, i) ==
    Unit * Cardinality({j \in Points : <<j, i>> \in Strong(p)}) + input.hash[p][i]

-----------------------------------------------------------------------------
(* One round. *)

\* The first pass leaves isolated points strong fine, the second coarse.
InitialMark(p, i) ==
    IF \A j \in Points : <<i, j>> \notin Strong(p)
    THEN IF p = 1 THEN STRONG_FINE ELSE COARSE
    ELSE IF Weight(p, i) < Unit THEN FINE ELSE UNASSIGNED

\* mutant: weights compared without their hashes.
UnmarkedByCount(p, map, i) ==
    LET Candidates == {j \in DOMAIN map : <<i, j>> \in Strong(p) /\ map[j] = UNASSIGNED}
        heavier(j, k) == Weight(p, j) \div Unit > Weight(p, k) \div Unit
    IN {j \in Candidates : heavier(i, j)}
       \cup {k \in {i} : \E j \in Candidates : heavier(j, i)}

\* mutant: two unassigned neighbors unmark each other.
UnmarkedByAny(p, map, i) ==
    {j \in DOMAIN map : <<i, j>> \in Strong(p) /\ map[j] = UNASSIGNED}

\* Points of the one-ring that row i unmarks: itself or a neighbor of it.
UnmarkedBy(p, map, i) ==
    LET Candidates == {j \in DOMAIN map : /\ <<i, j>> \in Strong(p)
                                          /\ map[j] = UNASSIGNED
                                          /\ Weight(p, j) > Unit}
    IN {j \in Candidates : Weight(p, i) > Weight(p, j)}
       \cup {k \in {i} : \E j \in Candidates : Weight(p, j) > Weight(p, i)}

\* Every unassigned point of the one-ring is coarse unless a row unmarks it.
Marked(p, map, rows) ==
    LET Unmarked == UNION {UnmarkedBy(p, map, i) :
                              i \in {k \in rows : map[k] = UNASSIGNED}}
    IN [i \in DOMAIN map |->
          IF map[i] = UNASSIGNED /\ Weight(p, i) > Unit /\ i \notin Unmarked
          THEN COARSE ELSE map[i]]

\* Unassigned rows that depend on a coarse point become fine.
Settled(p, marks, i) ==
    IF /\ marks[i] = UNASSIGNED
       /\ \E j \in DOMAIN marks : <<i, j>> \in Strong(p) /\ marks[j] = COARSE
    THEN FINE ELSE marks[i]

-----------------------------------------------------------------------------
(* Exchanges. *)

\* Enter an exchange with these values.
Send(r, values) == mailbox' = [mailbox EXCEPT ![r] = Append(@, values)]

\* All neighbors have entered the exchange r is in; what they sent in it.
Arrived(r) == \A n \in Neighbors(pass[r], r) :
                 Len(mailbox[n]) >= Len(mailbox[r])
Received(r, n) == mailbox[n][Len(mailbox[r])]

\* exchange_halo(): the values of the owners in the halo.
HaloFilled(r, values) ==
    [i \in OneRing(pass[r], r) |->
       IF owner[i] = r THEN values[i] ELSE Received(r, owner[i])[i]]

\* mutant: the marks of other ranks are ignored.
MinTakenOwn(r, values) == values

\* min_from_halo(): own rows take the minimum over all ranks that see them.
MinTaken(r, values) ==
    [i \in DOMAIN values |->
       IF owner[i] # r THEN values[i]
       ELSE Min({values[i]} \cup
                {Received(r, n)[i] : n \in {m \in Neighbors(pass[r], r) :
                                              i \in DOMAIN Received(r, m)}})]

At(r, label) == pc[r] = label
Goto(r, label) == pc' = [pc EXCEPT ![r] = label]

-----------------------------------------------------------------------------
(* The selector on rank r. *)

Init ==
    /\ input \in Inputs
    /\ pc = [r \in Ranks |-> "start"]
    /\ pass = [r \in Ranks |-> 1]
    /\ iter = [r \in Ranks |-> 0]
    /\ cf_map = [p \in 1..2 |-> [r \in Ranks |-> <<>>]]
    /\ scratch = [r \in Ranks |-> <<>>]
    /\ mailbox = [r \in Ranks |-> <<>>]
    /\ reductions = [r \in Ranks |-> <<>>]
    /\ result = [r \in Ranks |-> <<>>]

map(r) == cf_map[pass[r]][r]
SetMap(r, values) == cf_map' = [cf_map EXCEPT ![pass[r]][r] = values]

InitialMarking(r) ==
    /\ At(r, "start")
    /\ LET initial == [i \in Rows(pass[r], r) |-> InitialMark(pass[r], i)]
       IN SetMap(r, initial) /\ Send(r, initial)
    /\ Goto(r, "exchange")
    /\ UNCHANGED <<input, pass, iter, scratch, reductions, result>>

ExchangeInitial(r) ==
    /\ At(r, "exchange")
    /\ Arrived(r)
    /\ SetMap(r, HaloFilled(r, map(r)))
    /\ Goto(r, "mark")
    /\ UNCHANGED <<input, pass, iter, scratch, mailbox, reductions, result>>

\* The first round of the second pass only uses the initial coarse points.
Mark(r) ==
    /\ At(r, "mark")
    /\ LET marks == IF pass[r] = 2 /\ iter[r] = 0 THEN map(r)
                    ELSE Marked(pass[r], map(r), Rows(pass[r], r))
       IN /\ scratch' = [scratch EXCEPT ![r] = marks]
          /\ Send(r, marks)
    /\ Goto(r, "fold")
    /\ UNCHANGED <<input, pass, iter, cf_map, reductions, result>>

FoldMarks(r) ==
    /\ At(r, "fold")
    /\ Arrived(r)
    /\ LET marks == MinTaken(r, scratch[r])
       IN /\ scratch' = [scratch EXCEPT ![r] = marks]
          /\ Send(r, marks)
    /\ Goto(r, "marks")
    /\ UNCHANGED <<input, pass, iter, cf_map, reductions, result>>

ExchangeMarks(r) ==
    /\ At(r, "marks")
    /\ Arrived(r)
    /\ LET marks == HaloFilled(r, scratch[r])
           settled == [i \in DOMAIN marks |->
                         IF i \in Rows(pass[r], r)
                         THEN Settled(pass[r], marks, i) ELSE map(r)[i]]
       IN /\ scratch' = [scratch EXCEPT ![r] = marks]
          /\ SetMap(r, settled)
          /\ Send(r, settled)
    /\ Goto(r, "exchangeCf")
    /\ UNCHANGED <<input, pass, iter, reductions, result>>

\* Own rows still unassigned.
Unassigned(r) == {i \in Rows(pass[r], r) : map(r)[i] = UNASSIGNED}

\* mutant: the map of the round is not exchanged.
ExchangeRoundStale(r) ==
    /\ At(r, "exchangeCf")
    /\ Arrived(r)
    /\ reductions' = [reductions EXCEPT
                        ![r] = Append(@, Cardinality(Unassigned(r)))]
    /\ Goto(r, "reduce")
    /\ UNCHANGED <<input, pass, iter, cf_map, scratch, mailbox, result>>

ExchangeRound(r) ==
    /\ At(r, "exchangeCf")
    /\ Arrived(r)
    /\ SetMap(r, HaloFilled(r, map(r)))
    /\ reductions' = [reductions EXCEPT
                        ![r] = Append(@, Cardinality(Unassigned(r)))]
    /\ Goto(r, "reduce")
    /\ UNCHANGED <<input, pass, iter, scratch, mailbox, result>>

\* all_reduce_max(): the k-th of this rank is the k-th of every rank.
Reduced(r) == \A s \in Ranks : Len(reductions[s]) >= Len(reductions[r])

\* mutant: a rank looks at what it gave itself.
MaximumOwn(r) == reductions[r][Len(reductions[r])]

Maximum(r) == Max({reductions[s][Len(reductions[r])] : s \in Ranks})

NextRound(r) ==
    /\ At(r, "reduce")
    /\ Reduced(r)
    /\ Maximum(r) # 0
    /\ iter' = [iter EXCEPT ![r] = @ + 1]
    /\ Goto(r, "mark")
    /\ UNCHANGED <<input, pass, cf_map, scratch, mailbox, reductions, result>>

LastRound(r) ==
    /\ At(r, "reduce")
    /\ Reduced(r)
    /\ Maximum(r) = 0

Return(r, values) ==
    /\ result' = [result EXCEPT ![r] = values]
    /\ Goto(r, "done")
    /\ UNCHANGED <<input, pass, iter, cf_map, scratch, mailbox, reductions>>

\* Coarse points of the first pass take what the second pass made of them.
Corrected(first, second) ==
    [i \in DOMAIN first |->
       IF i \notin DOMAIN second THEN first[i]
       ELSE IF second[i] = STRONG_FINE THEN COARSE ELSE second[i]]

\* pmis.cu: one pass.
EndPmis(r) ==
    /\ LastRound(r)
    /\ ~input.aggressive
    /\ Return(r, cf_map[1][r])

\* aggressive_pmis.cu: a rank without coarse points returns after the first.
SkipSecond(r) ==
    /\ LastRound(r)
    /\ input.aggressive
    /\ pass[r] = 1
    /\ Rows(2, r) = {}
    /\ Return(r, cf_map[1][r])

BeginSecond(r) ==
    /\ LastRound(r)
    /\ input.aggressive
    /\ pass[r] = 1
    /\ Rows(2, r) # {}
    /\ pass' = [pass EXCEPT ![r] = 2]
    /\ iter' = [iter EXCEPT ![r] = 0]
    /\ Goto(r, "start")
    /\ UNCHANGED <<input, cf_map, scratch, mailbox, reductions, result>>

EndSecond(r) ==
    /\ LastRound(r)
    /\ pass[r] = 2
    /\ Return(r, Corrected(cf_map[1][r], cf_map[2][r]))

Done == \A r \in Ranks : At(r, "done")

RankStep(r) ==
    \/ InitialMarking(r) \/ ExchangeInitial(r) \/ Mark(r) \/ FoldMarks(r)
    \/ ExchangeMarks(r) \/ ExchangeRound(r) \/ NextRound(r)
    \/ EndPmis(r) \/ SkipSecond(r) \/ BeginSecond(r) \/ EndSecond(r)

Next == (\E r \in Ranks : RankStep(r)) \/ (Done /\ UNCHANGED vars)
Spec == Init /\ [][Next]_vars

-----------------------------------------------------------------------------
(* Properties. *)

\* What the owner of a point has for it in pass p.
Started(p, r) == pass[r] > p \/ (pass[r] = p /\ ~At(r, "start"))
Known(p) == UNION {Rows(p, r) : r \in {s \in Ranks : Started(p, s)}}
MarkOf(p, i) == cf_map[p][owner[i]][i]

\* Two points that depend on each other are never both coarse, whichever
\* ranks own them and whichever round made them coarse.
CoarsePointsApart ==
    \A p \in 1..2 : \A i, j \in Known(p) :
      (/\ i # j
       /\ {<<i, j>>, <<j, i>>} \subseteq Strong(p)
       /\ Weight(p, i) # Weight(p, j))
          => ~(MarkOf(p, i) = COARSE /\ MarkOf(p, j) = COARSE)

\* After a pass, a point its rounds made fine depends on a coarse point: the
\* interpolator finds one to interpolate from.
Ended(p, r) == pass[r] > p \/ (pass[r] = p /\ At(r, "done"))
FinePointsCovered ==
    \A p \in 1..2 : \A i \in Known(p) :
      (/\ Ended(p, owner[i])
       /\ InitialMark(p, i) = UNASSIGNED
       /\ MarkOf(p, i) = FINE)
          => \E j \in Known(p) : <<i, j>> \in Strong(p) /\ MarkOf(p, j) = COARSE

\* The coarse points of a pass are a maximal independent set of the points its
\* rounds decide on: independent in every state, covering the rest in the end,
\* although no rank sees more than its own rows and their halo.
CoarsePointsMaximal == CoarsePointsApart /\ FinePointsCovered

\* In the first part of a round the copy of a point in a halo is what its
\* owner has, so that all ranks compute the marks of the round from one map.
HalosAgree ==
    \A r, s \in Ranks :
      (/\ {pc[r], pc[s]} \subseteq {"mark", "fold", "marks"}
       /\ pass[r] = pass[s]
       /\ iter[r] = iter[s])
          => \A i \in Halo(pass[r], r) :
               owner[i] = s => map(r)[i] = map(s)[i]

\* One round more than points: each round classifies a point, and the loop
\* ends ("iterate until all points have been classified", pmis.cu).
RoundsBounded == \A r \in Ranks : iter[r] <= Cardinality(Points)

\* A rank that has returned took part in every reduction the others are in
\* ("get max across all processes", pmis.cu).
CollectivesMatch ==
    \A r, s \in Ranks :
      At(r, "done") => Len(reductions[s]) <= Len(reductions[r])

\* Rank r waits for a neighbor to enter an exchange, or for any rank to enter
\* a reduction.
Waits(r) ==
    \/ pc[r] \in {"exchange", "fold", "marks", "exchangeCf"} /\ ~Arrived(r)
    \/ At(r, "reduce") /\ ~Reduced(r)

\* Until all ranks have returned, one of them goes on: they never wait for each
\* other in a circle, nor in an exchange for a rank that has returned.  Only in
\* a reduction is there such a rank to wait for, and CollectivesMatch tells.
NobodyWaitsForever ==
    CollectivesMatch => Done \/ \E r \in Ranks : ~At(r, "done") /\ ~Waits(r)

\* PMIS on the whole graph without ranks: all points of a round at once.
PmisOf(points, edges, hash, isolated) ==
    LET w(i) == Unit * Cardinality({j \in points : <<j, i>> \in edges}) + hash[i]
        joined(i, j) == <<i, j>> \in edges \/ <<j, i>> \in edges
        initial == [i \in points |->
                      IF \A j \in points : <<i, j>> \notin edges THEN isolated
                      ELSE IF w(i) < Unit THEN FINE ELSE UNASSIGNED]
        fine[m \in [points -> Marks]] ==
          [i \in points |->
             IF m[i] = UNASSIGNED
                /\ \E j \in points : <<i, j>> \in edges /\ m[j] = COARSE
             THEN FINE ELSE m[i]]
        coarse[m \in [points -> Marks]] ==
          [i \in points |->
             IF /\ m[i] = UNASSIGNED
                /\ w(i) > Unit
                /\ \A j \in points :
                     m[j] = UNASSIGNED /\ joined(i, j) => w(j) <= w(i)
             THEN COARSE ELSE m[i]]
        round[k \in 0..Cardinality(points)] ==
          IF k = 0 THEN fine[initial] ELSE fine[coarse[round[k - 1]]]
    IN round[Cardinality(points)]

FirstPassOf(in) == PmisOf(Points, in.strong, in.hash[1], STRONG_FINE)

\* The ranks together choose what one rank with the whole matrix would.
SameOnAnyPartition ==
    LET first == FirstPassOf(input)
        second == PmisOf(FirstCoarse, S2, input.hash[2], COARSE)
        expected == IF input.aggressive THEN Corrected(first, second) ELSE first
    IN Done => \A r \in Ranks : \A i \in Rows(1, r) : result[r][i] = expected[i]
=============================================================================
