-------------------------- MODULE HaloExchangeProofs --------------------------
(***************************************************************************)
(* Proofs about HaloExchange, for every number of ranks, neighborhood,     *)
(* choice of tags and of big ranks, and for programs of any length.        *)
(*                                                                         *)
(* Ranks at different points of the program cannot be compared by looking  *)
(* at them, so the invariant speaks of what the program determines, and    *)
(* says of each rank how far it has come.  What the program determines is  *)
(*   H   the dirty bits and versions after each operation, and how many    *)
(*       transfers there were by then,                                     *)
(*   T   the transfers, in the order in which every rank makes them,       *)
(*   E   how often each vector was transferred by the first i of them,     *)
(* and how far the ranks have come is                                      *)
(*   N   the number of transfers each rank has begun,                      *)
(*   a, b   for each message on the way and each unmatched receive, the    *)
(*       transfer it belongs to.                                           *)
(* They are not variables: the invariant says that they exist.             *)
(***************************************************************************)
EXTENDS HaloExchange, WellFoundedInduction, TLAPS

Transfer == [vec : Vectors, kind : {"rank", "tag"}, val : Nat]
Tr(v, kind, val) == [vec |-> v, kind |-> kind, val |-> val]

\* The tag of the messages of transfer t that come from rank s.
TagOf(t, s) == IF t.kind = "rank" THEN s ELSE Tag[t.vec]

Message == [tag : Nat, vec : Vectors, val : Nat, copied : BOOLEAN]
Receive == [tag : Nat, vec : Vectors]

RankTypeOK ==
    /\ program \in Seq(Ops)
    /\ pc \in [Ranks -> Nat] /\ \A r \in Ranks : pc[r] <= Len(program)
    /\ DOMAIN todo = Ranks
    /\ dirtybit \in [Ranks -> [Vectors -> BOOLEAN]]
    /\ ver \in [Ranks -> [Vectors -> Nat]]
    /\ DOMAIN halo = Ranks
    /\ \A r \in Ranks : halo[r] \in [Vectors -> [Neighbors[r] -> Nat]]

NetTypeOK ==
    /\ in_transfer \in [Ranks -> [Vectors -> {"IDLE", "BOTH"}]]
    /\ sendBuffer \in [Ranks -> [Vectors -> Nat]]
    /\ sent \in [Pairs -> Seq(Message)]
    /\ posted \in [Pairs -> Seq(Receive)]
    /\ DOMAIN recvBuffer = Ranks
    /\ \A r \in Ranks : recvBuffer[r] \in [Vectors -> [Neighbors[r] -> Nat]]
    /\ entered \in [Ranks -> [Vectors -> Nat]]
    /\ left \in [Ranks -> [Vectors -> Nat]]

TypeOK == RankTypeOK /\ NetTypeOK

Open(r, v) == in_transfer[r][v] = "BOTH"
OpenSet(r) == {v \in Vectors : Open(r, v)}

-----------------------------------------------------------------------------
(* One direction between two ranks: the messages ms from rank s and the    *)
(* receives rs that wait for them.  sx and rx say which transfers these    *)
(* belong to, when the sender has begun ns transfers and the receiver nd.  *)

Increasing(s) == \A i, j \in 1..Len(s) : i < j => s[i] < s[j]
IsIn(x, s) == \E k \in 1..Len(s) : s[k] = x

Sends(ms, s, T, ns, sx) ==
    /\ sx \in Seq(Nat) /\ Len(sx) = Len(ms) /\ Increasing(sx)
    /\ \A k \in 1..Len(ms) :
         /\ sx[k] \in 1..ns
         /\ ms[k].tag = TagOf(T[sx[k]], s)
         /\ ms[k].vec = T[sx[k]].vec /\ ms[k].val = T[sx[k]].val

Receives(rs, s, T, nd, rx) ==
    /\ rx \in Seq(Nat) /\ Len(rx) = Len(rs) /\ Increasing(rx)
    /\ \A k \in 1..Len(rs) :
         /\ rx[k] \in 1..nd
         /\ rs[k].tag = TagOf(T[rx[k]], s) /\ rs[k].vec = T[rx[k]].vec

\* A transfer is over when it is past for both and neither side has it.
Agree(T, ns, nd, sx, rx) ==
    \A i \in 1..Len(T) : (i > ns \/ IsIn(i, sx)) <=> (i > nd \/ IsIn(i, rx))

QueueOK(ms, rs, s, T, ns, nd, sx, rx) ==
    /\ Sends(ms, s, T, ns, sx)
    /\ Receives(rs, s, T, nd, rx)
    /\ Agree(T, ns, nd, sx, rx)

\* T2 goes on where T ends.
Longer(T, T2) == Len(T) <= Len(T2) /\ \A i \in 1..Len(T) : T2[i] = T[i]

\* What Append does to a sequence.
LEMMA Appended ==
    ASSUME NEW S, NEW s \in Seq(S), NEW x \in S
    PROVE  /\ Append(s, x) \in Seq(S) /\ Len(Append(s, x)) = Len(s) + 1
           /\ Append(s, x)[Len(s) + 1] = x
           /\ \A k \in 1..Len(s) : Append(s, x)[k] = s[k]
    OBVIOUS

\* A larger number at the end of an increasing sequence.
LEMMA AppendIndex ==
    ASSUME NEW s \in Seq(Nat), Increasing(s), NEW m \in Nat,
           \A k \in 1..Len(s) : s[k] \in 1..m
    PROVE  LET u == Append(s, m + 1) IN
           /\ u \in Seq(Nat) /\ Len(u) = Len(s) + 1 /\ Increasing(u)
           /\ u[Len(s) + 1] = m + 1 /\ \A k \in 1..Len(s) : u[k] = s[k]
           /\ \A x : IsIn(x, u) <=> x = m + 1 \/ IsIn(x, s)
<1> DEFINE u == Append(s, m + 1)
<1>1. /\ u \in Seq(Nat) /\ Len(u) = Len(s) + 1 /\ Len(s) \in Nat
      /\ u[Len(s) + 1] = m + 1 /\ \A k \in 1..Len(s) : u[k] = s[k]
    BY Appended
<1> HIDE DEF u
<1>2. \A k \in 1..Len(u) : k = Len(s) + 1 \/ k \in 1..Len(s)
    BY <1>1
<1>3. ASSUME NEW i \in 1..Len(u), NEW j \in 1..Len(u), i < j
      PROVE  u[i] < u[j]
  <2>1. i \in 1..Len(s) /\ u[i] = s[i] /\ s[i] \in 1..m
      BY <1>1, <1>3
  <2>2. CASE j = Len(s) + 1
      BY <1>1, <2>1, <2>2
  <2>3. CASE j \in 1..Len(s)
      BY <1>1, <1>3, <2>1, <2>3 DEF Increasing
  <2>4. QED BY <1>2, <2>2, <2>3
<1>4. ASSUME NEW x
      PROVE  IsIn(x, u) <=> x = m + 1 \/ IsIn(x, s)
  <2>1. ASSUME NEW k \in 1..Len(u), u[k] = x
        PROVE  x = m + 1 \/ IsIn(x, s)
      BY <1>1, <1>2, <2>1 DEF IsIn
  <2>2. ASSUME NEW k \in 1..Len(s), s[k] = x
        PROVE  k \in 1..Len(u) /\ u[k] = x
      BY <1>1, <2>2
  <2>3. Len(s) + 1 \in 1..Len(u)
      BY <1>1
  <2>4. QED BY <1>1, <2>1, <2>2, <2>3 DEF IsIn
<1>5. QED BY <1>1, <1>3, <1>4 DEF u, Increasing

\* What RemoveAt does to a sequence.
LEMMA Removed ==
    ASSUME NEW S, NEW s \in Seq(S), NEW i \in 1..Len(s)
    PROVE  /\ RemoveAt(s, i) \in Seq(S) /\ Len(RemoveAt(s, i)) = Len(s) - 1
           /\ \A k \in 1..Len(s) - 1 :
                RemoveAt(s, i)[k] = IF k < i THEN s[k] ELSE s[k + 1]
<1> DEFINE f == SubSeq(s, 1, i - 1)
           g == SubSeq(s, i + 1, Len(s))
<1>1. Len(s) \in Nat /\ i \in 1..Len(s)
    OBVIOUS
<1>2. f \in Seq(S) /\ Len(f) = i - 1 /\ \A k \in 1..i - 1 : f[k] = s[k]
    BY <1>1
<1>3. g \in Seq(S) /\ Len(g) = Len(s) - i /\ \A k \in 1..Len(s) - i : g[k] = s[k + i]
    BY <1>1
<1> HIDE DEF f, g
<1>4. f \o g \in Seq(S) /\ Len(f \o g) = Len(s) - 1
  <2>1. f \in Seq(S) /\ g \in Seq(S)
      BY <1>2, <1>3
  <2>2. f \o g \in Seq(S) /\ Len(f \o g) = Len(f) + Len(g)
      BY <2>1
  <2>3. QED BY <1>1, <1>2, <1>3, <2>2
<1>5. ASSUME NEW k \in 1..Len(s) - 1
      PROVE  (f \o g)[k] = IF k < i THEN s[k] ELSE s[k + 1]
  <2>1. CASE k < i
      BY <1>1, <1>2, <1>3, <2>1
  <2>2. CASE ~(k < i)
    <3>1. (f \o g)[k] = g[k - (i - 1)] /\ k - (i - 1) \in 1..Len(s) - i
        BY <1>1, <1>2, <1>3, <2>2
    <3>2. k - (i - 1) + i = k + 1
        BY <1>1
    <3>3. QED BY <1>3, <2>2, <3>1, <3>2
  <2>3. QED BY <2>1, <2>2
<1>6. RemoveAt(s, i) = f \o g
    BY DEF RemoveAt, f, g
<1>7. QED BY <1>4, <1>5, <1>6

\* A number taken out of an increasing sequence.
LEMMA RemoveIndex ==
    ASSUME NEW s \in Seq(Nat), Increasing(s), NEW i \in 1..Len(s)
    PROVE  /\ Increasing(RemoveAt(s, i))
           /\ \A x : IsIn(x, RemoveAt(s, i)) <=> x # s[i] /\ IsIn(x, s)
<1> DEFINE u == RemoveAt(s, i)
<1>1. /\ u \in Seq(Nat) /\ Len(u) = Len(s) - 1 /\ Len(s) \in Nat
      /\ \A k \in 1..Len(s) - 1 : u[k] = IF k < i THEN s[k] ELSE s[k + 1]
      /\ \A k \in 1..Len(s) : s[k] \in Nat
    BY Removed
<1> HIDE DEF u
<1>2. ASSUME NEW j \in 1..Len(u), NEW k \in 1..Len(u), j < k
      PROVE  u[j] < u[k]
  <2> DEFINE jj == IF j < i THEN j ELSE j + 1
             kk == IF k < i THEN k ELSE k + 1
  <2>1. jj \in 1..Len(s) /\ kk \in 1..Len(s) /\ jj < kk
      BY <1>1, <1>2
  <2>2. u[j] = s[jj] /\ u[k] = s[kk]
      BY <1>1
  <2> HIDE DEF jj, kk
  <2>3. QED BY <2>1, <2>2 DEF Increasing
<1>3. ASSUME NEW x
      PROVE  IsIn(x, u) <=> x # s[i] /\ IsIn(x, s)
  <2>1. ASSUME NEW k \in 1..Len(u), u[k] = x
        PROVE  x # s[i] /\ IsIn(x, s)
    <3>1. CASE k < i
      <4>1. k \in 1..Len(s) /\ s[k] = x /\ s[k] < s[i]
          BY <1>1, <2>1, <3>1 DEF Increasing
      <4>2. QED BY <1>1, <4>1 DEF IsIn
    <3>2. CASE ~(k < i)
      <4>1. k + 1 \in 1..Len(s) /\ s[k + 1] = x /\ s[i] < s[k + 1]
          BY <1>1, <2>1, <3>2 DEF Increasing
      <4>2. QED BY <1>1, <4>1 DEF IsIn
    <3>3. QED BY <3>1, <3>2
  <2>2. ASSUME NEW k \in 1..Len(s), s[k] = x, x # s[i]
        PROVE  IsIn(x, u)
    <3>1. CASE k < i
      <4>1. k \in 1..Len(u) /\ u[k] = x
          BY <1>1, <2>2, <3>1
      <4>2. QED BY <4>1 DEF IsIn
    <3>2. CASE k > i
      <4>1. k - 1 \in 1..Len(u) /\ u[k - 1] = s[k - 1 + 1] /\ k - 1 + 1 = k
          BY <1>1, <2>2, <3>2
      <4>2. QED BY <2>2, <4>1 DEF IsIn
    <3>3. k # i
        BY <2>2
    <3>4. QED BY <3>1, <3>2, <3>3
  <2>3. QED BY <2>1, <2>2 DEF IsIn
<1>4. QED BY <1>2, <1>3 DEF u, Increasing

-----------------------------------------------------------------------------
(* What the operations of MPI do to a queue. *)

\* The sender begins its next transfer.
LEMMA QueueSend ==
    ASSUME NEW ms \in Seq(Message), NEW rs \in Seq(Receive), NEW s, NEW T,
           NEW ns \in Nat, NEW nd \in Nat, NEW sx, NEW rx,
           QueueOK(ms, rs, s, T, ns, nd, sx, rx), Len(T) \in Nat,
           NEW m \in Message, m.tag = TagOf(T[ns + 1], s),
           m.vec = T[ns + 1].vec, m.val = T[ns + 1].val
    PROVE  QueueOK(Append(ms, m), rs, s, T, ns + 1, nd, Append(sx, ns + 1), rx)
<1> DEFINE ms2 == Append(ms, m)
           sx2 == Append(sx, ns + 1)
<1>1. /\ sx \in Seq(Nat) /\ Len(sx) = Len(ms) /\ Increasing(sx) /\ Len(ms) \in Nat
      /\ \A k \in 1..Len(ms) :
           /\ sx[k] \in 1..ns
           /\ ms[k].tag = TagOf(T[sx[k]], s)
           /\ ms[k].vec = T[sx[k]].vec /\ ms[k].val = T[sx[k]].val
    BY DEF QueueOK, Sends
<1>2. /\ ms2 \in Seq(Message) /\ Len(ms2) = Len(ms) + 1 /\ ms2[Len(ms) + 1] = m
      /\ \A k \in 1..Len(ms) : ms2[k] = ms[k]
    BY Appended
<1>3. /\ sx2 \in Seq(Nat) /\ Len(sx2) = Len(sx) + 1 /\ Increasing(sx2)
      /\ sx2[Len(sx) + 1] = ns + 1 /\ \A k \in 1..Len(sx) : sx2[k] = sx[k]
      /\ \A x : IsIn(x, sx2) <=> x = ns + 1 \/ IsIn(x, sx)
    BY <1>1, AppendIndex
<1> HIDE DEF ms2, sx2
<1>4. Sends(ms2, s, T, ns + 1, sx2)
  <2>1. ASSUME NEW k \in 1..Len(ms2)
        PROVE  /\ sx2[k] \in 1..(ns + 1)
               /\ ms2[k].tag = TagOf(T[sx2[k]], s)
               /\ ms2[k].vec = T[sx2[k]].vec /\ ms2[k].val = T[sx2[k]].val
    <3>1. CASE k = Len(ms) + 1
        BY <1>1, <1>2, <1>3, <3>1
    <3>2. CASE k \in 1..Len(ms)
      <4>1. ms2[k] = ms[k] /\ sx2[k] = sx[k]
          BY <1>1, <1>2, <1>3, <3>2
      <4>2. sx[k] \in 1..(ns + 1)
          BY <1>1, <3>2
      <4>3. QED BY <1>1, <3>2, <4>1, <4>2
    <3>3. QED BY <1>1, <1>2, <3>1, <3>2
  <2>2. QED BY <1>1, <1>2, <1>3, <2>1 DEF Sends
<1>5. Agree(T, ns + 1, nd, sx2, rx)
  <2>1. ASSUME NEW i \in 1..Len(T)
        PROVE  (i > ns + 1 \/ IsIn(i, sx2)) <=> (i > nd \/ IsIn(i, rx))
    <3>1. (i > ns \/ IsIn(i, sx)) <=> (i > nd \/ IsIn(i, rx))
        BY DEF QueueOK, Agree
    <3>2. (i > ns + 1 \/ i = ns + 1) <=> i > ns
        OBVIOUS
    <3>3. QED BY <1>3, <3>1, <3>2
  <2>2. QED BY <2>1 DEF Agree
<1>6. QED BY <1>4, <1>5 DEF QueueOK, ms2, sx2

\* The receiver begins its next transfer.
LEMMA QueueReceive ==
    ASSUME NEW ms \in Seq(Message), NEW rs \in Seq(Receive), NEW s, NEW T,
           NEW ns \in Nat, NEW nd \in Nat, NEW sx, NEW rx,
           QueueOK(ms, rs, s, T, ns, nd, sx, rx), Len(T) \in Nat,
           NEW m \in Receive, m.tag = TagOf(T[nd + 1], s), m.vec = T[nd + 1].vec
    PROVE  QueueOK(ms, Append(rs, m), s, T, ns, nd + 1, sx, Append(rx, nd + 1))
<1> DEFINE rs2 == Append(rs, m)
           rx2 == Append(rx, nd + 1)
<1>1. /\ rx \in Seq(Nat) /\ Len(rx) = Len(rs) /\ Increasing(rx) /\ Len(rs) \in Nat
      /\ \A k \in 1..Len(rs) :
           /\ rx[k] \in 1..nd
           /\ rs[k].tag = TagOf(T[rx[k]], s) /\ rs[k].vec = T[rx[k]].vec
    BY DEF QueueOK, Receives
<1>2. /\ rs2 \in Seq(Receive) /\ Len(rs2) = Len(rs) + 1 /\ rs2[Len(rs) + 1] = m
      /\ \A k \in 1..Len(rs) : rs2[k] = rs[k]
    BY Appended
<1>3. /\ rx2 \in Seq(Nat) /\ Len(rx2) = Len(rx) + 1 /\ Increasing(rx2)
      /\ rx2[Len(rx) + 1] = nd + 1 /\ \A k \in 1..Len(rx) : rx2[k] = rx[k]
      /\ \A x : IsIn(x, rx2) <=> x = nd + 1 \/ IsIn(x, rx)
    BY <1>1, AppendIndex
<1> HIDE DEF rs2, rx2
<1>4. Receives(rs2, s, T, nd + 1, rx2)
  <2>1. ASSUME NEW k \in 1..Len(rs2)
        PROVE  /\ rx2[k] \in 1..(nd + 1)
               /\ rs2[k].tag = TagOf(T[rx2[k]], s) /\ rs2[k].vec = T[rx2[k]].vec
    <3>1. CASE k = Len(rs) + 1
        BY <1>1, <1>2, <1>3, <3>1
    <3>2. CASE k \in 1..Len(rs)
      <4>1. rs2[k] = rs[k] /\ rx2[k] = rx[k]
          BY <1>1, <1>2, <1>3, <3>2
      <4>2. rx[k] \in 1..(nd + 1)
          BY <1>1, <3>2
      <4>3. QED BY <1>1, <3>2, <4>1, <4>2
    <3>3. QED BY <1>1, <1>2, <3>1, <3>2
  <2>2. QED BY <1>1, <1>2, <1>3, <2>1 DEF Receives
<1>5. Agree(T, ns, nd + 1, sx, rx2)
  <2>1. ASSUME NEW i \in 1..Len(T)
        PROVE  (i > ns \/ IsIn(i, sx)) <=> (i > nd + 1 \/ IsIn(i, rx2))
    <3>1. (i > ns \/ IsIn(i, sx)) <=> (i > nd \/ IsIn(i, rx))
        BY DEF QueueOK, Agree
    <3>2. (i > nd + 1 \/ i = nd + 1) <=> i > nd
        OBVIOUS
    <3>3. QED BY <1>3, <3>1, <3>2
  <2>2. QED BY <2>1 DEF Agree
<1>6. QED BY <1>4, <1>5 DEF QueueOK, rs2, rx2

\* MPI may match message i of a queue with receive j.
Matching(ms, rs, i, j) ==
    FirstOfTag(ms, i) /\ FirstOfTag(rs, j) /\ ms[i].tag = rs[j].tag

\* The message MPI matches with a receive belongs to the same transfer, even
\* when transfers of several vectors, or of a vector and a rank, share a tag.
LEMMA QueueMatch ==
    ASSUME NEW ms \in Seq(Message), NEW rs \in Seq(Receive), NEW s, NEW T,
           NEW ns \in Nat, NEW nd \in Nat, NEW sx, NEW rx,
           QueueOK(ms, rs, s, T, ns, nd, sx, rx), Len(T) \in Nat,
           ns <= Len(T), nd <= Len(T)
    PROVE  \A i \in 1..Len(ms), j \in 1..Len(rs) :
             Matching(ms, rs, i, j) => sx[i] = rx[j]
<1> SUFFICES ASSUME NEW i \in 1..Len(ms), NEW j \in 1..Len(rs),
                    FirstOfTag(ms, i), FirstOfTag(rs, j), ms[i].tag = rs[j].tag
             PROVE  sx[i] = rx[j]
    BY DEF Matching
<1>1. /\ Len(sx) = Len(ms) /\ Len(ms) \in Nat
      /\ \A k \in 1..Len(ms) : sx[k] \in 1..ns /\ ms[k].tag = TagOf(T[sx[k]], s)
    BY DEF QueueOK, Sends
<1>2. /\ Len(rx) = Len(rs) /\ Len(rs) \in Nat
      /\ \A k \in 1..Len(rs) : rx[k] \in 1..nd /\ rs[k].tag = TagOf(T[rx[k]], s)
    BY DEF QueueOK, Receives
<1>3. ASSUME sx[i] < rx[j]
      PROVE  FALSE
  <2>1. sx[i] \in 1..Len(T) /\ sx[i] \in 1..ns /\ ~(sx[i] > nd)
      BY <1>1, <1>2, <1>3
  <2>2. IsIn(sx[i], sx)
      BY <1>1 DEF IsIn
  <2>3. IsIn(sx[i], rx)
      BY <2>1, <2>2 DEF QueueOK, Agree
  <2>4. PICK k \in 1..Len(rx) : rx[k] = sx[i]
      BY <2>3 DEF IsIn
  <2>5. k < j
    <3>1. CASE k = j
        BY <1>2, <1>3, <2>1, <2>4, <3>1
    <3>2. CASE j < k
      <4>1. rx[j] < rx[k]
          BY <1>2, <2>4, <3>2 DEF QueueOK, Receives, Increasing
      <4>2. QED BY <1>2, <1>3, <2>1, <2>4, <4>1
    <3>3. QED BY <1>2, <3>1, <3>2
  <2>6. rs[k].tag = rs[j].tag
      BY <1>1, <1>2, <2>4
  <2>7. k \in 1..(j - 1)
      BY <1>2, <2>5
  <2>8. QED BY <2>6, <2>7 DEF FirstOfTag
<1>4. ASSUME rx[j] < sx[i]
      PROVE  FALSE
  <2>1. rx[j] \in 1..Len(T) /\ rx[j] \in 1..nd /\ ~(rx[j] > ns)
      BY <1>1, <1>2, <1>4
  <2>2. IsIn(rx[j], rx)
      BY <1>2 DEF IsIn
  <2>3. IsIn(rx[j], sx)
      BY <2>1, <2>2 DEF QueueOK, Agree
  <2>4. PICK k \in 1..Len(sx) : sx[k] = rx[j]
      BY <2>3 DEF IsIn
  <2>5. k < i
    <3>1. CASE k = i
        BY <1>1, <1>4, <2>1, <2>4, <3>1
    <3>2. CASE i < k
      <4>1. sx[i] < sx[k]
          BY <1>1, <2>4, <3>2 DEF QueueOK, Sends, Increasing
      <4>2. QED BY <1>1, <1>4, <2>1, <2>4, <4>1
    <3>3. QED BY <1>1, <3>1, <3>2
  <2>6. ms[k].tag = ms[i].tag
      BY <1>1, <1>2, <2>4
  <2>7. k \in 1..(i - 1)
      BY <1>1, <2>5
  <2>8. QED BY <2>6, <2>7 DEF FirstOfTag
<1>5. sx[i] \in Nat /\ rx[j] \in Nat
    BY <1>1, <1>2
<1>6. QED BY <1>3, <1>4, <1>5

\* A message and the receive it is matched with leave the queue.
LEMMA QueueDeliver ==
    ASSUME NEW ms \in Seq(Message), NEW rs \in Seq(Receive), NEW s, NEW T,
           NEW ns \in Nat, NEW nd \in Nat, NEW sx, NEW rx,
           QueueOK(ms, rs, s, T, ns, nd, sx, rx), Len(T) \in Nat,
           NEW i \in 1..Len(ms), NEW j \in 1..Len(rs), sx[i] = rx[j]
    PROVE  QueueOK(RemoveAt(ms, i), RemoveAt(rs, j), s, T, ns, nd,
                   RemoveAt(sx, i), RemoveAt(rx, j))
<1> DEFINE ms2 == RemoveAt(ms, i)
           rs2 == RemoveAt(rs, j)
           sx2 == RemoveAt(sx, i)
           rx2 == RemoveAt(rx, j)
<1>1. sx \in Seq(Nat) /\ Len(sx) = Len(ms) /\ Increasing(sx) /\ Len(ms) \in Nat
    BY DEF QueueOK, Sends
<1>2. rx \in Seq(Nat) /\ Len(rx) = Len(rs) /\ Increasing(rx) /\ Len(rs) \in Nat
    BY DEF QueueOK, Receives
<1>3. /\ Len(ms2) = Len(ms) - 1
      /\ \A k \in 1..Len(ms) - 1 : ms2[k] = IF k < i THEN ms[k] ELSE ms[k + 1]
    BY Removed
<1>4. /\ Len(rs2) = Len(rs) - 1
      /\ \A k \in 1..Len(rs) - 1 : rs2[k] = IF k < j THEN rs[k] ELSE rs[k + 1]
    BY Removed
<1>5. /\ sx2 \in Seq(Nat) /\ Len(sx2) = Len(sx) - 1
      /\ \A k \in 1..Len(sx) - 1 : sx2[k] = IF k < i THEN sx[k] ELSE sx[k + 1]
    BY <1>1, Removed
<1>6. /\ rx2 \in Seq(Nat) /\ Len(rx2) = Len(rx) - 1
      /\ \A k \in 1..Len(rx) - 1 : rx2[k] = IF k < j THEN rx[k] ELSE rx[k + 1]
    BY <1>2, Removed
<1>7. Increasing(sx2) /\ \A x : IsIn(x, sx2) <=> x # sx[i] /\ IsIn(x, sx)
    BY <1>1, RemoveIndex
<1>8. Increasing(rx2) /\ \A x : IsIn(x, rx2) <=> x # rx[j] /\ IsIn(x, rx)
    BY <1>2, RemoveIndex
<1> HIDE DEF ms2, rs2, sx2, rx2
<1>9. Sends(ms2, s, T, ns, sx2)
  <2>1. ASSUME NEW k \in 1..Len(ms2)
        PROVE  /\ sx2[k] \in 1..ns
               /\ ms2[k].tag = TagOf(T[sx2[k]], s)
               /\ ms2[k].vec = T[sx2[k]].vec /\ ms2[k].val = T[sx2[k]].val
    <3> DEFINE kk == IF k < i THEN k ELSE k + 1
    <3>1. kk \in 1..Len(ms) /\ k \in 1..Len(ms) - 1
        BY <1>1, <1>3
    <3>2. ms2[k] = ms[kk]
        BY <1>3, <3>1
    <3>3. sx2[k] = sx[kk]
        BY <1>1, <1>5, <3>1
    <3> HIDE DEF kk
    <3>4. QED BY <3>1, <3>2, <3>3 DEF QueueOK, Sends
  <2>2. QED BY <1>1, <1>3, <1>5, <1>7, <2>1 DEF Sends
<1>10. Receives(rs2, s, T, nd, rx2)
  <2>1. ASSUME NEW k \in 1..Len(rs2)
        PROVE  /\ rx2[k] \in 1..nd
               /\ rs2[k].tag = TagOf(T[rx2[k]], s) /\ rs2[k].vec = T[rx2[k]].vec
    <3> DEFINE kk == IF k < j THEN k ELSE k + 1
    <3>1. kk \in 1..Len(rs) /\ k \in 1..Len(rs) - 1
        BY <1>2, <1>4
    <3>2. rs2[k] = rs[kk]
        BY <1>4, <3>1
    <3>3. rx2[k] = rx[kk]
        BY <1>2, <1>6, <3>1
    <3> HIDE DEF kk
    <3>4. QED BY <3>1, <3>2, <3>3 DEF QueueOK, Receives
  <2>2. QED BY <1>2, <1>4, <1>6, <1>8, <2>1 DEF Receives
<1>11. Agree(T, ns, nd, sx2, rx2)
  <2>1. sx[i] \in 1..ns /\ rx[j] \in 1..nd
      BY DEF QueueOK, Sends, Receives
  <2>2. ASSUME NEW x \in 1..Len(T)
        PROVE  (x > ns \/ IsIn(x, sx2)) <=> (x > nd \/ IsIn(x, rx2))
    <3>1. (x > ns \/ IsIn(x, sx)) <=> (x > nd \/ IsIn(x, rx))
        BY DEF QueueOK, Agree
    <3>2. CASE x = sx[i]
      <4>1. ~(x > ns) /\ ~(x > nd)
          BY <2>1, <3>2
      <4>2. QED BY <1>7, <1>8, <3>2, <4>1
    <3>3. CASE x # sx[i]
        BY <1>7, <1>8, <3>1, <3>3
    <3>4. QED BY <3>2, <3>3
  <2>3. QED BY <2>2 DEF Agree
<1>12. QED BY <1>9, <1>10, <1>11 DEF QueueOK, ms2, rs2, sx2, rx2

\* A message is copied: it still belongs to its transfer.
LEMMA QueueSame ==
    ASSUME NEW ms \in Seq(Message), NEW rs, NEW s, NEW T, NEW ns, NEW nd, NEW sx, NEW rx,
           QueueOK(ms, rs, s, T, ns, nd, sx, rx), NEW ms2, Len(ms2) = Len(ms),
           \A k \in 1..Len(ms) : /\ ms2[k].tag = ms[k].tag /\ ms2[k].vec = ms[k].vec
                                 /\ ms2[k].val = ms[k].val
    PROVE  QueueOK(ms2, rs, s, T, ns, nd, sx, rx)
    BY DEF QueueOK, Sends

\* The program goes on: no queue has to do with the transfers to come.
LEMMA QueueLonger ==
    ASSUME NEW ms \in Seq(Message), NEW rs \in Seq(Receive), NEW s,
           NEW T, NEW T2, Len(T) \in Nat, Len(T2) \in Nat, Longer(T, T2),
           NEW ns \in Nat, NEW nd \in Nat, ns <= Len(T), nd <= Len(T),
           NEW sx, NEW rx, QueueOK(ms, rs, s, T, ns, nd, sx, rx)
    PROVE  QueueOK(ms, rs, s, T2, ns, nd, sx, rx)
<1>1. \A i \in 1..ns : T2[i] = T[i]
    BY DEF Longer
<1>2. \A i \in 1..nd : T2[i] = T[i]
    BY DEF Longer
<1>3. Sends(ms, s, T2, ns, sx)
    BY <1>1 DEF QueueOK, Sends
<1>4. Receives(rs, s, T2, nd, rx)
    BY <1>2 DEF QueueOK, Receives
<1>5. Agree(T2, ns, nd, sx, rx)
  <2>1. ASSUME NEW i \in 1..Len(T2)
        PROVE  (i > ns \/ IsIn(i, sx)) <=> (i > nd \/ IsIn(i, rx))
    <3>1. CASE i \in 1..Len(T)
        BY <3>1 DEF QueueOK, Agree
    <3>2. CASE i > Len(T)
        BY <3>2
    <3>3. QED BY <3>1, <3>2
  <2>2. QED BY <2>1 DEF Agree
<1>6. QED BY <1>3, <1>4, <1>5 DEF QueueOK

-----------------------------------------------------------------------------
(* The network.  What it says of ranks is only how many transfers they     *)
(* have begun; T, E, N, a and b are those of the head of the module.       *)

\* The list of transfers: each counts one more of its vector.
Listed(T, E) ==
    /\ T \in Seq(Transfer)
    /\ E \in [0..Len(T) -> [Vectors -> Nat]]
    /\ \A i \in 1..Len(T) : E[i] = [E[i - 1] EXCEPT ![T[i].vec] = @ + 1]
    /\ \A i, j \in 0..Len(T) : i <= j => \A v \in Vectors : E[i][v] <= E[j][v]

Counted(T, E, N) ==
    /\ N \in [Ranks -> Nat]
    /\ \A r \in Ranks : N[r] <= Len(T) /\ entered[r] = E[N[r]]
    /\ \A r \in Ranks, v \in Vectors :
         entered[r][v] = IF Open(r, v) THEN left[r][v] + 1 ELSE left[r][v]

Queues(T, N, a, b) ==
    \A p \in Pairs :
        QueueOK(sent[p], posted[p], p[1], T, N[p[1]], N[p[2]], a[p], b[p])

\* The transfer that is open for a vector is the last one the rank has begun;
\* what every rank sends in it is what this rank has in its send buffer.
LastOpen(T, E, N) ==
    \A r \in Ranks, v \in Vectors :
        Open(r, v) => \E i \in 1..N[r] : /\ T[i].vec = v /\ E[i][v] = entered[r][v]
                                        /\ T[i].val = sendBuffer[r][v]

\* A message still in its sender's buffer.
Buffered ==
    \A p \in Pairs : \A k \in 1..Len(sent[p]) :
        ~sent[p][k].copied => /\ Open(p[1], sent[p][k].vec)
                              /\ sendBuffer[p[1]][sent[p][k].vec] = sent[p][k].val

\* A receive that waits for its message.
Expected(T, b) ==
    \A p \in Pairs : \A k \in 1..Len(posted[p]) :
        /\ Open(p[2], posted[p][k].vec)
        /\ T[b[p][k]].val = sendBuffer[p[2]][posted[p][k].vec]

\* A receive that was matched while its transfer is still open.
Received ==
    \A p \in Pairs, v \in Vectors :
        /\ Open(p[2], v)
        /\ \A k \in 1..Len(posted[p]) : posted[p][k].vec # v
        => recvBuffer[p[2]][v][p[1]] = sendBuffer[p[2]][v]

Net(T, E, N, a, b) ==
    /\ Counted(T, E, N)
    /\ Queues(T, N, a, b)
    /\ LastOpen(T, E, N)
    /\ Buffered
    /\ Expected(T, b)
    /\ Received

\* The two ranks of a pair.
LEMMA PairOf ==
    ASSUME NEW p \in Pairs
    PROVE  /\ p[1] \in Ranks /\ p[2] \in Ranks /\ p[1] \in Neighbors[p[2]]
           /\ p[1] # p[2] /\ p[1] \in Nat
    BY HaloAssumption DEF Pairs

\* Every neighbor of a rank is the other end of a pair.
LEMMA PairWith ==
    ASSUME NEW r \in Ranks, NEW n \in Neighbors[r]
    PROVE  <<n, r>> \in Pairs /\ n \in Ranks
    BY HaloAssumption DEF Pairs

-----------------------------------------------------------------------------
(* A rank begins a transfer: the next one of the list. *)

LEMMA PostTypes ==
    ASSUME NetTypeOK, NEW r \in Ranks, NEW v \in Vectors, NEW data \in Nat,
           NEW sendTag \in Nat, NEW recvTags \in [Neighbors[r] -> Nat],
           Post(r, v, data, sendTag, recvTags)
    PROVE  NetTypeOK'
<1>1. ASSUME NEW p \in Pairs
      PROVE  sent'[p] \in Seq(Message)
  <2> DEFINE m == [tag |-> sendTag, vec |-> v, val |-> data, copied |-> FALSE]
  <2>1. m \in Message /\ sent[p] \in Seq(Message)
      BY DEF Message, NetTypeOK
  <2> HIDE DEF m
  <2>2. Append(sent[p], m) \in Seq(Message)
      BY <2>1, Appended
  <2>3. sent'[p] = IF p[1] # r THEN sent[p] ELSE Append(sent[p], m)
      BY DEF Post, m
  <2>4. QED BY <2>1, <2>2, <2>3
<1>2. ASSUME NEW p \in Pairs
      PROVE  posted'[p] \in Seq(Receive)
  <2> DEFINE m == [tag |-> recvTags[p[1]], vec |-> v]
  <2>1. posted[p] \in Seq(Receive)
      BY DEF NetTypeOK
  <2>2. posted'[p] = IF p[2] # r THEN posted[p] ELSE Append(posted[p], m)
      BY DEF Post
  <2>3. ASSUME p[2] = r
        PROVE  m \in Receive
      BY PairOf, <2>3 DEF Receive
  <2> HIDE DEF m
  <2>4. QED BY <2>1, <2>2, <2>3, Appended
<1>3. sent' \in [Pairs -> Seq(Message)] /\ posted' \in [Pairs -> Seq(Receive)]
    BY <1>1, <1>2 DEF Post
<1>4. /\ in_transfer' \in [Ranks -> [Vectors -> {"IDLE", "BOTH"}]]
      /\ sendBuffer' \in [Ranks -> [Vectors -> Nat]]
      /\ entered' \in [Ranks -> [Vectors -> Nat]]
      /\ left' \in [Ranks -> [Vectors -> Nat]]
    BY DEF Post, NetTypeOK
<1>5. DOMAIN recvBuffer' = Ranks
    BY DEF Post, NetTypeOK
<1>6. \A s \in Ranks : recvBuffer'[s] \in [Vectors -> [Neighbors[s] -> Nat]]
    BY DEF Post, NetTypeOK
<1>7. QED BY <1>3, <1>4, <1>5, <1>6 DEF NetTypeOK

\* What changes and what does not, at the rank and at the others.
LEMMA PostFacts ==
    ASSUME NetTypeOK, NEW r \in Ranks, NEW v \in Vectors, NEW data,
           NEW sendTag, NEW recvTags, Post(r, v, data, sendTag, recvTags)
    PROVE  /\ in_transfer'[r][v] = "BOTH" /\ sendBuffer'[r][v] = data
           /\ entered'[r][v] = entered[r][v] + 1
           /\ \A s \in Ranks, u \in Vectors : ~(s = r /\ u = v) =>
                /\ in_transfer'[s][u] = in_transfer[s][u]
                /\ sendBuffer'[s][u] = sendBuffer[s][u]
                /\ entered'[s][u] = entered[s][u]
           /\ left' = left /\ recvBuffer' = recvBuffer
           /\ OpenSet(r)' = OpenSet(r) \cup {v}
           /\ \A s \in Ranks : s # r => OpenSet(s)' = OpenSet(s)
<1>1. /\ in_transfer'[r][v] = "BOTH" /\ sendBuffer'[r][v] = data
      /\ entered'[r][v] = entered[r][v] + 1
    BY DEF Post, NetTypeOK
<1>2. \A s \in Ranks, u \in Vectors : ~(s = r /\ u = v) =>
        /\ in_transfer'[s][u] = in_transfer[s][u]
        /\ sendBuffer'[s][u] = sendBuffer[s][u]
        /\ entered'[s][u] = entered[s][u]
    BY DEF Post, NetTypeOK
<1>3. left' = left /\ recvBuffer' = recvBuffer
    BY DEF Post
<1>4. OpenSet(r)' = OpenSet(r) \cup {v}
    BY <1>1, <1>2 DEF OpenSet, Open
<1>5. \A s \in Ranks : s # r => OpenSet(s)' = OpenSet(s)
    BY <1>2 DEF OpenSet, Open
<1>6. QED BY <1>1, <1>2, <1>3, <1>4, <1>5

LEMMA NetPost ==
    ASSUME NetTypeOK, NEW r \in Ranks, NEW v \in Vectors, NEW data \in Nat,
           NEW sendTag \in Nat, NEW recvTags \in [Neighbors[r] -> Nat],
           Post(r, v, data, sendTag, recvTags),
           NEW T, NEW E, NEW N, NEW a, NEW b, Listed(T, E), Net(T, E, N, a, b),
           ~Open(r, v), NEW n \in Nat, n = N[r], n < Len(T), NEW t, t = T[n + 1],
           t.vec = v, t.val = data, sendTag = TagOf(t, r),
           \A s \in Neighbors[r] : recvTags[s] = TagOf(t, s)
    PROVE  \E N2, a2, b2 : /\ Net(T, E, N2, a2, b2)' /\ N2[r] = n + 1
                           /\ \A s \in Ranks : s # r => N2[s] = N[s]
<1> DEFINE N2 == [N EXCEPT ![r] = n + 1]
           a2 == [p \in Pairs |-> IF p[1] = r THEN Append(a[p], n + 1) ELSE a[p]]
           b2 == [p \in Pairs |-> IF p[2] = r THEN Append(b[p], n + 1) ELSE b[p]]
           m == [tag |-> sendTag, vec |-> v, val |-> data, copied |-> FALSE]
           w(p) == [tag |-> recvTags[p[1]], vec |-> v]
<1>1. /\ N \in [Ranks -> Nat] /\ N2 \in [Ranks -> Nat] /\ N2[r] = n + 1
      /\ \A s \in Ranks : s # r => N2[s] = N[s]
    BY DEF Net, Counted
<1>2. Len(T) \in Nat /\ n + 1 \in 1..Len(T)
    BY DEF Listed
<1>3. ASSUME NEW p \in Pairs
      PROVE  /\ sent[p] \in Seq(Message) /\ Len(sent[p]) \in Nat
             /\ p[1] = r => sent'[p] = Append(sent[p], m) /\ a2[p] = Append(a[p], n + 1)
             /\ p[1] # r => sent'[p] = sent[p] /\ a2[p] = a[p]
  <2>1. sent[p] \in Seq(Message) /\ Len(sent[p]) \in Nat
      BY DEF NetTypeOK
  <2>2. sent'[p] = IF p[1] # r THEN sent[p] ELSE Append(sent[p], m)
      BY DEF Post
  <2>3. a2[p] = IF p[1] = r THEN Append(a[p], n + 1) ELSE a[p]
      OBVIOUS
  <2> HIDE DEF a2, m
  <2>4. QED BY <2>1, <2>2, <2>3
<1>4. ASSUME NEW p \in Pairs
      PROVE  /\ posted[p] \in Seq(Receive) /\ Len(posted[p]) \in Nat
             /\ p[2] = r => posted'[p] = Append(posted[p], w(p)) /\ b2[p] = Append(b[p], n + 1)
             /\ p[2] # r => posted'[p] = posted[p] /\ b2[p] = b[p]
  <2>1. posted[p] \in Seq(Receive) /\ Len(posted[p]) \in Nat
      BY DEF NetTypeOK
  <2>2. posted'[p] = IF p[2] # r THEN posted[p] ELSE Append(posted[p], w(p))
      BY DEF Post
  <2>3. b2[p] = IF p[2] = r THEN Append(b[p], n + 1) ELSE b[p]
      OBVIOUS
  <2> HIDE DEF b2, w
  <2>4. QED BY <2>1, <2>2, <2>3
<1>5. ASSUME NEW p \in Pairs
      PROVE  QueueOK(sent[p], posted[p], p[1], T, N[p[1]], N[p[2]], a[p], b[p])
    BY DEF Net, Queues
<1>6. m \in Message /\ m.vec = v /\ m.val = data /\ m.tag = TagOf(t, r) /\ ~m.copied
    BY DEF Message
<1>7. ASSUME NEW p \in Pairs, p[2] = r
      PROVE  w(p) \in Receive /\ w(p).vec = v /\ w(p).tag = TagOf(t, p[1])
    BY PairOf, <1>7 DEF Receive
<1> HIDE DEF N2, a2, b2, m, w
<1>8. /\ in_transfer'[r][v] = "BOTH" /\ sendBuffer'[r][v] = data
      /\ entered'[r][v] = entered[r][v] + 1
      /\ left' = left /\ recvBuffer' = recvBuffer
    BY PostFacts
<1>9. \A s \in Ranks, u \in Vectors : ~(s = r /\ u = v) =>
        /\ in_transfer'[s][u] = in_transfer[s][u]
        /\ sendBuffer'[s][u] = sendBuffer[s][u]
        /\ entered'[s][u] = entered[s][u]
    BY PostFacts
<1>10. Counted(T, E, N2)'
  <2>1. entered'[r] = E[n + 1]
    <3>1. PICK i \in 1..Len(T) : i = n + 1
        BY <1>2
    <3>2. i - 1 = n /\ T[i].vec = v
        BY <3>1
    <3>3. E[i] = [E[i - 1] EXCEPT ![T[i].vec] = @ + 1]
        BY DEF Listed
    <3>4. entered'[r] = [entered[r] EXCEPT ![v] = @ + 1] /\ entered[r] = E[n]
        BY DEF Post, NetTypeOK, Net, Counted
    <3>5. E[i] = [E[n] EXCEPT ![v] = @ + 1]
        BY <3>2, <3>3
    <3>6. entered'[r] = [E[n] EXCEPT ![v] = @ + 1]
        BY <3>4
    <3>7. E[n + 1] = E[i]
        BY <3>1
    <3>8. QED BY <3>5, <3>6, <3>7
  <2>2. ASSUME NEW s \in Ranks
        PROVE  N2[s] <= Len(T) /\ entered'[s] = E[N2[s]]
    <3>1. CASE s = r
        BY <1>1, <1>2, <2>1, <3>1
    <3>2. CASE s # r
      <4>1. entered'[s] = entered[s]
          BY <3>2 DEF Post, NetTypeOK
      <4>2. QED BY <1>1, <3>2, <4>1 DEF Net, Counted
    <3>3. QED BY <3>1, <3>2
  <2>3. ASSUME NEW s \in Ranks, NEW u \in Vectors
        PROVE  entered'[s][u] = IF Open(s, u)' THEN left'[s][u] + 1 ELSE left'[s][u]
      BY <1>8, <1>9 DEF Net, Counted, Open
  <2>4. QED BY <1>1, <2>2, <2>3 DEF Counted
<1>11. Queues(T, N2, a2, b2)'
  <2>1. ASSUME NEW p \in Pairs
        PROVE  QueueOK(sent'[p], posted'[p], p[1], T, N2[p[1]], N2[p[2]], a2[p], b2[p])
    <3>1. p[1] \in Ranks /\ p[2] \in Ranks /\ p[1] # p[2]
        BY PairOf
    <3>2. CASE p[1] = r
      <4>1. N[p[2]] \in Nat /\ N2[p[2]] = N[p[2]] /\ N2[r] = n + 1
          BY <1>1, <3>1, <3>2
      <4>2. QueueOK(sent[p], posted[p], r, T, n, N[p[2]], a[p], b[p])
          BY <1>5, <3>2
      <4>3. QueueOK(Append(sent[p], m), posted[p], r, T, n + 1, N[p[2]],
                    Append(a[p], n + 1), b[p])
        <5>1. sent[p] \in Seq(Message) /\ posted[p] \in Seq(Receive)
            BY <1>3, <1>4
        <5>2. m.tag = TagOf(T[n + 1], r) /\ m.vec = T[n + 1].vec /\ m.val = T[n + 1].val
            BY <1>6
        <5>3. QED BY <1>2, <1>6, <4>1, <4>2, <5>1, <5>2, QueueSend
      <4>4. /\ sent'[p] = Append(sent[p], m) /\ a2[p] = Append(a[p], n + 1)
            /\ posted'[p] = posted[p] /\ b2[p] = b[p]
          BY <1>3, <1>4, <3>1, <3>2
      <4>5. QED BY <3>2, <4>1, <4>3, <4>4
    <3>3. CASE p[2] = r
      <4>1. N[p[1]] \in Nat /\ N2[p[1]] = N[p[1]] /\ N2[r] = n + 1
          BY <1>1, <3>1, <3>3
      <4>2. QueueOK(sent[p], posted[p], p[1], T, N[p[1]], n, a[p], b[p])
          BY <1>5, <3>3
      <4>3. QueueOK(sent[p], Append(posted[p], w(p)), p[1], T, N[p[1]], n + 1,
                    a[p], Append(b[p], n + 1))
          BY <1>2, <1>3, <1>4, <1>7, <3>3, <4>1, <4>2, QueueReceive
      <4>4. /\ posted'[p] = Append(posted[p], w(p)) /\ b2[p] = Append(b[p], n + 1)
            /\ sent'[p] = sent[p] /\ a2[p] = a[p]
          BY <1>3, <1>4, <3>1, <3>3
      <4>5. QED BY <3>3, <4>1, <4>3, <4>4
    <3>4. CASE p[1] # r /\ p[2] # r
      <4>1. /\ posted'[p] = posted[p] /\ b2[p] = b[p]
            /\ sent'[p] = sent[p] /\ a2[p] = a[p]
          BY <1>3, <1>4, <3>4
      <4>2. N2[p[1]] = N[p[1]] /\ N2[p[2]] = N[p[2]]
          BY <1>1, <3>1, <3>4
      <4>3. QED BY <1>5, <4>1, <4>2
    <3>5. QED BY <3>2, <3>3, <3>4
  <2>2. QED BY <2>1 DEF Queues
<1>12. LastOpen(T, E, N2)'
  <2>1. ASSUME NEW s \in Ranks, NEW u \in Vectors, in_transfer'[s][u] = "BOTH"
        PROVE  \E i \in 1..N2[s] : /\ T[i].vec = u /\ E[i][u] = entered'[s][u]
                                   /\ T[i].val = sendBuffer'[s][u]
    <3>1. CASE s = r /\ u = v
      <4>1. entered'[r] = E[n + 1]
          BY <1>1, <1>10 DEF Counted
      <4>2. n + 1 \in 1..N2[s]
          BY <1>1, <3>1
      <4>3. QED BY <1>8, <3>1, <4>1, <4>2
    <3>2. CASE ~(s = r /\ u = v)
      <4>1. /\ in_transfer'[s][u] = in_transfer[s][u]
            /\ sendBuffer'[s][u] = sendBuffer[s][u]
            /\ entered'[s][u] = entered[s][u]
          BY <1>9, <3>2
      <4>2. PICK i \in 1..N[s] : /\ T[i].vec = u /\ E[i][u] = entered[s][u]
                                 /\ T[i].val = sendBuffer[s][u]
          BY <2>1, <4>1 DEF Net, LastOpen, Open
      <4>3. i \in 1..N2[s]
        <5>1. N2[s] \in Nat /\ N[s] \in Nat /\ N[s] <= N2[s]
          <6>1. CASE s = r
              BY <1>1, <6>1
          <6>2. CASE s # r
              BY <1>1, <6>2
          <6>3. QED BY <6>1, <6>2
        <5>2. QED BY <5>1
      <4>4. QED BY <4>1, <4>2, <4>3
    <3>3. QED BY <3>1, <3>2
  <2>2. QED BY <2>1 DEF LastOpen, Open
<1>13. Buffered'
  <2>1. ASSUME NEW p \in Pairs, NEW k \in 1..Len(sent'[p]), ~sent'[p][k].copied
        PROVE  /\ in_transfer'[p[1]][sent'[p][k].vec] = "BOTH"
               /\ sendBuffer'[p[1]][sent'[p][k].vec] = sent'[p][k].val
    <3>1. ASSUME k \in 1..Len(sent[p]), sent'[p][k] = sent[p][k]
          PROVE  /\ in_transfer'[p[1]][sent'[p][k].vec] = "BOTH"
                 /\ sendBuffer'[p[1]][sent'[p][k].vec] = sent'[p][k].val
      <4>1. sent[p][k].vec \in Vectors /\ p[1] \in Ranks
        <5>1. sent[p][k] \in Message
            BY <1>3, <3>1
        <5>2. QED BY <5>1, PairOf DEF Message
      <4>2. /\ Open(p[1], sent[p][k].vec)
            /\ sendBuffer[p[1]][sent[p][k].vec] = sent[p][k].val
          BY <2>1, <3>1 DEF Net, Buffered
      <4>3. ~(p[1] = r /\ sent[p][k].vec = v)
          BY <4>2
      <4>4. QED BY <1>9, <3>1, <4>1, <4>2, <4>3 DEF Open
    <3>2. CASE p[1] = r
      <4>1. sent'[p] = Append(sent[p], m) /\ sent[p] \in Seq(Message) /\ Len(sent[p]) \in Nat
          BY <1>3, <3>2
      <4>2. /\ Len(sent'[p]) = Len(sent[p]) + 1 /\ sent'[p][Len(sent[p]) + 1] = m
            /\ \A j \in 1..Len(sent[p]) : sent'[p][j] = sent[p][j]
          BY <1>6, <4>1, Appended
      <4>3. CASE k = Len(sent[p]) + 1
          BY <1>6, <1>8, <3>2, <4>2, <4>3
      <4>4. CASE k # Len(sent[p]) + 1
          BY <3>1, <4>1, <4>2, <4>4
      <4>5. QED BY <4>3, <4>4
    <3>3. CASE p[1] # r
        BY <1>3, <3>1, <3>3
    <3>4. QED BY <3>2, <3>3
  <2>2. QED BY <2>1 DEF Buffered, Open
<1>14. Expected(T, b2)'
  <2>1. ASSUME NEW p \in Pairs, NEW k \in 1..Len(posted'[p])
        PROVE  /\ in_transfer'[p[2]][posted'[p][k].vec] = "BOTH"
               /\ T[b2[p][k]].val = sendBuffer'[p[2]][posted'[p][k].vec]
    <3>1. ASSUME k \in 1..Len(posted[p]), posted'[p][k] = posted[p][k], b2[p][k] = b[p][k]
          PROVE  /\ in_transfer'[p[2]][posted'[p][k].vec] = "BOTH"
                 /\ T[b2[p][k]].val = sendBuffer'[p[2]][posted'[p][k].vec]
      <4>1. posted[p][k].vec \in Vectors /\ p[2] \in Ranks
        <5>1. posted[p][k] \in Receive
            BY <1>4, <3>1
        <5>2. QED BY <5>1, PairOf DEF Receive
      <4>2. /\ Open(p[2], posted[p][k].vec)
            /\ T[b[p][k]].val = sendBuffer[p[2]][posted[p][k].vec]
          BY <3>1 DEF Net, Expected
      <4>3. ~(p[2] = r /\ posted[p][k].vec = v)
          BY <4>2
      <4>4. QED BY <1>9, <3>1, <4>1, <4>2, <4>3 DEF Open
    <3>2. CASE p[2] = r
      <4>1. /\ posted'[p] = Append(posted[p], w(p)) /\ b2[p] = Append(b[p], n + 1)
            /\ posted[p] \in Seq(Receive) /\ Len(posted[p]) \in Nat
          BY <1>4, <3>2
      <4>2. b[p] \in Seq(Nat) /\ Len(b[p]) = Len(posted[p])
          BY <1>5 DEF QueueOK, Receives
      <4>3. /\ Len(posted'[p]) = Len(posted[p]) + 1 /\ posted'[p][Len(posted[p]) + 1] = w(p)
            /\ \A j \in 1..Len(posted[p]) : posted'[p][j] = posted[p][j]
          BY <1>7, <3>2, <4>1, Appended
      <4>4. /\ b2[p][Len(b[p]) + 1] = n + 1
            /\ \A j \in 1..Len(b[p]) : b2[p][j] = b[p][j]
          BY <1>2, <4>1, <4>2, Appended
      <4>5. CASE k = Len(posted[p]) + 1
        <5>1. posted'[p][k] = w(p) /\ b2[p][k] = n + 1
            BY <4>2, <4>3, <4>4, <4>5
        <5>2. QED BY <1>7, <1>8, <3>2, <5>1
      <4>6. CASE k # Len(posted[p]) + 1
        <5>1. k \in 1..Len(posted[p])
            BY <4>1, <4>3, <4>6
        <5>2. QED BY <3>1, <4>2, <4>3, <4>4, <5>1
      <4>7. QED BY <4>5, <4>6
    <3>3. CASE p[2] # r
        BY <1>4, <3>1, <3>3
    <3>4. QED BY <3>2, <3>3
  <2>2. QED BY <2>1 DEF Expected, Open
<1>15. Received'
  <2>1. ASSUME NEW p \in Pairs, NEW u \in Vectors, in_transfer'[p[2]][u] = "BOTH",
               \A k \in 1..Len(posted'[p]) : posted'[p][k].vec # u
        PROVE  recvBuffer'[p[2]][u][p[1]] = sendBuffer'[p[2]][u]
    <3>1. ~(p[2] = r /\ u = v) /\ \A k \in 1..Len(posted[p]) : posted[p][k].vec # u
      <4>1. CASE p[2] = r
        <5>1. posted'[p] = Append(posted[p], w(p)) /\ posted[p] \in Seq(Receive)
            BY <1>4, <4>1
        <5>2. /\ Len(posted'[p]) = Len(posted[p]) + 1 /\ posted'[p][Len(posted[p]) + 1] = w(p)
              /\ \A j \in 1..Len(posted[p]) : posted'[p][j] = posted[p][j]
            BY <1>7, <4>1, <5>1, Appended
        <5>3. /\ Len(posted[p]) + 1 \in 1..Len(posted'[p])
              /\ \A j \in 1..Len(posted[p]) : j \in 1..Len(posted'[p])
            BY <1>4, <5>2
        <5>4. w(p).vec = v
            BY <1>7, <4>1
        <5>5. QED BY <2>1, <5>2, <5>3, <5>4
      <4>2. CASE p[2] # r
          BY <1>4, <2>1, <4>2
      <4>3. QED BY <4>1, <4>2
    <3>2. /\ in_transfer[p[2]][u] = "BOTH"
          /\ sendBuffer'[p[2]][u] = sendBuffer[p[2]][u]
        BY <1>9, <2>1, <3>1, PairOf
    <3>3. QED BY <1>8, <3>1, <3>2 DEF Net, Received, Open
  <2>2. QED BY <2>1 DEF Received, Open
<1>16. Net(T, E, N2, a2, b2)'
    BY <1>10, <1>11, <1>12, <1>13, <1>14, <1>15 DEF Net
<1>17. QED BY <1>1, <1>16

-----------------------------------------------------------------------------
(* A rank ends a transfer. *)

LEMMA EndFacts ==
    ASSUME NetTypeOK, NEW r \in Ranks, NEW v \in Vectors, EndTransfer(r, v)
    PROVE  /\ NetTypeOK'
           /\ in_transfer'[r][v] = "IDLE" /\ left'[r][v] = left[r][v] + 1
           /\ \A s \in Ranks, u \in Vectors : ~(s = r /\ u = v) =>
                in_transfer'[s][u] = in_transfer[s][u] /\ left'[s][u] = left[s][u]
           /\ OpenSet(r)' = OpenSet(r) \ {v}
           /\ \A s \in Ranks : s # r => OpenSet(s)' = OpenSet(s)
<1>1. /\ in_transfer'[r][v] = "IDLE" /\ left'[r][v] = left[r][v] + 1
      /\ in_transfer' \in [Ranks -> [Vectors -> {"IDLE", "BOTH"}]]
      /\ left' \in [Ranks -> [Vectors -> Nat]]
    BY DEF EndTransfer, NetTypeOK
<1>2. \A s \in Ranks, u \in Vectors : ~(s = r /\ u = v) =>
        in_transfer'[s][u] = in_transfer[s][u] /\ left'[s][u] = left[s][u]
    BY DEF EndTransfer, NetTypeOK
<1>3. NetTypeOK'
    BY <1>1 DEF EndTransfer, NetTypeOK
<1>4. OpenSet(r)' = OpenSet(r) \ {v}
    BY <1>1, <1>2 DEF OpenSet, Open
<1>5. \A s \in Ranks : s # r => OpenSet(s)' = OpenSet(s)
    BY <1>2 DEF OpenSet, Open
<1>6. QED BY <1>1, <1>2, <1>3, <1>4, <1>5

LEMMA NetEnd ==
    ASSUME NetTypeOK, NEW r \in Ranks, NEW v \in Vectors, EndTransfer(r, v),
           NEW T, NEW E, NEW N, NEW a, NEW b, Net(T, E, N, a, b), Open(r, v)
    PROVE  Net(T, E, N, a, b)'
<1>1. /\ in_transfer'[r][v] = "IDLE" /\ left'[r][v] = left[r][v] + 1
      /\ \A s \in Ranks, u \in Vectors : ~(s = r /\ u = v) =>
           in_transfer'[s][u] = in_transfer[s][u] /\ left'[s][u] = left[s][u]
    BY EndFacts
<1>2. /\ sendBuffer' = sendBuffer /\ sent' = sent /\ posted' = posted
      /\ recvBuffer' = recvBuffer /\ entered' = entered
    BY DEF EndTransfer
<1>3. \A s \in Ranks, u \in Vectors :
        in_transfer'[s][u] = "BOTH" => in_transfer[s][u] = "BOTH"
    BY <1>1
<1>4. Counted(T, E, N)'
  <2>1. ASSUME NEW s \in Ranks, NEW u \in Vectors
        PROVE  entered'[s][u] = IF Open(s, u)' THEN left'[s][u] + 1 ELSE left'[s][u]
      BY <1>1, <1>2 DEF Net, Counted, Open
  <2>2. QED BY <1>2, <2>1 DEF Net, Counted
<1>5. Queues(T, N, a, b)'
    BY <1>2 DEF Net, Queues
<1>6. LastOpen(T, E, N)'
    BY <1>2, <1>3 DEF Net, LastOpen, Open
<1>7. Buffered'
  <2>1. ASSUME NEW p \in Pairs, NEW k \in 1..Len(sent[p]), ~sent[p][k].copied
        PROVE  /\ in_transfer'[p[1]][sent[p][k].vec] = "BOTH"
               /\ sendBuffer[p[1]][sent[p][k].vec] = sent[p][k].val
    <3>1. sent[p] \in Seq(Message)
        BY DEF NetTypeOK
    <3>2. sent[p][k] \in Message /\ k \in DOMAIN sent[p]
        BY <3>1
    <3>3. sent[p][k].vec \in Vectors
        BY <3>2 DEF Message
    <3>4. ~(p[1] = r /\ sent[p][k].vec = v)
        BY <2>1, <3>2 DEF EndTransfer, Waitall, AllSent
    <3>5. /\ in_transfer[p[1]][sent[p][k].vec] = "BOTH"
          /\ sendBuffer[p[1]][sent[p][k].vec] = sent[p][k].val
        BY <2>1 DEF Net, Buffered, Open
    <3>6. QED BY <1>1, <3>3, <3>4, <3>5, PairOf
  <2>2. QED BY <1>2, <2>1 DEF Buffered, Open
<1>8. Expected(T, b)'
  <2>1. ASSUME NEW p \in Pairs, NEW k \in 1..Len(posted[p])
        PROVE  in_transfer'[p[2]][posted[p][k].vec] = "BOTH"
    <3>1. posted[p] \in Seq(Receive)
        BY DEF NetTypeOK
    <3>2. posted[p][k] \in Receive /\ k \in DOMAIN posted[p]
        BY <3>1
    <3>3. posted[p][k].vec \in Vectors
        BY <3>2 DEF Receive
    <3>4. ~(p[2] = r /\ posted[p][k].vec = v)
        BY <3>2 DEF EndTransfer, Waitall, AllArrived
    <3>5. in_transfer[p[2]][posted[p][k].vec] = "BOTH"
        BY DEF Net, Expected, Open
    <3>6. QED BY <1>1, <3>3, <3>4, <3>5, PairOf
  <2>2. QED BY <1>2, <2>1 DEF Net, Expected, Open
<1>9. Received'
    BY <1>2, <1>3, PairOf DEF Net, Received, Open
<1>10. QED BY <1>4, <1>5, <1>6, <1>7, <1>8, <1>9 DEF Net

\* What has arrived when a rank has waited for all requests of a vector: the
\* same version from every neighbor, and each has begun the transfer too.
LEMMA EndArrived ==
    ASSUME NetTypeOK, NEW r \in Ranks, NEW v \in Vectors, EndTransfer(r, v),
           NEW T, NEW E, NEW N, NEW a, NEW b, Listed(T, E), Net(T, E, N, a, b),
           Open(r, v), NEW n \in Neighbors[r]
    PROVE  /\ recvBuffer[r][v][n] = sendBuffer[r][v]
           /\ entered[n][v] >= entered[r][v]
<1> DEFINE p == <<n, r>>
<1>1. p \in Pairs /\ n \in Ranks /\ p[1] = n /\ p[2] = r
    BY PairWith
<1> HIDE DEF p
<1>2. \A k \in 1..Len(posted[p]) : posted[p][k].vec # v
  <2>1. posted[p] \in Seq(Receive)
      BY <1>1 DEF NetTypeOK
  <2>2. DOMAIN posted[p] = 1..Len(posted[p])
      BY <2>1
  <2>3. QED BY <1>1, <2>2 DEF EndTransfer, Waitall, AllArrived
<1>3. recvBuffer[r][v][n] = sendBuffer[r][v]
    BY <1>1, <1>2 DEF Net, Received
<1>4. PICK i \in 1..N[r] : T[i].vec = v /\ E[i][v] = entered[r][v]
    BY DEF Net, LastOpen
<1>5. /\ N[r] \in Nat /\ N[n] \in Nat /\ Len(T) \in Nat
      /\ N[r] <= Len(T) /\ N[n] <= Len(T) /\ entered[n] = E[N[n]]
    BY <1>1 DEF Listed, Net, Counted
<1>6. QueueOK(sent[p], posted[p], n, T, N[n], N[r], a[p], b[p])
    BY <1>1 DEF Net, Queues
<1>7. ~IsIn(i, b[p])
    BY <1>2, <1>4, <1>6 DEF QueueOK, Receives, IsIn
<1>8. i <= N[n]
  <2>1. i \in 1..Len(T) /\ ~(i > N[r])
      BY <1>5
  <2>2. ~(i > N[n])
      BY <1>6, <1>7, <2>1 DEF QueueOK, Agree
  <2>3. QED BY <1>5, <2>2
<1>9. E[i][v] <= E[N[n]][v]
  <2>1. i \in 0..Len(T) /\ N[n] \in 0..Len(T)
      BY <1>5
  <2>2. QED BY <1>8, <2>1 DEF Listed
<1>10. entered[n][v] \in Nat /\ entered[r][v] \in Nat
    BY <1>1 DEF NetTypeOK
<1>11. entered[n][v] >= entered[r][v]
    BY <1>4, <1>5, <1>9, <1>10
<1>12. QED BY <1>3, <1>11

-----------------------------------------------------------------------------
(* MPI moves messages. *)

\* An eager send copies what the receiver expects.
LEMMA PayloadIs ==
    ASSUME Buffered, NEW p \in Pairs, NEW i \in 1..Len(sent[p]),
           sent[p][i].copied \in BOOLEAN
    PROVE  Payload(p, sent[p][i]) = sent[p][i].val
    BY DEF Buffered, Payload

LEMMA NetEager ==
    ASSUME NetTypeOK, NEW p \in Pairs, NEW i \in DOMAIN sent[p], SendEagerly(p, i),
           NEW T, NEW E, NEW N, NEW a, NEW b, Net(T, E, N, a, b)
    PROVE  NetTypeOK' /\ Net(T, E, N, a, b)'
<1>1. sent[p] \in Seq(Message) /\ i \in 1..Len(sent[p]) /\ Len(sent[p]) \in Nat
    BY DEF NetTypeOK
<1>2. sent[p][i] \in Message
    BY <1>1
<1>3. Payload(p, sent[p][i]) = sent[p][i].val /\ sent[p][i].val \in Nat
    BY <1>1, <1>2, PayloadIs DEF Net, Message
<1>4. sent' = [sent EXCEPT ![p][i].copied = TRUE, ![p][i].val = sent[p][i].val]
    BY <1>3 DEF SendEagerly
<1>5. \A q \in Pairs : q # p => sent'[q] = sent[q]
    BY <1>4 DEF NetTypeOK
<1>6. /\ sent'[p] \in Seq(Message) /\ Len(sent'[p]) = Len(sent[p])
      /\ \A k \in 1..Len(sent[p]) : k # i => sent'[p][k] = sent[p][k]
      /\ sent'[p][i].tag = sent[p][i].tag /\ sent'[p][i].vec = sent[p][i].vec
      /\ sent'[p][i].val = sent[p][i].val /\ sent'[p][i].copied = TRUE
  <2> DEFINE m == [sent[p][i] EXCEPT !.copied = TRUE, !.val = sent[p][i].val]
  <2>1. /\ m \in Message /\ m.tag = sent[p][i].tag /\ m.vec = sent[p][i].vec
        /\ m.val = sent[p][i].val /\ m.copied = TRUE
      BY <1>2 DEF Message
  <2>2. sent'[p] = [sent[p] EXCEPT ![i] = m]
      BY <1>1, <1>4 DEF NetTypeOK
  <2> HIDE DEF m
  <2>3. QED BY <1>1, <2>1, <2>2
<1>7. sent' \in [Pairs -> Seq(Message)]
  <2>1. DOMAIN sent' = Pairs /\ sent' = [q \in Pairs |-> sent'[q]]
      BY <1>4 DEF NetTypeOK
  <2>2. \A q \in Pairs : sent'[q] \in Seq(Message)
      BY <1>5, <1>6 DEF NetTypeOK
  <2>3. QED BY <2>1, <2>2
<1>8. /\ in_transfer' = in_transfer /\ sendBuffer' = sendBuffer /\ posted' = posted
      /\ recvBuffer' = recvBuffer /\ entered' = entered /\ left' = left
    BY DEF SendEagerly, local, history
<1>9. NetTypeOK'
    BY <1>7, <1>8 DEF NetTypeOK
<1>10. \A q \in Pairs :
         /\ Len(sent'[q]) = Len(sent[q])
         /\ \A k \in 1..Len(sent[q]) :
              /\ sent'[q][k].tag = sent[q][k].tag /\ sent'[q][k].vec = sent[q][k].vec
              /\ sent'[q][k].val = sent[q][k].val
              /\ ~sent'[q][k].copied => ~sent[q][k].copied
  <2>1. ASSUME NEW k \in 1..Len(sent[p])
        PROVE  /\ sent'[p][k].tag = sent[p][k].tag /\ sent'[p][k].vec = sent[p][k].vec
               /\ sent'[p][k].val = sent[p][k].val
               /\ ~sent'[p][k].copied => ~sent[p][k].copied
    <3>1. CASE k = i
        BY <1>6, <3>1
    <3>2. CASE k # i
        BY <1>6, <3>2
    <3>3. QED BY <3>1, <3>2
  <2>2. QED BY <1>5, <1>6, <2>1
<1>11. Queues(T, N, a, b)'
  <2>1. ASSUME NEW q \in Pairs
        PROVE  QueueOK(sent'[q], posted[q], q[1], T, N[q[1]], N[q[2]], a[q], b[q])
    <3>1. QueueOK(sent[q], posted[q], q[1], T, N[q[1]], N[q[2]], a[q], b[q])
        BY DEF Net, Queues
    <3>2. sent[q] \in Seq(Message)
        BY DEF NetTypeOK
    <3>3. QED BY <1>10, <3>1, <3>2, QueueSame
  <2>2. QED BY <1>8, <2>1 DEF Queues
<1>12. Buffered'
    BY <1>8, <1>10 DEF Net, Buffered, Open
<1>13. Counted(T, E, N)' /\ LastOpen(T, E, N)' /\ Expected(T, b)' /\ Received'
    BY <1>8 DEF Net, Counted, LastOpen, Expected, Received, Open
<1>14. QED BY <1>9, <1>11, <1>12, <1>13 DEF Net

\* A message reaches the receive of its own transfer, with its version.
LEMMA NetDeliver ==
    ASSUME NetTypeOK, NEW p \in Pairs, NEW i \in DOMAIN sent[p],
           NEW j \in DOMAIN posted[p], Deliver(p, i, j),
           NEW T, NEW E, NEW N, NEW a, NEW b, Listed(T, E), Net(T, E, N, a, b)
    PROVE  NetTypeOK' /\ \E a2, b2 : Net(T, E, N, a2, b2)'
<1> DEFINE a2 == [q \in Pairs |-> IF q = p THEN RemoveAt(a[p], i) ELSE a[q]]
           b2 == [q \in Pairs |-> IF q = p THEN RemoveAt(b[p], j) ELSE b[q]]
           vec == posted[p][j].vec
           val == Payload(p, sent[p][i])
<1>1. /\ sent[p] \in Seq(Message) /\ i \in 1..Len(sent[p]) /\ Len(sent[p]) \in Nat
      /\ posted[p] \in Seq(Receive) /\ j \in 1..Len(posted[p]) /\ Len(posted[p]) \in Nat
    BY DEF NetTypeOK
<1>2. sent[p][i] \in Message /\ posted[p][j] \in Receive
    BY <1>1
<1>3. vec \in Vectors /\ val = sent[p][i].val /\ val \in Nat
    BY <1>1, <1>2, PayloadIs DEF Net, Message, Receive
<1>4. /\ p[1] \in Ranks /\ p[2] \in Ranks /\ p[1] \in Neighbors[p[2]]
    BY PairOf
<1>5. /\ sent' = [sent EXCEPT ![p] = RemoveAt(@, i)]
      /\ posted' = [posted EXCEPT ![p] = RemoveAt(@, j)]
      /\ recvBuffer' = [recvBuffer EXCEPT ![p[2]][vec][p[1]] = val]
    BY DEF Deliver
<1>6. /\ sent'[p] = RemoveAt(sent[p], i) /\ posted'[p] = RemoveAt(posted[p], j)
      /\ a2[p] = RemoveAt(a[p], i) /\ b2[p] = RemoveAt(b[p], j)
      /\ \A q \in Pairs : q # p => /\ sent'[q] = sent[q] /\ posted'[q] = posted[q]
                                   /\ a2[q] = a[q] /\ b2[q] = b[q]
    BY <1>5 DEF NetTypeOK
<1>7. /\ in_transfer' = in_transfer /\ sendBuffer' = sendBuffer
      /\ entered' = entered /\ left' = left
    BY DEF Deliver, local, history
<1> HIDE DEF a2, b2, vec, val
<1>8. \A s \in Ranks : recvBuffer[s] \in [Vectors -> [Neighbors[s] -> Nat]]
    BY DEF NetTypeOK
<1>9. recvBuffer'[p[2]][vec][p[1]] = val
    BY <1>3, <1>4, <1>5, <1>8 DEF NetTypeOK
<1>10. ASSUME NEW s \in Ranks, NEW u \in Vectors, NEW n \in Neighbors[s],
              ~(s = p[2] /\ u = vec /\ n = p[1])
       PROVE  recvBuffer'[s][u][n] = recvBuffer[s][u][n]
  <2>1. CASE s # p[2]
      BY <1>5, <2>1 DEF NetTypeOK
  <2>2. CASE s = p[2] /\ u # vec
      BY <1>4, <1>5, <1>8, <2>2 DEF NetTypeOK
  <2>3. CASE s = p[2] /\ u = vec /\ n # p[1]
      BY <1>4, <1>5, <1>8, <2>3 DEF NetTypeOK
  <2>4. QED BY <1>10, <2>1, <2>2, <2>3
<1>11. NetTypeOK'
  <2>1. sent' \in [Pairs -> Seq(Message)] /\ posted' \in [Pairs -> Seq(Receive)]
    <3>1. RemoveAt(sent[p], i) \in Seq(Message) /\ RemoveAt(posted[p], j) \in Seq(Receive)
        BY <1>1, Removed
    <3>2. QED BY <1>5, <3>1 DEF NetTypeOK
  <2>2. DOMAIN recvBuffer' = Ranks
      BY <1>5 DEF NetTypeOK
  <2>3. ASSUME NEW s \in Ranks
        PROVE  recvBuffer'[s] \in [Vectors -> [Neighbors[s] -> Nat]]
    <3>1. CASE s = p[2]
        BY <1>3, <1>4, <1>5, <1>8, <3>1 DEF NetTypeOK
    <3>2. CASE s # p[2]
        BY <1>4, <1>5, <1>8, <3>2 DEF NetTypeOK
    <3>3. QED BY <3>1, <3>2
  <2>4. QED BY <1>7, <2>1, <2>2, <2>3 DEF NetTypeOK
<1>12. ASSUME NEW q \in Pairs
       PROVE  QueueOK(sent[q], posted[q], q[1], T, N[q[1]], N[q[2]], a[q], b[q])
    BY DEF Net, Queues
<1>13. a[p][i] = b[p][j]
  <2>1. PICK ns \in Nat, nd \in Nat : ns = N[p[1]] /\ nd = N[p[2]]
      BY <1>4 DEF Net, Counted
  <2>0. PICK s, sx, rx : s = p[1] /\ sx = a[p] /\ rx = b[p]
      OBVIOUS
  <2>2. PICK ms \in Seq(Message), rs \in Seq(Receive) :
          /\ ms = sent[p] /\ rs = posted[p]
          /\ s = p[1] /\ sx = a[p] /\ rx = b[p]
      BY <1>1, <2>0
  <2>3. PICK k \in 1..Len(ms), l \in 1..Len(rs) : k = i /\ l = j
      BY <1>1, <2>2
  <2>4. QueueOK(ms, rs, s, T, ns, nd, sx, rx)
      BY <1>12, <2>1, <2>2
  <2>5. ns <= Len(T) /\ nd <= Len(T) /\ Len(T) \in Nat
      BY <1>4, <2>1 DEF Net, Counted, Listed
  <2>6. Matching(ms, rs, k, l)
      BY <2>2, <2>3 DEF Deliver, Matching
  <2>7. sx[k] = rx[l]
      BY <2>4, <2>5, <2>6, QueueMatch
  <2>8. QED BY <2>2, <2>3, <2>7
<1>14. Queues(T, N, a2, b2)'
  <2>1. ASSUME NEW q \in Pairs
        PROVE  QueueOK(sent'[q], posted'[q], q[1], T, N[q[1]], N[q[2]], a2[q], b2[q])
    <3>1. CASE q = p
      <4>1. N[p[1]] \in Nat /\ N[p[2]] \in Nat /\ Len(T) \in Nat
          BY <1>4 DEF Net, Counted, Listed
      <4>2. QueueOK(RemoveAt(sent[p], i), RemoveAt(posted[p], j), p[1], T,
                    N[p[1]], N[p[2]], RemoveAt(a[p], i), RemoveAt(b[p], j))
          BY <1>1, <1>12, <1>13, <4>1, QueueDeliver
      <4>3. QED BY <1>6, <3>1, <4>2
    <3>2. CASE q # p
        BY <1>6, <1>12, <3>2
    <3>3. QED BY <3>1, <3>2
  <2>2. QED BY <2>1 DEF Queues
<1>15. Buffered'
  <2>1. ASSUME NEW q \in Pairs, NEW k \in 1..Len(sent'[q]), ~sent'[q][k].copied
        PROVE  /\ in_transfer[q[1]][sent'[q][k].vec] = "BOTH"
               /\ sendBuffer[q[1]][sent'[q][k].vec] = sent'[q][k].val
    <3>1. \E l \in 1..Len(sent[q]) : sent'[q][k] = sent[q][l]
      <4>1. CASE q = p
        <5>1. /\ Len(sent'[p]) = Len(sent[p]) - 1
              /\ \A l \in 1..Len(sent[p]) - 1 :
                   sent'[p][l] = IF l < i THEN sent[p][l] ELSE sent[p][l + 1]
          <6>1. /\ Len(RemoveAt(sent[p], i)) = Len(sent[p]) - 1
                /\ \A l \in 1..Len(sent[p]) - 1 : RemoveAt(sent[p], i)[l] =
                     IF l < i THEN sent[p][l] ELSE sent[p][l + 1]
              BY <1>1, Removed
          <6>2. QED BY <1>6, <6>1
        <5>2. k \in 1..Len(sent[p]) - 1 /\ k \in 1..Len(sent[p]) /\ k + 1 \in 1..Len(sent[p])
            BY <1>1, <4>1, <5>1
        <5>3. QED BY <4>1, <5>1, <5>2
      <4>2. CASE q # p
          BY <1>6, <4>2
      <4>3. QED BY <4>1, <4>2
    <3>2. QED BY <2>1, <3>1 DEF Net, Buffered, Open
  <2>2. QED BY <1>7, <2>1 DEF Buffered, Open
<1>16. /\ Len(posted'[p]) = Len(posted[p]) - 1
       /\ \A k \in 1..Len(posted[p]) - 1 :
            posted'[p][k] = IF k < j THEN posted[p][k] ELSE posted[p][k + 1]
  <2>1. /\ Len(RemoveAt(posted[p], j)) = Len(posted[p]) - 1
        /\ \A k \in 1..Len(posted[p]) - 1 : RemoveAt(posted[p], j)[k] =
             IF k < j THEN posted[p][k] ELSE posted[p][k + 1]
      BY <1>1, Removed
  <2>2. QED BY <1>6, <2>1
<1>17. Expected(T, b2)'
  <2>1. ASSUME NEW q \in Pairs, NEW k \in 1..Len(posted'[q])
        PROVE  /\ in_transfer[q[2]][posted'[q][k].vec] = "BOTH"
               /\ T[b2[q][k]].val = sendBuffer[q[2]][posted'[q][k].vec]
    <3>1. \E l \in 1..Len(posted[q]) : posted'[q][k] = posted[q][l] /\ b2[q][k] = b[q][l]
      <4>1. CASE q = p
        <5>1. b[p] \in Seq(Nat) /\ Len(b[p]) = Len(posted[p])
            BY <1>12 DEF QueueOK, Receives
        <5>2. \A l \in 1..Len(posted[p]) - 1 :
                b2[p][l] = IF l < j THEN b[p][l] ELSE b[p][l + 1]
          <6>1. \A l \in 1..Len(b[p]) - 1 : RemoveAt(b[p], j)[l] =
                  IF l < j THEN b[p][l] ELSE b[p][l + 1]
            <7>1. j \in 1..Len(b[p])
                BY <1>1, <5>1
            <7>2. QED BY <5>1, <7>1, Removed
          <6>2. QED BY <1>6, <5>1, <6>1
        <5>3. k \in 1..Len(posted[p]) - 1 /\ k \in 1..Len(posted[p])
              /\ k + 1 \in 1..Len(posted[p])
            BY <1>1, <1>16, <4>1
        <5>4. CASE k < j
            BY <1>16, <4>1, <5>2, <5>3, <5>4
        <5>5. CASE ~(k < j)
            BY <1>16, <4>1, <5>2, <5>3, <5>5
        <5>6. QED BY <5>4, <5>5
      <4>2. CASE q # p
          BY <1>6, <4>2
      <4>3. QED BY <4>1, <4>2
    <3>2. QED BY <3>1 DEF Net, Expected, Open
  <2>2. QED BY <1>7, <2>1 DEF Expected, Open
<1>18. Received'
  <2>1. ASSUME NEW q \in Pairs, NEW u \in Vectors, in_transfer[q[2]][u] = "BOTH",
               \A k \in 1..Len(posted'[q]) : posted'[q][k].vec # u
        PROVE  recvBuffer'[q[2]][u][q[1]] = sendBuffer[q[2]][u]
    <3>1. q[1] \in Ranks /\ q[2] \in Ranks /\ q[1] \in Neighbors[q[2]]
        BY PairOf
    <3>2. CASE q = p /\ u = vec
      <4>1. T[a[p][i]].val = sent[p][i].val
          BY <1>1, <1>12 DEF QueueOK, Sends
      <4>2. T[b[p][j]].val = sendBuffer[p[2]][vec]
          BY <1>1 DEF Net, Expected, vec
      <4>3. QED BY <1>3, <1>9, <1>13, <3>2, <4>1, <4>2
    <3>3. CASE ~(q = p /\ u = vec)
      <4>1. \A k \in 1..Len(posted[q]) : posted[q][k].vec # u
        <5>1. CASE q = p
          <6>1. ASSUME NEW k \in 1..Len(posted[p]), k < j
                PROVE  posted[p][k].vec # u
            <7>1. k \in 1..Len(posted[p]) - 1 /\ posted'[p][k] = posted[p][k]
                BY <1>1, <1>16, <6>1
            <7>2. QED BY <1>16, <2>1, <5>1, <7>1
          <6>2. ASSUME NEW k \in 1..Len(posted[p]), k > j
                PROVE  posted[p][k].vec # u
            <7>1. k - 1 \in 1..Len(posted[p]) - 1 /\ ~(k - 1 < j) /\ k - 1 + 1 = k
                BY <1>1, <6>2
            <7>2. posted'[p][k - 1] = posted[p][k]
                BY <1>16, <7>1
            <7>3. QED BY <1>16, <2>1, <5>1, <7>1, <7>2
          <6>3. posted[p][j].vec # u
              BY <3>3, <5>1 DEF vec
          <6>4. QED BY <1>1, <5>1, <6>1, <6>2, <6>3
        <5>2. CASE q # p
            BY <1>6, <2>1, <5>2
        <5>3. QED BY <5>1, <5>2
      <4>2. recvBuffer[q[2]][u][q[1]] = sendBuffer[q[2]][u]
          BY <2>1, <4>1 DEF Net, Received, Open
      <4>3. ~(q[2] = p[2] /\ u = vec /\ q[1] = p[1])
        <5>1. q = <<q[1], q[2]>> /\ p = <<p[1], p[2]>>
            BY DEF Pairs
        <5>2. QED BY <3>3, <5>1
      <4>4. QED BY <1>10, <3>1, <4>2, <4>3
    <3>4. QED BY <3>2, <3>3
  <2>2. QED BY <1>7, <2>1 DEF Received, Open
<1>19. Counted(T, E, N)' /\ LastOpen(T, E, N)'
    BY <1>7 DEF Net, Counted, LastOpen, Open
<1>20. Net(T, E, N, a2, b2)'
    BY <1>11, <1>14, <1>15, <1>17, <1>18, <1>19 DEF Net
<1>21. QED BY <1>11, <1>14, <1>15, <1>17, <1>18, <1>19, <1>20

-----------------------------------------------------------------------------
(* Steps that leave the network alone, and programs that go on. *)

LEMMA NetSame ==
    ASSUME UNCHANGED <<network, history, in_transfer>>, NetTypeOK,
           NEW T, NEW E, NEW N, NEW a, NEW b, Net(T, E, N, a, b)
    PROVE  /\ NetTypeOK' /\ Net(T, E, N, a, b)'
           /\ \A r : OpenSet(r)' = OpenSet(r)
<1>1. /\ in_transfer' = in_transfer /\ sendBuffer' = sendBuffer /\ posted' = posted
      /\ recvBuffer' = recvBuffer /\ entered' = entered /\ left' = left
      /\ sent' = sent
    BY DEF network, history
<1>2. NetTypeOK'
    BY <1>1 DEF NetTypeOK
<1>3. Counted(T, E, N)' /\ Queues(T, N, a, b)' /\ LastOpen(T, E, N)'
    BY <1>1 DEF Net, Counted, Queues, LastOpen, Open
<1>4. Buffered' /\ Expected(T, b)' /\ Received'
    BY <1>1 DEF Net, Buffered, Expected, Received, Open
<1>5. \A r : OpenSet(r)' = OpenSet(r)
    BY <1>1 DEF OpenSet, Open
<1>6. QED BY <1>2, <1>3, <1>4, <1>5 DEF Net

LEMMA NetLonger ==
    ASSUME NetTypeOK, NEW T, NEW E, NEW N, NEW a, NEW b,
           Listed(T, E), Net(T, E, N, a, b),
           NEW T2, NEW E2, Listed(T2, E2), Longer(T, T2),
           \A i \in 0..Len(T) : E2[i] = E[i]
    PROVE  Net(T2, E2, N, a, b)
<1>1. /\ Len(T) \in Nat /\ Len(T2) \in Nat /\ Len(T) <= Len(T2)
      /\ \A i \in 1..Len(T) : T2[i] = T[i]
    BY DEF Listed, Longer
<1>2. N \in [Ranks -> Nat] /\ \A r \in Ranks : N[r] <= Len(T) /\ entered[r] = E[N[r]]
    BY DEF Net, Counted
<1>3. Counted(T2, E2, N)
  <2>1. ASSUME NEW r \in Ranks
        PROVE  N[r] <= Len(T2) /\ entered[r] = E2[N[r]]
    <3>1. N[r] \in 0..Len(T)
        BY <1>1, <1>2
    <3>2. QED BY <1>1, <1>2, <3>1
  <2>2. QED BY <2>1 DEF Net, Counted
<1>4. ASSUME NEW p \in Pairs
      PROVE  QueueOK(sent[p], posted[p], p[1], T2, N[p[1]], N[p[2]], a[p], b[p])
  <2>1. sent[p] \in Seq(Message) /\ posted[p] \in Seq(Receive)
      BY DEF NetTypeOK
  <2>2. N[p[1]] \in Nat /\ N[p[2]] \in Nat /\ N[p[1]] <= Len(T) /\ N[p[2]] <= Len(T)
      BY <1>2, PairOf
  <2>3. QueueOK(sent[p], posted[p], p[1], T, N[p[1]], N[p[2]], a[p], b[p])
      BY DEF Net, Queues
  <2>4. QED BY <1>1, <2>1, <2>2, <2>3, QueueLonger
<1>5. LastOpen(T2, E2, N)
  <2>1. ASSUME NEW r \in Ranks, NEW v \in Vectors, Open(r, v)
        PROVE  \E i \in 1..N[r] : /\ T2[i].vec = v /\ E2[i][v] = entered[r][v]
                                  /\ T2[i].val = sendBuffer[r][v]
    <3>1. PICK i \in 1..N[r] : /\ T[i].vec = v /\ E[i][v] = entered[r][v]
                               /\ T[i].val = sendBuffer[r][v]
        BY <2>1 DEF Net, LastOpen
    <3>2. i \in 1..Len(T) /\ i \in 0..Len(T)
        BY <1>1, <1>2
    <3>3. QED BY <1>1, <3>1, <3>2
  <2>2. QED BY <2>1 DEF LastOpen
<1>6. Expected(T2, b)
  <2>1. ASSUME NEW p \in Pairs, NEW k \in 1..Len(posted[p])
        PROVE  T2[b[p][k]] = T[b[p][k]]
    <3>1. b[p][k] \in 1..N[p[2]]
        BY DEF Net, Queues, QueueOK, Receives
    <3>2. b[p][k] \in 1..Len(T)
        BY <1>1, <1>2, <3>1, PairOf
    <3>3. QED BY <1>1, <3>2
  <2>2. QED BY <2>1 DEF Net, Expected
<1>7. QED BY <1>3, <1>4, <1>5, <1>6 DEF Net, Queues

-----------------------------------------------------------------------------
(* Short lists of calls. *)

LEMMA Concatenated ==
    ASSUME NEW S, NEW s \in Seq(S), NEW t \in Seq(S)
    PROVE  /\ s \o t \in Seq(S) /\ Len(s \o t) = Len(s) + Len(t)
           /\ \A i \in 1..Len(s) + Len(t) :
                (s \o t)[i] = IF i <= Len(s) THEN s[i] ELSE t[i - Len(s)]
    OBVIOUS

LEMMA ListOf2 == ASSUME NEW S, NEW s \in Seq(S), Len(s) = 2 PROVE s = <<s[1], s[2]>>
    OBVIOUS
LEMMA ListOf3 ==
    ASSUME NEW S, NEW s \in Seq(S), Len(s) = 3 PROVE s = <<s[1], s[2], s[3]>>
    OBVIOUS
LEMMA ListOf5 ==
    ASSUME NEW S, NEW s \in Seq(S), Len(s) = 5
    PROVE  s = <<s[1], s[2], s[3], s[4], s[5]>>
    OBVIOUS

LEMMA Tails ==
    ASSUME NEW a, NEW b, NEW c, NEW d, NEW e
    PROVE  /\ Head(<<a>>) = a /\ Tail(<<a>>) = << >>
           /\ Head(<<a, b>>) = a /\ Tail(<<a, b>>) = <<b>>
           /\ Head(<<a, b, c>>) = a /\ Tail(<<a, b, c>>) = <<b, c>>
           /\ Head(<<a, b, c, d>>) = a /\ Tail(<<a, b, c, d>>) = <<b, c, d>>
           /\ Head(<<a, b, c, d, e>>) = a /\ Tail(<<a, b, c, d, e>>) = <<b, c, d, e>>
    OBVIOUS

LEMMA NoCalls ==
    ASSUME NEW a, NEW b, NEW c, NEW d
    PROVE  /\ << >> \o << >> = << >> /\ << >> \o <<a>> = <<a>>
           /\ << >> \o <<a, b>> = <<a, b>> /\ << >> \o <<a, b, c>> = <<a, b, c>>
           /\ << >> \o <<a, b, c, d>> = <<a, b, c, d>>
    OBVIOUS

LEMMA OneCall ==
    ASSUME NEW a, NEW b, NEW c
    PROVE  <<a>> \o <<b>> = <<a, b>> /\ <<a>> \o <<b, c>> = <<a, b, c>>
<1> DEFINE S == {a, b, c}
           s == <<a>>
           t == <<b>>
           u == <<b, c>>
<1>1. /\ s \in Seq(S) /\ Len(s) = 1 /\ s[1] = a
      /\ t \in Seq(S) /\ Len(t) = 1 /\ t[1] = b
      /\ u \in Seq(S) /\ Len(u) = 2 /\ u[1] = b /\ u[2] = c
    OBVIOUS
<1> HIDE DEF S, s, t, u
<1> DEFINE st == s \o t
           su == s \o u
<1>2. st \in Seq(S) /\ Len(st) = 2 /\ st[1] = a /\ st[2] = b
  <2>1. /\ st \in Seq(S) /\ Len(st) = Len(s) + Len(t)
        /\ \A i \in 1..Len(s) + Len(t) : st[i] = IF i <= Len(s) THEN s[i] ELSE t[i - Len(s)]
      BY <1>1, Concatenated
  <2> HIDE DEF st
  <2>2. QED BY <1>1, <2>1
<1>3. su \in Seq(S) /\ Len(su) = 3 /\ su[1] = a /\ su[2] = b /\ su[3] = c
    BY <1>1, Concatenated
<1> HIDE DEF st, su
<1>4. st = <<st[1], st[2]>> /\ su = <<su[1], su[2], su[3]>>
    BY <1>2, <1>3, ListOf2, ListOf3
<1>5. st = <<a, b>> /\ su = <<a, b, c>>
    BY <1>2, <1>3, <1>4
<1>6. QED BY <1>5 DEF st, su, s, t, u

LEMMA TwoCalls ==
    ASSUME NEW a, NEW b, NEW c, NEW d, NEW e
    PROVE  <<a, b>> \o <<c, d, e>> = <<a, b, c, d, e>>
<1> DEFINE S == {a, b, c, d, e}
           s == <<a, b>>
           t == <<c, d, e>>
<1>1. /\ s \in Seq(S) /\ Len(s) = 2 /\ s[1] = a /\ s[2] = b
      /\ t \in Seq(S) /\ Len(t) = 3 /\ t[1] = c /\ t[2] = d /\ t[3] = e
    OBVIOUS
<1> HIDE DEF S, s, t
<1> DEFINE u == s \o t
<1>2. /\ u \in Seq(S) /\ Len(u) = 5
      /\ \A i \in 1..5 : u[i] = IF i <= 2 THEN s[i] ELSE t[i - 2]
  <2>1. /\ u \in Seq(S) /\ Len(u) = Len(s) + Len(t)
        /\ \A i \in 1..Len(s) + Len(t) : u[i] = IF i <= Len(s) THEN s[i] ELSE t[i - Len(s)]
      BY <1>1, Concatenated
  <2> HIDE DEF u
  <2>2. QED BY <1>1, <2>1
<1> HIDE DEF u
<1>3. u[1] = s[1] /\ u[2] = s[2]
    BY <1>2
<1>4. u[3] = t[1] /\ u[4] = t[2] /\ u[5] = t[3]
    BY <1>2
<1>5. u = <<u[1], u[2], u[3], u[4], u[5]>>
    BY <1>2, ListOf5
<1>6. u = <<a, b, c, d, e>>
    BY <1>1, <1>3, <1>4, <1>5
<1>7. QED BY <1>6 DEF u, s, t

-----------------------------------------------------------------------------
(* What is left of an operation: the calls c, for a rank r with open       *)
(* transfers O, dirty halos D and versions W.  The rank will begin the     *)
(* transfers q, and will have dirty halos D1 and versions W1 in the end.   *)

Raise(W, v) == [W EXCEPT ![v] = @ + 1]

\* The exchange of a vector, if it is dirty.
IfDirty(D, t) == IF t.vec \in D THEN <<t>> ELSE << >>

\* The end of a smoother, on every rank: x has been updated, b exchanged.
Smoothed(D, W, x, b, D1, W1) == D1 = (D \ {b}) \cup {x} /\ W1 = Raise(W, x)

AtEnd(c, O, D, W, q, D1, W1) ==
    c = << >> /\ O = {} /\ q = << >> /\ D1 = D /\ W1 = W

AtWrite(c, O, D, W, q, D1, W1) ==
    \E v \in Vectors :
        /\ c = << <<"write", v>> >> /\ O = {} /\ q = << >>
        /\ D1 = D \cup {v} /\ W1 = Raise(W, v)

AtRead(c, O, D, W, q, D1, W1) ==
    /\ O = {} /\ q = << >>
    /\ \E v, b \in Vectors :
         /\ v \notin D
         /\ \/ c = << <<"read", v>> >> /\ D1 = D /\ W1 = W
            \/ /\ c = << <<"read", v>>, <<"write", b>> >>
               /\ D1 = D \cup {b} /\ W1 = Raise(W, b)
            \/ /\ c = << <<"read", v>>, <<"read", b>>, <<"write", v>> >>
               /\ b \notin D /\ D1 = D \cup {v} /\ W1 = Raise(W, v)

AtExchange(c, O, D, W, q, D1, W1) ==
    \E v \in Vectors :
        /\ c = << <<"exchange", v>>, <<"read", v>> >> /\ O = {}
        /\ q = IfDirty(D, Tr(v, "rank", W[v])) /\ D1 = D \ {v} /\ W1 = W

AtRing2(c, O, D, W, q, D1, W1) ==
    \E v \in Vectors :
        /\ c = << <<"ring2", v>>, <<"read", v>> >> /\ O = {}
        /\ q = <<Tr(v, "rank", W[v])>> /\ D1 = D \ {v} /\ W1 = W

\* A product exchanges by tag when latency is hidden.
ProductKind == IF BigRanks = {} THEN "rank" ELSE "tag"

AtProduct(c, O, D, W, q, D1, W1) ==
    \E v, b \in Vectors :
        /\ v # b /\ c = << <<"spmv", v>>, <<"read", v>>, <<"write", b>> >> /\ O = {}
        /\ q = IfDirty(D, Tr(v, ProductKind, W[v]))
        /\ D1 = (D \ {v}) \cup {b} /\ W1 = Raise(W, b)

AtFold(c, O, D, W, q, D1, W1) ==
    \E v \in Vectors :
        /\ c = << <<"fold", v>>, <<"dirty", v>> >> /\ O = {}
        /\ q = <<Tr(v, "rank", W[v] + 1)>> /\ D1 = D \cup {v} /\ W1 = Raise(W, v)

AtScatter(c, O, D, W, q, D1, W1) ==
    \E v \in Vectors :
        /\ c = << <<"scatter", v>>, <<"dirty", v>> >> /\ O = {v}
        /\ q = << >> /\ D1 = D \cup {v} /\ W1 = Raise(W, v)

AtDirty(c, O, D, W, q, D1, W1) ==
    \E v \in Vectors :
        /\ c = << <<"dirty", v>> >> /\ O = {} /\ q = << >>
        /\ D1 = D \cup {v} /\ W1 = W

AtZero(c, O, D, W, q, D1, W1) ==
    \E x, b \in Vectors :
        /\ x # b
        /\ c = << <<"zero", x>>, <<"async", x>>, <<"async", b>>, <<"branch", <<x, b>> >> >>
        /\ O = {} /\ q = IfDirty(D, Tr(b, "tag", W[b]))
        /\ Smoothed(D, Raise(W, x), x, b, D1, W1)

\* A transfer begun by a rank that is big enough stays open for a while.
AtAsync1(c, O, D, W, q, D1, W1) ==
    \E x, b \in Vectors :
        /\ x # b /\ c = << <<"async", x>>, <<"async", b>>, <<"branch", <<x, b>> >> >>
        /\ O = {}
        /\ q = IfDirty(D, Tr(x, "tag", W[x])) \o IfDirty(D, Tr(b, "tag", W[b]))
        /\ Smoothed(D, W, x, b, D1, W1)

AtAsync2(c, O, D, W, q, D1, W1, r) ==
    \E x, b \in Vectors :
        /\ x # b /\ c = << <<"async", b>>, <<"branch", <<x, b>> >> >>
        /\ O = D \cap {x} /\ (r \notin BigRanks => O = {})
        /\ q = IfDirty(D, Tr(b, "tag", W[b])) /\ Smoothed(D, W, x, b, D1, W1)

AtBranch(c, O, D, W, q, D1, W1, r) ==
    \E x, b \in Vectors :
        /\ x # b /\ c = << <<"branch", <<x, b>> >> >>
        /\ O = D \cap {x, b} /\ (r \notin BigRanks => O = {})
        /\ q = << >> /\ Smoothed(D, W, x, b, D1, W1)

AtWait(c, O, D, W, q, D1, W1, r) ==
    \E x, b \in Vectors :
        /\ x # b
        /\ \/ c = << <<"wait", x>>, <<"wait", b>>, <<"read", x>>, <<"read", b>>,
                     <<"write", x>> >>
           \/ /\ c = << <<"wait", b>>, <<"read", x>>, <<"read", b>>, <<"write", x>> >>
              /\ x \notin D
        /\ O = D \cap {x, b} /\ (r \notin BigRanks => O = {})
        /\ q = << >> /\ Smoothed(D, W, x, b, D1, W1)

AtFinish(c, O, D, W, q, D1, W1, r) ==
    \E v, b \in Vectors :
        /\ O = {v}
        /\ \/ /\ c = << <<"finish", v>>, <<"read", v>> >> /\ q = << >>
              /\ D1 = D \ {v} /\ W1 = W
           \/ /\ v # b /\ c = << <<"finish", v>>, <<"read", v>>, <<"write", b>> >>
              /\ q = << >> /\ D1 = (D \ {v}) \cup {b} /\ W1 = Raise(W, b)
           \/ /\ v # b /\ r \notin BigRanks
              /\ c = << <<"finish", v>>, <<"async", b>>, <<"branch", <<v, b>> >> >>
              /\ q = IfDirty(D, Tr(b, "tag", W[b])) /\ Smoothed(D, W, v, b, D1, W1)
           \/ /\ v # b /\ r \notin BigRanks /\ b \notin D
              /\ c = << <<"finish", v>>, <<"branch", <<b, v>> >> >>
              /\ q = << >> /\ Smoothed(D, W, b, v, D1, W1)

\* Outside of the second half of a fold, dirty bits and send buffers are what
\* they seem.
Calm(c, O, D, W, q, D1, W1, r) ==
    \/ AtEnd(c, O, D, W, q, D1, W1)      \/ AtWrite(c, O, D, W, q, D1, W1)
    \/ AtRead(c, O, D, W, q, D1, W1)     \/ AtExchange(c, O, D, W, q, D1, W1)
    \/ AtRing2(c, O, D, W, q, D1, W1)    \/ AtProduct(c, O, D, W, q, D1, W1)
    \/ AtFold(c, O, D, W, q, D1, W1)     \/ AtZero(c, O, D, W, q, D1, W1)
    \/ AtAsync1(c, O, D, W, q, D1, W1)   \/ AtAsync2(c, O, D, W, q, D1, W1, r)
    \/ AtBranch(c, O, D, W, q, D1, W1, r)
    \/ AtWait(c, O, D, W, q, D1, W1, r)  \/ AtFinish(c, O, D, W, q, D1, W1, r)

Stage(c, O, D, W, q, D1, W1, r) ==
    \/ Calm(c, O, D, W, q, D1, W1, r)
    \/ AtScatter(c, O, D, W, q, D1, W1)  \/ AtDirty(c, O, D, W, q, D1, W1)

\* What the rank does next tells what is left.
LEMMA StageHead ==
    ASSUME NEW c, NEW O, NEW D, NEW W, NEW q, NEW D1, NEW W1, NEW r,
           Stage(c, O, D, W, q, D1, W1, r), NEW fn, NEW v
    PROVE  /\ c = << >> => AtEnd(c, O, D, W, q, D1, W1)
           /\ c # << >> /\ Head(c) = <<fn, v>> =>
                /\ fn = "write" => AtWrite(c, O, D, W, q, D1, W1)
                /\ fn = "read" => AtRead(c, O, D, W, q, D1, W1)
                /\ fn = "exchange" => AtExchange(c, O, D, W, q, D1, W1)
                /\ fn = "ring2" => AtRing2(c, O, D, W, q, D1, W1)
                /\ fn = "spmv" => AtProduct(c, O, D, W, q, D1, W1)
                /\ fn = "fold" => AtFold(c, O, D, W, q, D1, W1)
                /\ fn = "scatter" => AtScatter(c, O, D, W, q, D1, W1)
                /\ fn = "dirty" => AtDirty(c, O, D, W, q, D1, W1)
                /\ fn = "zero" => AtZero(c, O, D, W, q, D1, W1)
                /\ fn = "async" => AtAsync1(c, O, D, W, q, D1, W1) \/ AtAsync2(c, O, D, W, q, D1, W1, r)
                /\ fn = "branch" => AtBranch(c, O, D, W, q, D1, W1, r)
                /\ fn = "wait" => AtWait(c, O, D, W, q, D1, W1, r)
                /\ fn = "finish" => AtFinish(c, O, D, W, q, D1, W1, r)
<1>1. AtWrite(c, O, D, W, q, D1, W1) => c # << >> /\ Head(c)[1] = "write"
    BY Tails DEF AtWrite
<1>2. AtRead(c, O, D, W, q, D1, W1) => c # << >> /\ Head(c)[1] = "read"
    BY Tails DEF AtRead
<1>3. AtExchange(c, O, D, W, q, D1, W1) => c # << >> /\ Head(c)[1] = "exchange"
    BY Tails DEF AtExchange
<1>4. AtRing2(c, O, D, W, q, D1, W1) => c # << >> /\ Head(c)[1] = "ring2"
    BY Tails DEF AtRing2
<1>5. AtProduct(c, O, D, W, q, D1, W1) => c # << >> /\ Head(c)[1] = "spmv"
    BY Tails DEF AtProduct
<1>6. AtFold(c, O, D, W, q, D1, W1) => c # << >> /\ Head(c)[1] = "fold"
    BY Tails DEF AtFold
<1>7. AtScatter(c, O, D, W, q, D1, W1) => c # << >> /\ Head(c)[1] = "scatter"
    BY Tails DEF AtScatter
<1>8. AtDirty(c, O, D, W, q, D1, W1) => c # << >> /\ Head(c)[1] = "dirty"
    BY Tails DEF AtDirty
<1>9. AtZero(c, O, D, W, q, D1, W1) => c # << >> /\ Head(c)[1] = "zero"
    BY Tails DEF AtZero
<1>10. AtAsync1(c, O, D, W, q, D1, W1) => c # << >> /\ Head(c)[1] = "async"
    BY Tails DEF AtAsync1
<1>11. AtAsync2(c, O, D, W, q, D1, W1, r) => c # << >> /\ Head(c)[1] = "async"
    BY Tails DEF AtAsync2
<1>12. AtBranch(c, O, D, W, q, D1, W1, r) => c # << >> /\ Head(c)[1] = "branch"
    BY Tails DEF AtBranch
<1>13. AtWait(c, O, D, W, q, D1, W1, r) => c # << >> /\ Head(c)[1] = "wait"
    BY Tails DEF AtWait
<1>14. AtFinish(c, O, D, W, q, D1, W1, r) => c # << >> /\ Head(c)[1] = "finish"
    BY Tails DEF AtFinish
<1>15. AtEnd(c, O, D, W, q, D1, W1) => c = << >>
    BY DEF AtEnd
<1>16. Head(c) = <<fn, v>> => Head(c)[1] = fn
    OBVIOUS
<1>17. QED BY <1>1, <1>2, <1>3, <1>4, <1>5, <1>6, <1>7, <1>8, <1>9, <1>10, <1>11, <1>12, <1>13, <1>14, <1>15, <1>16 DEF Stage, Calm

LEMMA AtMostOne ==
    ASSUME NEW S, NEW t \in S
    PROVE  /\ <<t>> \in Seq(S) /\ Len(<<t>>) = 1
           /\ \A q : q = <<t>> \/ q = << >> => q \in Seq(S) /\ Len(q) \in {0, 1}
<1>1. ASSUME NEW q, q = <<t>>
      PROVE  q \in Seq(S) /\ Len(q) \in {0, 1}
    BY <1>1
<1>2. ASSUME NEW q, q = << >>
      PROVE  q \in Seq(S) /\ Len(q) \in {0, 1}
    BY <1>2
<1>3. QED BY <1>1, <1>2

LEMMA TransferType ==
    ASSUME NEW v \in Vectors, NEW k \in {"rank", "tag"}, NEW n \in Nat, NEW D
    PROVE  /\ Tr(v, k, n) \in Transfer
           /\ <<Tr(v, k, n)>> \in Seq(Transfer) /\ Len(<<Tr(v, k, n)>>) = 1
           /\ IfDirty(D, Tr(v, k, n)) \in Seq(Transfer)
           /\ Len(IfDirty(D, Tr(v, k, n))) \in {0, 1}
<1> DEFINE t == Tr(v, k, n)
<1>1. t \in Transfer
    BY DEF Tr, Transfer
<1>2. IfDirty(D, t) = <<t>> \/ IfDirty(D, t) = << >>
    BY DEF IfDirty
<1> HIDE DEF t
<1>3. QED BY <1>1, <1>2, AtMostOne DEF t

\* The calls one by one: those that do not exchange anything ...
LEMMA WriteStage ==
    ASSUME NEW c, NEW O, NEW D, NEW W, NEW q, NEW D1, NEW W1, NEW r, NEW v \in Vectors,
           AtWrite(c, O, D, W, q, D1, W1), Head(c) = <<"write", v>>
    PROVE  /\ O = {}
           /\ Calm(<< >> \o Tail(c), O, D \cup {v}, Raise(W, v), q, D1, W1, r)
<1>1. /\ c = << <<"write", v>> >> /\ O = {} /\ q = << >>
      /\ D1 = D \cup {v} /\ W1 = Raise(W, v)
    BY Tails DEF AtWrite
<1>2. << >> \o Tail(c) = << >>
    BY <1>1, Tails, NoCalls
<1>3. AtEnd(<< >>, O, D \cup {v}, Raise(W, v), q, D1, W1)
    BY <1>1 DEF AtEnd
<1>4. QED BY <1>1, <1>2, <1>3 DEF Calm

LEMMA ReadStage ==
    ASSUME NEW c, NEW O, NEW D, NEW W, NEW q, NEW D1, NEW W1, NEW r, NEW v \in Vectors,
           AtRead(c, O, D, W, q, D1, W1), Head(c) = <<"read", v>>
    PROVE  O = {} /\ v \notin D /\ Calm(<< >> \o Tail(c), O, D, W, q, D1, W1, r)
<1>1. O = {} /\ q = << >>
    BY DEF AtRead
<1>2. PICK u \in Vectors, b \in Vectors :
         /\ u \notin D
         /\ \/ c = << <<"read", u>> >> /\ D1 = D /\ W1 = W
            \/ /\ c = << <<"read", u>>, <<"write", b>> >>
               /\ D1 = D \cup {b} /\ W1 = Raise(W, b)
            \/ /\ c = << <<"read", u>>, <<"read", b>>, <<"write", u>> >>
               /\ b \notin D /\ D1 = D \cup {u} /\ W1 = Raise(W, u)
    BY DEF AtRead
<1>3. Head(c) = <<"read", u>>
    BY <1>2, Tails
<1>4. u = v
    BY <1>3
<1>5. CASE c = << <<"read", v>> >> /\ D1 = D /\ W1 = W
  <2>1. << >> \o Tail(c) = << >>
      BY <1>5, Tails, NoCalls
  <2>2. AtEnd(<< >>, O, D, W, q, D1, W1)
      BY <1>1, <1>5 DEF AtEnd
  <2>3. QED BY <1>1, <1>2, <1>4, <2>1, <2>2 DEF Calm
<1>6. CASE /\ c = << <<"read", v>>, <<"write", b>> >>
           /\ D1 = D \cup {b} /\ W1 = Raise(W, b)
  <2>1. << >> \o Tail(c) = << <<"write", b>> >>
      BY <1>6, Tails, NoCalls
  <2>2. AtWrite(<< <<"write", b>> >>, O, D, W, q, D1, W1)
      BY <1>1, <1>6 DEF AtWrite
  <2>3. QED BY <1>1, <1>2, <1>4, <2>1, <2>2 DEF Calm
<1>7. CASE /\ c = << <<"read", v>>, <<"read", b>>, <<"write", v>> >>
           /\ b \notin D /\ D1 = D \cup {v} /\ W1 = Raise(W, v)
  <2>1. << >> \o Tail(c) = << <<"read", b>>, <<"write", v>> >>
      BY <1>7, Tails, NoCalls
  <2>2. AtRead(<< <<"read", b>>, <<"write", v>> >>, O, D, W, q, D1, W1)
      BY <1>1, <1>7 DEF AtRead
  <2>3. QED BY <1>1, <1>2, <1>4, <2>1, <2>2 DEF Calm
<1>8. QED BY <1>2, <1>4, <1>5, <1>6, <1>7

LEMMA DirtyStage ==
    ASSUME NEW c, NEW O, NEW D, NEW W, NEW q, NEW D1, NEW W1, NEW r, NEW v \in Vectors,
           AtDirty(c, O, D, W, q, D1, W1), Head(c) = <<"dirty", v>>
    PROVE  O = {} /\ Calm(<< >> \o Tail(c), O, D \cup {v}, W, q, D1, W1, r)
<1>1. /\ c = << <<"dirty", v>> >> /\ O = {} /\ q = << >>
      /\ D1 = D \cup {v} /\ W1 = W
    BY Tails DEF AtDirty
<1>2. << >> \o Tail(c) = << >>
    BY <1>1, Tails, NoCalls
<1>3. AtEnd(<< >>, O, D \cup {v}, W, q, D1, W1)
    BY <1>1 DEF AtEnd
<1>4. QED BY <1>1, <1>2, <1>3 DEF Calm

LEMMA ZeroStage ==
    ASSUME NEW c, NEW O, NEW D, NEW W, NEW q, NEW D1, NEW W1, NEW r, NEW v \in Vectors,
           W \in [Vectors -> Nat],
           AtZero(c, O, D, W, q, D1, W1), Head(c) = <<"zero", v>>
    PROVE  O = {} /\ Calm(<< >> \o Tail(c), O, D \ {v}, Raise(W, v), q, D1, W1, r)
<1>1. PICK x \in Vectors, b \in Vectors :
        /\ x # b
        /\ c = << <<"zero", x>>, <<"async", x>>, <<"async", b>>, <<"branch", <<x, b>> >> >>
        /\ O = {} /\ q = IfDirty(D, Tr(b, "tag", W[b]))
        /\ Smoothed(D, Raise(W, x), x, b, D1, W1)
    BY DEF AtZero
<1>2. Head(c) = <<"zero", x>>
    BY <1>1, Tails
<1>3. x = v
    BY <1>2
<1>4. << >> \o Tail(c) = << <<"async", v>>, <<"async", b>>, <<"branch", <<v, b>> >> >>
    BY <1>1, <1>3, Tails, NoCalls
<1> DEFINE D2 == D \ {v}
           W2 == Raise(W, v)
<1>5. v \notin D2 /\ (b \in D2 <=> b \in D) /\ W2[b] = W[b]
    BY <1>1, <1>3 DEF Raise
<1>6. (D2 \ {b}) \cup {v} = (D \ {b}) \cup {v}
    OBVIOUS
<1> HIDE DEF D2, W2
<1>7. IfDirty(D2, Tr(v, "tag", W2[v])) = << >>
    BY <1>5 DEF IfDirty, Tr
<1>8. /\ IfDirty(D2, Tr(b, "tag", W2[b])) = q
      /\ q = IF b \in D THEN <<Tr(b, "tag", W[b])>> ELSE << >>
    BY <1>1, <1>5 DEF IfDirty, Tr
<1>9. << >> \o q = q
    BY <1>8, NoCalls
<1>10. Smoothed(D2, W2, v, b, D1, W1)
    BY <1>1, <1>3, <1>6 DEF Smoothed, W2
<1>11. AtAsync1(<< >> \o Tail(c), O, D2, W2, q, D1, W1)
    BY <1>1, <1>3, <1>4, <1>7, <1>8, <1>9, <1>10 DEF AtAsync1
<1>12. QED BY <1>1, <1>11 DEF Calm, D2, W2

\* ... a smoother that looks at its vectors ...
LEMMA BranchStage ==
    ASSUME NEW c, NEW O, NEW D, NEW W, NEW q, NEW D1, NEW W1, NEW r,
           NEW x \in Vectors, NEW b \in Vectors,
           AtBranch(c, O, D, W, q, D1, W1, r), Head(c) = <<"branch", <<x, b>> >>
    PROVE  /\ x \notin D /\ b \notin D =>
                Calm((<< >> \o << <<"read", x>>, <<"read", b>>, <<"write", x>> >>)
                      \o Tail(c), O, D, W, q, D1, W1, r)
           /\ Calm((<< <<"wait", x>>, <<"wait", b>> >>
                     \o << <<"read", x>>, <<"read", b>>, <<"write", x>> >>)
                    \o Tail(c), O, D, W, q, D1, W1, r)
<1>1. /\ x # b /\ c = << <<"branch", <<x, b>> >> >>
      /\ O = D \cap {x, b} /\ (r \notin BigRanks => O = {})
      /\ q = << >> /\ Smoothed(D, W, x, b, D1, W1)
    BY Tails DEF AtBranch
<1>2. Tail(c) = << >>
    BY <1>1, Tails
<1> DEFINE K == << <<"read", x>>, <<"read", b>>, <<"write", x>> >>
           L == << <<"wait", x>>, <<"wait", b>>, <<"read", x>>, <<"read", b>>, <<"write", x>> >>
<1>3. (<< >> \o K) \o Tail(c) = K
  <2>1. << >> \o K = K /\ K \o << >> = K
      BY NoCalls
  <2>2. QED BY <1>2, <2>1
<1>4. (<< <<"wait", x>>, <<"wait", b>> >> \o K) \o Tail(c) = L
  <2>1. << <<"wait", x>>, <<"wait", b>> >> \o K = L
      BY TwoCalls
  <2>2. L \o << >> = L
      OBVIOUS
  <2>3. QED BY <1>2, <2>1, <2>2
<1>5. x \notin D /\ b \notin D => AtRead(K, O, D, W, q, D1, W1)
  <2>1. ASSUME x \notin D, b \notin D
        PROVE  O = {} /\ (D \ {b}) \cup {x} = D \cup {x}
      BY <1>1, <2>1
  <2>2. QED BY <1>1, <2>1 DEF AtRead, Smoothed
<1>6. AtWait(L, O, D, W, q, D1, W1, r)
    BY <1>1 DEF AtWait
<1>7. QED BY <1>3, <1>4, <1>5, <1>6 DEF Calm

\* ... those that begin a transfer, or skip it ...
LEMMA ExchangeStage ==
    ASSUME NEW c, NEW O, NEW D, NEW W, NEW q, NEW D1, NEW W1, NEW r, NEW v \in Vectors,
           AtExchange(c, O, D, W, q, D1, W1), Head(c) = <<"exchange", v>>
    PROVE  /\ v \notin D => Calm(<< >> \o Tail(c), O, D, W, q, D1, W1, r)
           /\ v \in D =>
                /\ O = {} /\ q = <<Tr(v, "rank", W[v])>>
                /\ Calm(<< <<"finish", v>> >> \o Tail(c), O \cup {v}, D, W, << >>,
                         D1, W1, r)
<1>1. /\ c = << <<"exchange", v>>, <<"read", v>> >> /\ O = {}
      /\ q = IfDirty(D, Tr(v, "rank", W[v])) /\ D1 = D \ {v} /\ W1 = W
    BY Tails DEF AtExchange
<1>2. /\ << >> \o Tail(c) = << <<"read", v>> >>
      /\ << <<"finish", v>> >> \o Tail(c) = << <<"finish", v>>, <<"read", v>> >>
  <2>1. Tail(c) = << <<"read", v>> >>
      BY <1>1, Tails
  <2>2. << >> \o << <<"read", v>> >> = << <<"read", v>> >>
      BY NoCalls
  <2>3. << <<"finish", v>> >> \o << <<"read", v>> >>
          = << <<"finish", v>>, <<"read", v>> >>
      BY OneCall
  <2>4. QED BY <2>1, <2>2, <2>3
<1>3. q = IF v \in D THEN <<Tr(v, "rank", W[v])>> ELSE << >>
    BY <1>1 DEF IfDirty, Tr
<1>4. ASSUME v \notin D
      PROVE  AtRead(<< >> \o Tail(c), O, D, W, q, D1, W1)
  <2>1. D \ {v} = D
      BY <1>4
  <2>2. QED BY <1>1, <1>2, <1>3, <1>4, <2>1 DEF AtRead
<1>5. AtFinish(<< <<"finish", v>> >> \o Tail(c), {v}, D, W, << >>, D1, W1, r)
    BY <1>1, <1>2 DEF AtFinish
<1>6. O \cup {v} = {v}
    BY <1>1
<1>7. QED BY <1>1, <1>3, <1>4, <1>5, <1>6 DEF Calm

LEMMA Ring2Stage ==
    ASSUME NEW c, NEW O, NEW D, NEW W, NEW q, NEW D1, NEW W1, NEW r, NEW v \in Vectors,
           AtRing2(c, O, D, W, q, D1, W1), Head(c) = <<"ring2", v>>
    PROVE  /\ O = {} /\ q = <<Tr(v, "rank", W[v])>>
           /\ Calm(<< <<"finish", v>> >> \o Tail(c), O \cup {v}, D, W, << >>,
                    D1, W1, r)
<1>1. /\ c = << <<"ring2", v>>, <<"read", v>> >> /\ O = {}
      /\ q = <<Tr(v, "rank", W[v])>> /\ D1 = D \ {v} /\ W1 = W
    BY Tails DEF AtRing2
<1>2. << <<"finish", v>> >> \o Tail(c) = << <<"finish", v>>, <<"read", v>> >>
  <2>1. Tail(c) = << <<"read", v>> >>
      BY <1>1, Tails
  <2>2. << <<"finish", v>> >> \o << <<"read", v>> >>
          = << <<"finish", v>>, <<"read", v>> >>
      BY OneCall
  <2>3. QED BY <2>1, <2>2
<1>3. AtFinish(<< <<"finish", v>> >> \o Tail(c), {v}, D, W, << >>, D1, W1, r)
    BY <1>1, <1>2 DEF AtFinish
<1>4. O \cup {v} = {v}
    BY <1>1
<1>5. QED BY <1>1, <1>3, <1>4 DEF Calm

LEMMA ProductStage ==
    ASSUME NEW c, NEW O, NEW D, NEW W, NEW q, NEW D1, NEW W1, NEW r, NEW v \in Vectors,
           AtProduct(c, O, D, W, q, D1, W1), Head(c) = <<"spmv", v>>
    PROVE  /\ v \notin D => Calm(<< >> \o Tail(c), O, D, W, q, D1, W1, r)
           /\ v \in D =>
                /\ O = {}
                /\ q = <<Tr(v, ProductKind, W[v])>>
                /\ Calm(<< <<"finish", v>> >> \o Tail(c), O \cup {v}, D, W, << >>,
                         D1, W1, r)
<1> DEFINE t == Tr(v, ProductKind, W[v])
<1>1. PICK u \in Vectors, b \in Vectors :
        /\ u # b /\ c = << <<"spmv", u>>, <<"read", u>>, <<"write", b>> >> /\ O = {}
        /\ q = IfDirty(D, Tr(u, ProductKind, W[u]))
        /\ D1 = (D \ {u}) \cup {b} /\ W1 = Raise(W, b)
    BY DEF AtProduct
<1>2. Head(c) = <<"spmv", u>>
    BY <1>1, Tails
<1>3. u = v
    BY <1>2
<1>4. /\ << >> \o Tail(c) = << <<"read", v>>, <<"write", b>> >>
      /\ << <<"finish", v>> >> \o Tail(c)
            = << <<"finish", v>>, <<"read", v>>, <<"write", b>> >>
  <2>1. Tail(c) = << <<"read", v>>, <<"write", b>> >>
      BY <1>1, <1>3, Tails
  <2>2. << >> \o << <<"read", v>>, <<"write", b>> >> = << <<"read", v>>, <<"write", b>> >>
      BY NoCalls
  <2>3. << <<"finish", v>> >> \o << <<"read", v>>, <<"write", b>> >>
          = << <<"finish", v>>, <<"read", v>>, <<"write", b>> >>
    <3> DEFINE f == <<"finish", v>>
               g == <<"read", v>>
               h == <<"write", b>>
    <3> HIDE DEF f, g, h
    <3>1. <<f>> \o <<g, h>> = <<f, g, h>>
        BY OneCall
    <3>2. QED BY <3>1 DEF f, g, h
  <2>4. QED BY <2>1, <2>2, <2>3
<1>5. q = IF v \in D THEN <<t>> ELSE << >>
  <2>1. t.vec = v
      BY DEF Tr
  <2>2. q = IfDirty(D, t)
      BY <1>1, <1>3
  <2> HIDE DEF t
  <2>3. QED BY <2>1, <2>2 DEF IfDirty
<1> HIDE DEF t
<1>6. ASSUME v \notin D
      PROVE  AtRead(<< >> \o Tail(c), O, D, W, q, D1, W1)
  <2>1. D \ {v} = D
      BY <1>6
  <2>2. QED BY <1>1, <1>3, <1>4, <1>5, <1>6, <2>1 DEF AtRead
<1>7. AtFinish(<< <<"finish", v>> >> \o Tail(c), {v}, D, W, << >>, D1, W1, r)
    BY <1>1, <1>3, <1>4 DEF AtFinish
<1>8. O \cup {v} = {v}
    BY <1>1
<1>9. QED BY <1>1, <1>5, <1>6, <1>7, <1>8 DEF Calm, t

LEMMA FoldStage ==
    ASSUME NEW c, NEW O, NEW D, NEW W, NEW q, NEW D1, NEW W1, NEW r, NEW v \in Vectors,
           AtFold(c, O, D, W, q, D1, W1), Head(c) = <<"fold", v>>
    PROVE  /\ O = {} /\ q = <<Tr(v, "rank", W[v] + 1)>>
           /\ Stage(<< <<"scatter", v>> >> \o Tail(c), O \cup {v}, D, W, << >>,
                    D1, W1, r)
<1>1. /\ c = << <<"fold", v>>, <<"dirty", v>> >> /\ O = {}
      /\ q = <<Tr(v, "rank", W[v] + 1)>> /\ D1 = D \cup {v} /\ W1 = Raise(W, v)
    BY Tails DEF AtFold
<1>2. << <<"scatter", v>> >> \o Tail(c) = << <<"scatter", v>>, <<"dirty", v>> >>
  <2>1. Tail(c) = << <<"dirty", v>> >>
      BY <1>1, Tails
  <2>2. << <<"scatter", v>> >> \o << <<"dirty", v>> >>
          = << <<"scatter", v>>, <<"dirty", v>> >>
      BY OneCall
  <2>3. QED BY <2>1, <2>2
<1>3. AtScatter(<< <<"scatter", v>> >> \o Tail(c), {v}, D, W, << >>, D1, W1)
    BY <1>1, <1>2 DEF AtScatter
<1>4. O \cup {v} = {v}
    BY <1>1
<1>5. QED BY <1>1, <1>3, <1>4 DEF Stage

\* ... in a smoother, where a big rank goes on and a small one waits ...
LEMMA AsyncStage1 ==
    ASSUME NEW c, NEW O, NEW D, NEW W, NEW q, NEW D1, NEW W1, NEW r, NEW v \in Vectors,
           AtAsync1(c, O, D, W, q, D1, W1), Head(c) = <<"async", v>>
    PROVE  /\ v \notin D => Calm(<< >> \o Tail(c), O, D, W, q, D1, W1, r)
           /\ v \in D =>
                /\ v \notin O /\ q = <<Tr(v, "tag", W[v])>> \o Tail(q)
                /\ r \in BigRanks =>
                     Calm(<< >> \o Tail(c), O \cup {v}, D, W, Tail(q), D1, W1, r)
                /\ r \notin BigRanks =>
                     Calm(<< <<"finish", v>> >> \o Tail(c), O \cup {v}, D, W, Tail(q),
                           D1, W1, r)
<1>1. PICK x \in Vectors, b \in Vectors :
        /\ x # b /\ c = << <<"async", x>>, <<"async", b>>, <<"branch", <<x, b>> >> >>
        /\ O = {}
        /\ q = IfDirty(D, Tr(x, "tag", W[x])) \o IfDirty(D, Tr(b, "tag", W[b]))
        /\ Smoothed(D, W, x, b, D1, W1)
    BY DEF AtAsync1
<1>2. Head(c) = <<"async", x>>
    BY <1>1, Tails
<1>3. x = v
    BY <1>2
<1>4. /\ << >> \o Tail(c) = << <<"async", b>>, <<"branch", <<v, b>> >> >>
      /\ << <<"finish", v>> >> \o Tail(c)
            = << <<"finish", v>>, <<"async", b>>, <<"branch", <<v, b>> >> >>
  <2>1. Tail(c) = << <<"async", b>>, <<"branch", <<v, b>> >> >>
      BY <1>1, <1>3, Tails
  <2>2. << >> \o << <<"async", b>>, <<"branch", <<v, b>> >> >> = << <<"async", b>>, <<"branch", <<v, b>> >> >>
      BY NoCalls
  <2>3. << <<"finish", v>> >> \o << <<"async", b>>, <<"branch", <<v, b>> >> >>
          = << <<"finish", v>>, <<"async", b>>, <<"branch", <<v, b>> >> >>
    <3> DEFINE f == <<"finish", v>>
               g == <<"async", b>>
               h == <<"branch", <<v, b>> >>
    <3> HIDE DEF f, g, h
    <3>1. <<f>> \o <<g, h>> = <<f, g, h>>
        BY OneCall
    <3>2. QED BY <3>1 DEF f, g, h
  <2>4. QED BY <2>1, <2>2, <2>3
<1> DEFINE q2 == IfDirty(D, Tr(b, "tag", W[b]))
<1>5. q2 = << >> \/ q2 = <<Tr(b, "tag", W[b])>>
    BY DEF IfDirty
<1>6. IfDirty(D, Tr(v, "tag", W[v])) = IF v \in D THEN <<Tr(v, "tag", W[v])>> ELSE << >>
    BY DEF IfDirty, Tr
<1>7. v \notin D => q = q2
  <2>1. << >> \o q2 = q2
      BY <1>5, NoCalls
  <2>2. QED BY <1>1, <1>3, <1>6, <2>1
<1>8. v \in D => q = <<Tr(v, "tag", W[v])>> \o q2
    BY <1>1, <1>3, <1>6
<1> HIDE DEF q2
<1>9. v \notin D => AtAsync2(<< >> \o Tail(c), O, D, W, q, D1, W1, r)
  <2>1. v \notin D => D \cap {v} = {}
      OBVIOUS
  <2>2. QED BY <1>1, <1>3, <1>4, <1>7, <2>1 DEF AtAsync2, q2
<1>10. v \in D /\ r \in BigRanks => AtAsync2(<< >> \o Tail(c), {v}, D, W, q2, D1, W1, r)
  <2>1. v \in D => D \cap {v} = {v}
      OBVIOUS
  <2>2. QED BY <1>1, <1>3, <1>4, <2>1 DEF AtAsync2, q2
<1>11. r \notin BigRanks =>
         AtFinish(<< <<"finish", v>> >> \o Tail(c), {v}, D, W, q2, D1, W1, r)
    BY <1>1, <1>3, <1>4 DEF AtFinish, q2
<1>12. O \cup {v} = {v} /\ v \notin O
    BY <1>1
<1>13. ASSUME v \in D
       PROVE  Tail(q) = q2
  <2> DEFINE t == Tr(v, "tag", W[v])
  <2>1. CASE q2 = << >>
    <3>1. q = <<t>> \o << >>
        BY <1>8, <1>13, <2>1
    <3> HIDE DEF t
    <3>2. QED BY <2>1, <3>1
  <2>2. CASE q2 = <<Tr(b, "tag", W[b])>>
    <3> DEFINE u == Tr(b, "tag", W[b])
    <3>1. q = <<t>> \o <<u>> /\ q2 = <<u>>
        BY <1>8, <1>13, <2>2
    <3> HIDE DEF t, u
    <3>2. q = <<t, u>>
        BY <3>1, OneCall
    <3>3. Tail(q) = <<u>>
        BY <3>2, Tails
    <3>4. QED BY <3>1, <3>3
  <2>3. QED BY <1>5, <2>1, <2>2
<1>14. /\ v \in D /\ r \in BigRanks =>
            Calm(<< >> \o Tail(c), O \cup {v}, D, W, q2, D1, W1, r)
       /\ r \notin BigRanks =>
            Calm(<< <<"finish", v>> >> \o Tail(c), O \cup {v}, D, W, q2, D1, W1, r)
    BY <1>10, <1>11, <1>12 DEF Calm
<1>15. v \notin D => Calm(<< >> \o Tail(c), O, D, W, q, D1, W1, r)
    BY <1>9 DEF Calm
<1>16. QED BY <1>8, <1>12, <1>13, <1>14, <1>15

LEMMA AsyncStage2 ==
    ASSUME NEW c, NEW O, NEW D, NEW W, NEW q, NEW D1, NEW W1, NEW r, NEW v \in Vectors,
           AtAsync2(c, O, D, W, q, D1, W1, r), Head(c) = <<"async", v>>
    PROVE  /\ v \notin D => Calm(<< >> \o Tail(c), O, D, W, q, D1, W1, r)
           /\ v \in D =>
                /\ v \notin O /\ q = <<Tr(v, "tag", W[v])>>
                /\ r \in BigRanks =>
                     Calm(<< >> \o Tail(c), O \cup {v}, D, W, << >>, D1, W1, r)
                /\ r \notin BigRanks =>
                     Calm(<< <<"finish", v>> >> \o Tail(c), O \cup {v}, D, W, << >>,
                           D1, W1, r)
<1>1. PICK x \in Vectors, b \in Vectors :
        /\ x # b /\ c = << <<"async", b>>, <<"branch", <<x, b>> >> >>
        /\ O = D \cap {x} /\ (r \notin BigRanks => O = {})
        /\ q = IfDirty(D, Tr(b, "tag", W[b])) /\ Smoothed(D, W, x, b, D1, W1)
    BY DEF AtAsync2
<1>2. Head(c) = <<"async", b>>
    BY <1>1, Tails
<1>3. b = v
    BY <1>2
<1>4. /\ << >> \o Tail(c) = << <<"branch", <<x, v>> >> >>
      /\ << <<"finish", v>> >> \o Tail(c) = << <<"finish", v>>, <<"branch", <<x, v>> >> >>
  <2>1. Tail(c) = << <<"branch", <<x, v>> >> >>
      BY <1>1, <1>3, Tails
  <2>2. << >> \o << <<"branch", <<x, v>> >> >> = << <<"branch", <<x, v>> >> >>
      BY NoCalls
  <2>3. << <<"finish", v>> >> \o << <<"branch", <<x, v>> >> >>
          = << <<"finish", v>>, <<"branch", <<x, v>> >> >>
      BY OneCall
  <2>4. QED BY <2>1, <2>2, <2>3
<1>5. q = IF v \in D THEN <<Tr(v, "tag", W[v])>> ELSE << >>
    BY <1>1, <1>3 DEF IfDirty, Tr
<1>6. v \notin D => AtBranch(<< >> \o Tail(c), O, D, W, q, D1, W1, r)
  <2>1. v \notin D => D \cap {x} = D \cap {x, v}
      OBVIOUS
  <2>2. QED BY <1>1, <1>3, <1>4, <1>5, <2>1 DEF AtBranch
<1>7. v \in D /\ r \in BigRanks =>
        AtBranch(<< >> \o Tail(c), O \cup {v}, D, W, << >>, D1, W1, r)
  <2>1. v \in D => (D \cap {x}) \cup {v} = D \cap {x, v}
      OBVIOUS
  <2>2. QED BY <1>1, <1>3, <1>4, <2>1 DEF AtBranch
<1>8. r \notin BigRanks =>
        AtFinish(<< <<"finish", v>> >> \o Tail(c), O \cup {v}, D, W, << >>, D1, W1, r)
  <2>1. ASSUME r \notin BigRanks
        PROVE  O \cup {v} = {v} /\ x \notin D
      BY <1>1, <2>1
  <2>2. QED BY <1>1, <1>3, <1>4, <2>1 DEF AtFinish
<1>9. v \notin O
    BY <1>1, <1>3
<1>10. QED BY <1>5, <1>6, <1>7, <1>8, <1>9 DEF Calm

\* ... and those that end one.
LEMMA ScatterTail ==
    ASSUME NEW c, NEW O, NEW D, NEW W, NEW q, NEW D1, NEW W1, NEW v \in Vectors,
           AtScatter(c, O, D, W, q, D1, W1), Head(c) = <<"scatter", v>>
    PROVE  O = {v} /\ Tail(c) = << <<"dirty", v>> >>
    BY Tails DEF AtScatter

LEMMA ScatterStage ==
    ASSUME NEW c, NEW O, NEW D, NEW W, NEW q, NEW D1, NEW W1, NEW r, NEW v \in Vectors,
           AtScatter(c, O, D, W, q, D1, W1), Head(c) = <<"scatter", v>>
    PROVE  Stage(<< >> \o Tail(c), O \ {v}, D \ {v}, Raise(W, v), q, D1, W1, r)
<1>1. /\ c = << <<"scatter", v>>, <<"dirty", v>> >> /\ O = {v}
      /\ q = << >> /\ D1 = D \cup {v} /\ W1 = Raise(W, v)
    BY Tails DEF AtScatter
<1>2. << >> \o Tail(c) = << <<"dirty", v>> >> /\ Tail(c) = << <<"dirty", v>> >>
    BY <1>1, Tails, NoCalls
<1>3. O \ {v} = {} /\ D \cup {v} = (D \ {v}) \cup {v}
    BY <1>1
<1>4. AtDirty(<< >> \o Tail(c), O \ {v}, D \ {v}, Raise(W, v), q, D1, W1)
    BY <1>1, <1>2, <1>3 DEF AtDirty
<1>5. QED BY <1>1, <1>2, <1>4 DEF Stage

LEMMA FinishStage ==
    ASSUME NEW c, NEW O, NEW D, NEW W, NEW q, NEW D1, NEW W1, NEW r, NEW v \in Vectors,
           AtFinish(c, O, D, W, q, D1, W1, r), Head(c) = <<"finish", v>>
    PROVE  /\ O = {v}
           /\ Calm(<< >> \o Tail(c), O \ {v}, D \ {v}, W, q, D1, W1, r)
<1>1. PICK u \in Vectors, b \in Vectors :
        /\ O = {u}
        /\ \/ /\ c = << <<"finish", u>>, <<"read", u>> >> /\ q = << >>
              /\ D1 = D \ {u} /\ W1 = W
           \/ /\ u # b /\ c = << <<"finish", u>>, <<"read", u>>, <<"write", b>> >>
              /\ q = << >> /\ D1 = (D \ {u}) \cup {b} /\ W1 = Raise(W, b)
           \/ /\ u # b /\ r \notin BigRanks
              /\ c = << <<"finish", u>>, <<"async", b>>, <<"branch", <<u, b>> >> >>
              /\ q = IfDirty(D, Tr(b, "tag", W[b])) /\ Smoothed(D, W, u, b, D1, W1)
           \/ /\ u # b /\ r \notin BigRanks /\ b \notin D
              /\ c = << <<"finish", u>>, <<"branch", <<b, u>> >> >>
              /\ q = << >> /\ Smoothed(D, W, b, u, D1, W1)
    BY DEF AtFinish
<1>2. Head(c) = <<"finish", u>>
    BY <1>1, Tails
<1>3. u = v
    BY <1>2
<1>4. O = {v} /\ O \ {v} = {} /\ v \notin D \ {v}
    BY <1>1, <1>3
<1>5. CASE /\ c = << <<"finish", v>>, <<"read", v>> >> /\ q = << >>
           /\ D1 = D \ {v} /\ W1 = W
  <2>1. << >> \o Tail(c) = << <<"read", v>> >>
      BY <1>5, Tails, NoCalls
  <2>2. AtRead(<< >> \o Tail(c), O \ {v}, D \ {v}, W, q, D1, W1)
      BY <1>4, <1>5, <2>1 DEF AtRead
  <2>3. QED BY <1>4, <2>2 DEF Calm
<1>6. CASE /\ v # b /\ c = << <<"finish", v>>, <<"read", v>>, <<"write", b>> >>
           /\ q = << >> /\ D1 = (D \ {v}) \cup {b} /\ W1 = Raise(W, b)
  <2>1. << >> \o Tail(c) = << <<"read", v>>, <<"write", b>> >>
      BY <1>6, Tails, NoCalls
  <2>2. AtRead(<< >> \o Tail(c), O \ {v}, D \ {v}, W, q, D1, W1)
      BY <1>4, <1>6, <2>1 DEF AtRead
  <2>3. QED BY <1>4, <2>2 DEF Calm
<1>7. CASE /\ v # b /\ r \notin BigRanks
           /\ c = << <<"finish", v>>, <<"async", b>>, <<"branch", <<v, b>> >> >>
           /\ q = IfDirty(D, Tr(b, "tag", W[b])) /\ Smoothed(D, W, v, b, D1, W1)
  <2>1. << >> \o Tail(c) = << <<"async", b>>, <<"branch", <<v, b>> >> >>
      BY <1>7, Tails, NoCalls
  <2>2. O \ {v} = (D \ {v}) \cap {v}
      BY <1>4
  <2>3. IfDirty(D \ {v}, Tr(b, "tag", W[b])) = q
      BY <1>7 DEF IfDirty, Tr
  <2>4. Smoothed(D \ {v}, W, v, b, D1, W1)
    <3>1. (D \ {b}) \cup {v} = ((D \ {v}) \ {b}) \cup {v}
        OBVIOUS
    <3>2. QED BY <1>7, <3>1 DEF Smoothed
  <2>5. AtAsync2(<< >> \o Tail(c), O \ {v}, D \ {v}, W, q, D1, W1, r)
      BY <1>4, <1>7, <2>1, <2>2, <2>3, <2>4 DEF AtAsync2
  <2>6. QED BY <1>4, <2>5 DEF Calm
<1>8. CASE /\ v # b /\ r \notin BigRanks /\ b \notin D
           /\ c = << <<"finish", v>>, <<"branch", <<b, v>> >> >>
           /\ q = << >> /\ Smoothed(D, W, b, v, D1, W1)
  <2>1. << >> \o Tail(c) = << <<"branch", <<b, v>> >> >>
      BY <1>8, Tails, NoCalls
  <2>2. O \ {v} = (D \ {v}) \cap {b, v}
      BY <1>4, <1>8
  <2>3. Smoothed(D \ {v}, W, b, v, D1, W1)
    <3>1. (D \ {v}) \cup {b} = ((D \ {v}) \ {v}) \cup {b}
        OBVIOUS
    <3>2. QED BY <1>8, <3>1 DEF Smoothed
  <2>4. AtBranch(<< >> \o Tail(c), O \ {v}, D \ {v}, W, q, D1, W1, r)
      BY <1>4, <1>8, <2>1, <2>2, <2>3 DEF AtBranch
  <2>5. QED BY <1>4, <2>4 DEF Calm
<1>9. QED BY <1>1, <1>3, <1>5, <1>6, <1>7, <1>8

LEMMA WaitStage ==
    ASSUME NEW c, NEW O, NEW D, NEW W, NEW q, NEW D1, NEW W1, NEW r, NEW v \in Vectors,
           AtWait(c, O, D, W, q, D1, W1, r), Head(c) = <<"wait", v>>
    PROVE  /\ v \in O <=> v \in D
           /\ r \notin BigRanks => v \notin D
           /\ v \notin D => Calm(<< >> \o Tail(c), O, D, W, q, D1, W1, r)
           /\ Calm(<< >> \o Tail(c), O \ {v}, D \ {v}, W, q, D1, W1, r)
<1>1. PICK x \in Vectors, b \in Vectors :
        /\ x # b
        /\ \/ c = << <<"wait", x>>, <<"wait", b>>, <<"read", x>>, <<"read", b>>,
                     <<"write", x>> >>
           \/ /\ c = << <<"wait", b>>, <<"read", x>>, <<"read", b>>, <<"write", x>> >>
              /\ x \notin D
        /\ O = D \cap {x, b} /\ (r \notin BigRanks => O = {})
        /\ q = << >> /\ Smoothed(D, W, x, b, D1, W1)
    BY DEF AtWait
<1>2. CASE c = << <<"wait", x>>, <<"wait", b>>, <<"read", x>>, <<"read", b>>,
                  <<"write", x>> >>
  <2>1. Head(c) = <<"wait", x>>
      BY <1>2, Tails
  <2>2. x = v
      BY <2>1
  <2>3. Tail(c) = << <<"wait", b>>, <<"read", x>>, <<"read", b>>, <<"write", x>> >>
      BY <1>2, Tails
  <2>4. << >> \o Tail(c) = << <<"wait", b>>, <<"read", x>>, <<"read", b>>, <<"write", x>> >>
      BY <2>3, NoCalls
  <2>5. AtWait(<< >> \o Tail(c), O \ {v}, D \ {v}, W, q, D1, W1, r)
    <3>1. /\ O \ {v} = (D \ {v}) \cap {x, b} /\ x \notin D \ {v}
          /\ (r \notin BigRanks => O \ {v} = {})
        BY <1>1, <2>2
    <3>2. Smoothed(D \ {v}, W, x, b, D1, W1)
      <4>1. (D \ {b}) \cup {x} = ((D \ {v}) \ {b}) \cup {x}
          BY <2>2
      <4>2. QED BY <1>1, <4>1 DEF Smoothed
    <3>3. QED BY <1>1, <2>4, <3>1, <3>2 DEF AtWait
  <2>6. v \notin D => O \ {v} = O /\ D \ {v} = D
      BY <1>1
  <2>7. (v \in O <=> v \in D) /\ (r \notin BigRanks => v \notin D)
      BY <1>1, <2>2
  <2>8. QED BY <2>5, <2>6, <2>7 DEF Calm
<1>3. CASE /\ c = << <<"wait", b>>, <<"read", x>>, <<"read", b>>, <<"write", x>> >>
           /\ x \notin D
  <2>1. Head(c) = <<"wait", b>>
      BY <1>3, Tails
  <2>2. b = v
      BY <2>1
  <2>3. Tail(c) = << <<"read", x>>, <<"read", b>>, <<"write", x>> >>
      BY <1>3, Tails
  <2>4. << >> \o Tail(c) = << <<"read", x>>, <<"read", b>>, <<"write", x>> >>
      BY <2>3, NoCalls
  <2>5. AtRead(<< >> \o Tail(c), O \ {v}, D \ {v}, W, q, D1, W1)
    <3>1. /\ O \ {v} = {} /\ x \notin D \ {v} /\ b \notin D \ {v}
          /\ D1 = (D \ {v}) \cup {x} /\ W1 = Raise(W, x)
        BY <1>1, <1>3, <2>2 DEF Smoothed
    <3>2. QED BY <1>1, <2>4, <3>1 DEF AtRead
  <2>6. v \notin D => O \ {v} = O /\ D \ {v} = D
      BY <1>1
  <2>7. (v \in O <=> v \in D) /\ (r \notin BigRanks => v \notin D)
      BY <1>1, <1>3, <2>2
  <2>8. QED BY <2>5, <2>6, <2>7 DEF Calm
<1>4. QED BY <1>1, <1>2, <1>3

LEMMA CalmHead ==
    ASSUME NEW c, NEW O, NEW D, NEW W, NEW q, NEW D1, NEW W1, NEW r,
           Calm(c, O, D, W, q, D1, W1, r), c # << >>
    PROVE  Head(c)[1] # "scatter" /\ Head(c)[1] # "dirty"
<1>1. AtWrite(c, O, D, W, q, D1, W1) => Head(c)[1] = "write"
    BY Tails DEF AtWrite
<1>2. AtRead(c, O, D, W, q, D1, W1) => Head(c)[1] = "read"
    BY Tails DEF AtRead
<1>3. AtExchange(c, O, D, W, q, D1, W1) => Head(c)[1] = "exchange"
    BY Tails DEF AtExchange
<1>4. AtRing2(c, O, D, W, q, D1, W1) => Head(c)[1] = "ring2"
    BY Tails DEF AtRing2
<1>5. AtProduct(c, O, D, W, q, D1, W1) => Head(c)[1] = "spmv"
    BY Tails DEF AtProduct
<1>6. AtFold(c, O, D, W, q, D1, W1) => Head(c)[1] = "fold"
    BY Tails DEF AtFold
<1>7. AtZero(c, O, D, W, q, D1, W1) => Head(c)[1] = "zero"
    BY Tails DEF AtZero
<1>8. AtAsync1(c, O, D, W, q, D1, W1) => Head(c)[1] = "async"
    BY Tails DEF AtAsync1
<1>9. AtAsync2(c, O, D, W, q, D1, W1, r) => Head(c)[1] = "async"
    BY Tails DEF AtAsync2
<1>10. AtBranch(c, O, D, W, q, D1, W1, r) => Head(c)[1] = "branch"
    BY Tails DEF AtBranch
<1>11. AtWait(c, O, D, W, q, D1, W1, r) => Head(c)[1] = "wait"
    BY Tails DEF AtWait
<1>12. AtFinish(c, O, D, W, q, D1, W1, r) => Head(c)[1] = "finish"
    BY Tails DEF AtFinish
<1>13. ~AtEnd(c, O, D, W, q, D1, W1)
    BY DEF AtEnd
<1>14. QED BY <1>1, <1>2, <1>3, <1>4, <1>5, <1>6, <1>7, <1>8, <1>9, <1>10, <1>11,
              <1>12, <1>13 DEF Calm

\* Every operation is a list of calls like these, on every rank, and begins
\* at most two transfers.
Plan(op, D, W, q, D1, W1) ==
    /\ q \in Seq(Transfer) /\ Len(q) <= 2
    /\ D1 \subseteq Vectors /\ W1 \in [Vectors -> Nat]
    /\ \A r \in Ranks : Calm(Calls(op), {}, D, W, q, D1, W1, r)

LEMMA RaiseType ==
    ASSUME NEW W \in [Vectors -> Nat], NEW v \in Vectors
    PROVE  Raise(W, v) \in [Vectors -> Nat]
    BY DEF Raise

LEMMA EveryOperation ==
    ASSUME NEW op \in Ops, NEW D, D \subseteq Vectors, NEW W \in [Vectors -> Nat]
    PROVE  \E q, D1, W1 : Plan(op, D, W, q, D1, W1)
<1> DEFINE none == << >>
<1>1. none \in Seq(Transfer) /\ Len(none) <= 2
    OBVIOUS
<1>2. CASE \E v \in Vectors : op = <<"update", v>>
  <2>1. PICK v \in Vectors : op = <<"update", v>>
      BY <1>2
  <2>2. Calls(op) = << <<"write", v>> >>
      BY <2>1 DEF Calls
  <2>3. \A r \in Ranks : Calm(Calls(op), {}, D, W, << >>, D \cup {v}, Raise(W, v), r)
      BY <2>2 DEF Calm, AtWrite
  <2>4. D \cup {v} \subseteq Vectors /\ Raise(W, v) \in [Vectors -> Nat]
      BY RaiseType
  <2>5. \A r \in Ranks : Calm(Calls(op), {}, D, W, none, D \cup {v}, Raise(W, v), r)
      BY <2>3
  <2> HIDE DEF none
  <2>6. Plan(op, D, W, none, D \cup {v}, Raise(W, v))
      BY <1>1, <2>4, <2>5 DEF Plan
  <2>7. QED BY <2>6
<1>3. CASE \E v \in Vectors : op = <<"exchange", v>>
  <2>1. PICK v \in Vectors : op = <<"exchange", v>>
      BY <1>3
  <2>2. Calls(op) = << <<"exchange", v>>, <<"read", v>> >>
      BY <2>1 DEF Calls
  <2> DEFINE q == IfDirty(D, Tr(v, "rank", W[v]))
  <2>3. \A r \in Ranks : Calm(Calls(op), {}, D, W, q, D \ {v}, W, r)
      BY <2>2 DEF Calm, AtExchange
  <2>4. q \in Seq(Transfer) /\ Len(q) <= 2
    <3>1. q \in Seq(Transfer) /\ Len(q) \in {0, 1}
        BY TransferType
    <3> HIDE DEF q
    <3>2. Len(q) = 0 \/ Len(q) = 1
        BY <3>1
    <3>3. Len(q) <= 2
      <4> DEFINE n == Len(q)
      <4>1. n = 0 \/ n = 1
          BY <3>2
      <4> HIDE DEF n
      <4>2. n <= 2
          BY <4>1
      <4>3. QED BY <4>2 DEF n
    <3>4. QED BY <3>1, <3>3
  <2> HIDE DEF q
  <2>5. Plan(op, D, W, q, D \ {v}, W)
      BY <2>3, <2>4 DEF Plan
  <2>6. QED BY <2>5
<1>4. CASE \E v \in Vectors : op = <<"ring2", v>>
  <2>1. PICK v \in Vectors : op = <<"ring2", v>>
      BY <1>4
  <2>2. Calls(op) = << <<"ring2", v>>, <<"read", v>> >>
      BY <2>1 DEF Calls
  <2> DEFINE q == <<Tr(v, "rank", W[v])>>
  <2>3. \A r \in Ranks : Calm(Calls(op), {}, D, W, q, D \ {v}, W, r)
      BY <2>2 DEF Calm, AtRing2
  <2>4. q \in Seq(Transfer) /\ Len(q) <= 2
      BY TransferType
  <2> HIDE DEF q
  <2>5. Plan(op, D, W, q, D \ {v}, W)
      BY <2>3, <2>4 DEF Plan
  <2>6. QED BY <2>5
<1>5. CASE \E v \in Vectors : op = <<"combine", v>>
  <2>1. PICK v \in Vectors : op = <<"combine", v>>
      BY <1>5
  <2>2. Calls(op) = << <<"fold", v>>, <<"dirty", v>> >>
      BY <2>1 DEF Calls
  <2> DEFINE q == <<Tr(v, "rank", W[v] + 1)>>
  <2>3. \A r \in Ranks : Calm(Calls(op), {}, D, W, q, D \cup {v}, Raise(W, v), r)
      BY <2>2 DEF Calm, AtFold
  <2>4. q \in Seq(Transfer) /\ Len(q) <= 2
    <3>1. W[v] + 1 \in Nat
        OBVIOUS
    <3>2. QED BY <3>1, TransferType
  <2> HIDE DEF q
  <2>5. D \cup {v} \subseteq Vectors /\ Raise(W, v) \in [Vectors -> Nat]
      BY RaiseType
  <2>6. Plan(op, D, W, q, D \cup {v}, Raise(W, v))
      BY <2>3, <2>4, <2>5 DEF Plan
  <2>7. QED BY <2>6
<1>6. CASE \E v, b \in Vectors : v # b /\ op = <<"multiply", <<v, b>> >>
  <2>1. PICK v \in Vectors, b \in Vectors : v # b /\ op = <<"multiply", <<v, b>> >>
      BY <1>6
  <2>2. Calls(op) = << <<"spmv", v>>, <<"read", v>>, <<"write", b>> >>
      BY <2>1 DEF Calls
  <2> DEFINE k == ProductKind
             q == IfDirty(D, Tr(v, k, W[v]))
  <2>3. \A r \in Ranks : Calm(Calls(op), {}, D, W, q, (D \ {v}) \cup {b}, Raise(W, b), r)
      BY <2>1, <2>2 DEF Calm, AtProduct
  <2>4. k \in {"rank", "tag"}
      BY DEF ProductKind
  <2> HIDE DEF k
  <2>5. q \in Seq(Transfer) /\ Len(q) <= 2
    <3>1. q \in Seq(Transfer) /\ Len(q) \in {0, 1}
        BY <2>4, TransferType
    <3> HIDE DEF q
    <3>2. Len(q) = 0 \/ Len(q) = 1
        BY <3>1
    <3>3. Len(q) <= 2
      <4> DEFINE n == Len(q)
      <4>1. n = 0 \/ n = 1
          BY <3>2
      <4> HIDE DEF n
      <4>2. n <= 2
          BY <4>1
      <4>3. QED BY <4>2 DEF n
    <3>4. QED BY <3>1, <3>3
  <2> HIDE DEF q
  <2>6. (D \ {v}) \cup {b} \subseteq Vectors /\ Raise(W, b) \in [Vectors -> Nat]
      BY RaiseType
  <2>7. Plan(op, D, W, q, (D \ {v}) \cup {b}, Raise(W, b))
      BY <2>3, <2>5, <2>6 DEF Plan
  <2>8. QED BY <2>7
<1>7. CASE \E x, b \in Vectors : x # b /\ op = <<"smooth", <<x, b>> >>
  <2>1. PICK x \in Vectors, b \in Vectors : x # b /\ op = <<"smooth", <<x, b>> >>
      BY <1>7
  <2>2. Calls(op) = << <<"async", x>>, <<"async", b>>, <<"branch", <<x, b>> >> >>
      BY <2>1 DEF Calls
  <2> DEFINE qx == IfDirty(D, Tr(x, "tag", W[x]))
             qb == IfDirty(D, Tr(b, "tag", W[b]))
             q == qx \o qb
  <2>3. \A r \in Ranks : Calm(Calls(op), {}, D, W, q, (D \ {b}) \cup {x}, Raise(W, x), r)
      BY <2>1, <2>2 DEF Calm, AtAsync1, Smoothed
  <2>4. /\ qx \in Seq(Transfer) /\ Len(qx) \in {0, 1}
        /\ qb \in Seq(Transfer) /\ Len(qb) \in {0, 1}
      BY TransferType
  <2> HIDE DEF qx, qb
  <2>5. q \in Seq(Transfer) /\ Len(q) = Len(qx) + Len(qb)
      BY <2>4, Concatenated
  <2> HIDE DEF q
  <2>6. Len(q) <= 2
      BY <2>4, <2>5
  <2>7. (D \ {b}) \cup {x} \subseteq Vectors /\ Raise(W, x) \in [Vectors -> Nat]
      BY RaiseType
  <2>8. Plan(op, D, W, q, (D \ {b}) \cup {x}, Raise(W, x))
      BY <2>3, <2>5, <2>6, <2>7 DEF Plan
  <2>9. QED BY <2>8
<1>8. CASE \E x, b \in Vectors : x # b /\ op = <<"smoothZero", <<x, b>> >>
  <2>1. PICK x \in Vectors, b \in Vectors : x # b /\ op = <<"smoothZero", <<x, b>> >>
      BY <1>8
  <2>2. Calls(op) = << <<"zero", x>>, <<"async", x>>, <<"async", b>>,
                       <<"branch", <<x, b>> >> >>
      BY <2>1 DEF Calls
  <2> DEFINE q == IfDirty(D, Tr(b, "tag", W[b]))
             W1 == Raise(Raise(W, x), x)
  <2>3. \A r \in Ranks : Calm(Calls(op), {}, D, W, q, (D \ {b}) \cup {x}, W1, r)
      BY <2>1, <2>2 DEF Calm, AtZero, Smoothed
  <2>4. q \in Seq(Transfer) /\ Len(q) <= 2
    <3>1. q \in Seq(Transfer) /\ Len(q) \in {0, 1}
        BY TransferType
    <3> HIDE DEF q
    <3>2. Len(q) = 0 \/ Len(q) = 1
        BY <3>1
    <3>3. Len(q) <= 2
      <4> DEFINE n == Len(q)
      <4>1. n = 0 \/ n = 1
          BY <3>2
      <4> HIDE DEF n
      <4>2. n <= 2
          BY <4>1
      <4>3. QED BY <4>2 DEF n
    <3>4. QED BY <3>1, <3>3
  <2>5. (D \ {b}) \cup {x} \subseteq Vectors /\ W1 \in [Vectors -> Nat]
      BY RaiseType
  <2> HIDE DEF q, W1
  <2>6. Plan(op, D, W, q, (D \ {b}) \cup {x}, W1)
      BY <2>3, <2>4, <2>5 DEF Plan
  <2>7. QED BY <2>6
<1>9. \/ \E v \in Vectors : \/ op = <<"update", v>> \/ op = <<"exchange", v>>
                            \/ op = <<"ring2", v>> \/ op = <<"combine", v>>
      \/ \E v, b \in Vectors : /\ v # b
                               /\ \/ op = <<"multiply", <<v, b>> >>
                                  \/ op = <<"smooth", <<v, b>> >>
                                  \/ op = <<"smoothZero", <<v, b>> >>
  <2>1. CASE op \in {"update", "exchange", "ring2", "combine"} \X Vectors
      BY <2>1
  <2>2. CASE op \in {"multiply", "smooth", "smoothZero"}
                     \X {p \in Vectors \X Vectors : p[1] # p[2]}
    <3>1. PICK p \in Vectors \X Vectors : p[1] # p[2] /\ op = <<op[1], p>>
        BY <2>2
    <3>2. p = <<p[1], p[2]>> /\ p[1] \in Vectors /\ p[2] \in Vectors
        OBVIOUS
    <3>3. op[1] \in {"multiply", "smooth", "smoothZero"}
        BY <2>2
    <3>4. QED BY <3>1, <3>2, <3>3
  <2>3. QED BY <2>1, <2>2 DEF Ops
<1>10. QED BY <1>2, <1>3, <1>4, <1>5, <1>6, <1>7, <1>8, <1>9

-----------------------------------------------------------------------------
(* The invariant. *)

DirtySet(r) == {v \in Vectors : dirtybit[r][v]}

\* The transfers q are the ones after the first n of the list, up to the m-th.
Scheduled(q, n, m, T) ==
    /\ q \in Seq(Transfer) /\ n + Len(q) = m /\ m <= Len(T)
    /\ \A i \in 1..Len(q) : T[n + i] = q[i]

\* The calls c lead to what is determined for the end of the operation.
Rest(c, O, D, W, n, h, T, r) ==
    \E q : Stage(c, O, D, W, q, h.d, h.w, r) /\ Scheduled(q, n, h.n, T)

AfterOperation == [d : SUBSET Vectors, w : [Vectors -> Nat], n : Nat]

Program(T, H) ==
    /\ H \in [0..Len(program) -> AfterOperation]
    /\ H[Len(program)].n = Len(T)
    /\ \A k \in 1..Len(program), r \in Ranks :
         Rest(Calls(program[k]), {}, H[k - 1].d, H[k - 1].w, H[k - 1].n, H[k], T, r)

\* The data of a rank: what a send buffer in use holds, and when a halo that
\* is not dirty is current.
Sending(r) ==
    \A v \in Vectors :
        Open(r, v) => sendBuffer[r][v] = IF Doing(r, "scatter", v)
                                         THEN ver[r][v] + 1 ELSE ver[r][v]
CleanIsCurrent(r) ==
    \A v \in Vectors :
        v \notin DirtySet(r) /\ ~Doing(r, "scatter", v) /\ ~Doing(r, "dirty", v)
            => Current(r, v)
DataOK(r) ==
    /\ \A v \in Vectors : ver[r][v] >= 1
    /\ Sending(r)
    /\ CleanIsCurrent(r)

RankOK(r, T, H, n) ==
    /\ Rest(todo[r], OpenSet(r), DirtySet(r), ver[r], n, H[pc[r]], T, r)
    /\ DataOK(r)

Good(T, E, H, N, a, b) ==
    /\ Listed(T, E)
    /\ Program(T, H)
    /\ Net(T, E, N, a, b)
    /\ \A r \in Ranks : RankOK(r, T, H, N[r])

Inv == TypeOK /\ \E T, E, H, N, a, b : Good(T, E, H, N, a, b)

\* The first of the transfers left is the next one of the list.
LEMMA NextTransfer ==
    ASSUME NEW t \in Transfer, NEW n \in Nat, NEW m \in Nat, NEW T \in Seq(Transfer),
           NEW q2 \in Seq(Transfer), NEW q, q = <<t>> \o q2, Scheduled(q, n, m, T)
    PROVE  n < Len(T) /\ T[n + 1] = t /\ Scheduled(q2, n + 1, m, T)
<1> DEFINE s == <<t>>
<1>1. s \in Seq(Transfer) /\ Len(s) = 1 /\ s[1] = t
    BY AtMostOne
<1>2. q = s \o q2
    OBVIOUS
<1> HIDE DEF s
<1>3. /\ Len(q) = 1 + Len(q2) /\ q[1] = t
      /\ \A i \in 1..Len(q2) : q[i + 1] = q2[i]
  <2>1. /\ Len(s \o q2) = Len(s) + Len(q2)
        /\ \A i \in 1..Len(s) + Len(q2) :
              (s \o q2)[i] = IF i <= Len(s) THEN s[i] ELSE q2[i - Len(s)]
      BY <1>1, Concatenated
  <2>2. Len(q2) \in Nat
      OBVIOUS
  <2> DEFINE l == Len(q2)
  <2>3. /\ l \in Nat /\ Len(q) = 1 + l
        /\ \A i \in 1..1 + l : q[i] = IF i <= 1 THEN s[i] ELSE q2[i - 1]
      BY <1>1, <1>2, <2>1, <2>2
  <2> HIDE DEF l
  <2>4. q[1] = t
      BY <1>1, <2>3
  <2>5. ASSUME NEW i \in 1..l
        PROVE  q[i + 1] = q2[i]
    <3>1. i + 1 \in 1..1 + l /\ ~(i + 1 <= 1) /\ (i + 1) - 1 = i
        BY <2>3
    <3>2. QED BY <2>3, <3>1
  <2>6. QED BY <2>3, <2>4, <2>5 DEF l
<1>4. PICK l \in Nat : l = Len(q2)
    OBVIOUS
<1>5. PICK L \in Nat : L = Len(T)
    OBVIOUS
<1>6. /\ n + (1 + l) = m /\ m <= L
      /\ \A i \in 1..1 + l : T[n + i] = q[i]
    BY <1>3, <1>4, <1>5 DEF Scheduled
<1>7. n < L /\ (n + 1) + l = m
    BY <1>6
<1>8. T[n + 1] = t
    BY <1>3, <1>6
<1>9. ASSUME NEW i \in 1..l
      PROVE  T[(n + 1) + i] = q2[i]
  <2>1. i + 1 \in 1..1 + l /\ n + (i + 1) = (n + 1) + i
      OBVIOUS
  <2>2. QED BY <1>3, <1>4, <1>6, <2>1
<1>10. QED BY <1>4, <1>5, <1>6, <1>7, <1>8, <1>9 DEF Scheduled

LEMMA LastTransfer ==
    ASSUME NEW t \in Transfer, NEW n \in Nat, NEW m \in Nat, NEW T \in Seq(Transfer),
           NEW q, q = <<t>>, Scheduled(q, n, m, T)
    PROVE  n < Len(T) /\ T[n + 1] = t /\ Scheduled(<< >>, n + 1, m, T)
<1> DEFINE none == << >>
<1>1. q = <<t>> \o none
    OBVIOUS
<1>2. none \in Seq(Transfer)
    OBVIOUS
<1> HIDE DEF none
<1>3. QED BY <1>1, <1>2, NextTransfer DEF none

\* A list that goes on keeps what was scheduled.
LEMMA RestLonger ==
    ASSUME NEW c, NEW O, NEW D, NEW W, NEW n \in Nat, NEW h \in AfterOperation,
           NEW T \in Seq(Transfer), NEW T2 \in Seq(Transfer), NEW r,
           Longer(T, T2), Rest(c, O, D, W, n, h, T, r)
    PROVE  Rest(c, O, D, W, n, h, T2, r)
<1>1. PICK q : Stage(c, O, D, W, q, h.d, h.w, r) /\ Scheduled(q, n, h.n, T)
    BY DEF Rest
<1>2. Scheduled(q, n, h.n, T2)
  <2>1. PICK m \in Nat : m = h.n
      BY DEF AfterOperation
  <2>2. PICK l \in Nat : l = Len(q)
      BY <1>1 DEF Scheduled
  <2>3. PICK L \in Nat, L2 \in Nat : L = Len(T) /\ L2 = Len(T2)
      OBVIOUS
  <2>4. n + l = m /\ m <= L /\ L <= L2
      BY <1>1, <2>1, <2>2, <2>3 DEF Scheduled, Longer
  <2>5. ASSUME NEW i \in 1..l
        PROVE  T2[n + i] = q[i]
    <3>1. n + i \in 1..L
        BY <2>4
    <3>2. QED BY <1>1, <2>2, <2>3, <3>1 DEF Scheduled, Longer
  <2>6. QED BY <1>1, <2>1, <2>2, <2>3, <2>4, <2>5 DEF Scheduled
<1>3. QED BY <1>1, <1>2 DEF Rest

\* Only rank r moves.
Others(r) ==
    \A s \in Ranks : s # r =>
        /\ pc'[s] = pc[s] /\ todo'[s] = todo[s] /\ OpenSet(s)' = OpenSet(s)
        /\ dirtybit'[s] = dirtybit[s] /\ ver'[s] = ver[s] /\ halo'[s] = halo[s]
        /\ \A v \in Vectors : sendBuffer'[s][v] = sendBuffer[s][v]

\* A rank that does not move, while the program may grow.
LEMMA RankStays ==
    ASSUME NEW s \in Ranks, NEW T \in Seq(Transfer), NEW T2 \in Seq(Transfer),
           Longer(T, T2), NEW H, NEW n \in Nat, H[pc[s]] \in AfterOperation,
           RankOK(s, T, H, n), NEW H2, H2[pc[s]] = H[pc[s]],
           pc'[s] = pc[s], todo'[s] = todo[s], OpenSet(s)' = OpenSet(s),
           dirtybit'[s] = dirtybit[s], ver'[s] = ver[s], halo'[s] = halo[s],
           \A v \in Vectors : sendBuffer'[s][v] = sendBuffer[s][v]
    PROVE  RankOK(s, T2, H2, n)'
<1>1. DirtySet(s)' = DirtySet(s)
    BY DEF DirtySet
<1>2. Rest(todo[s], OpenSet(s), DirtySet(s), ver[s], n, H[pc[s]], T2, s)
    BY RestLonger DEF RankOK
<1>3. Rest(todo[s], OpenSet(s), DirtySet(s), ver[s], n, H2[pc[s]], T2, s)'
  <2>1. Rest(todo'[s], OpenSet(s)', DirtySet(s)', ver'[s], n, H2[pc'[s]], T2, s)
      BY <1>1, <1>2
  <2>2. QED BY <2>1
<1>4. \A v \in Vectors : in_transfer'[s][v] = "BOTH" <=> in_transfer[s][v] = "BOTH"
  <2>1. ASSUME NEW v \in Vectors
        PROVE  in_transfer'[s][v] = "BOTH" <=> in_transfer[s][v] = "BOTH"
    <3>1. v \in OpenSet(s)' <=> in_transfer'[s][v] = "BOTH"
        BY DEF OpenSet, Open
    <3>2. v \in OpenSet(s) <=> in_transfer[s][v] = "BOTH"
        BY DEF OpenSet, Open
    <3>3. QED BY <3>1, <3>2
  <2>2. QED BY <2>1
<1>5. \A f, v : Doing(s, f, v)' = Doing(s, f, v)
    BY DEF Doing
<1>6. \A v \in Vectors : Current(s, v)' = Current(s, v)
    BY DEF Current
<1>7. DataOK(s)'
  <2>1. Sending(s)'
      BY <1>4, <1>5 DEF Sending, RankOK, DataOK, Open
  <2>2. CleanIsCurrent(s)'
      BY <1>1, <1>5, <1>6 DEF CleanIsCurrent, RankOK, DataOK
  <2>3. QED BY <2>1, <2>2 DEF RankOK, DataOK
<1>8. QED BY <1>3, <1>7 DEF RankOK

\* A rank is where it should be after a call.
LEMMA RankMoves ==
    ASSUME NEW r \in Ranks, NEW T, NEW H, NEW n, pc'[r] = pc[r],
           NEW c, NEW O, NEW D, NEW W, NEW q,
           todo'[r] = c, OpenSet(r)' = O, DirtySet(r)' = D, ver'[r] = W,
           Stage(c, O, D, W, q, H[pc[r]].d, H[pc[r]].w, r),
           Scheduled(q, n, H[pc[r]].n, T), DataOK(r)'
    PROVE  RankOK(r, T, H, n)'
<1>1. Rest(c, O, D, W, n, H[pc[r]], T, r)
    BY DEF Rest
<1>2. Rest(todo'[r], OpenSet(r)', DirtySet(r)', ver'[r], n, H[pc'[r]], T, r)
    BY <1>1
<1>3. Rest(todo[r], OpenSet(r), DirtySet(r), ver[r], n, H[pc[r]], T, r)'
    BY <1>2
<1>4. QED BY <1>3 DEF RankOK

LEMMA InBounds ==
    ASSUME TypeOK, NEW T, NEW E, NEW H, NEW N, NEW a, NEW b,
           Good(T, E, H, N, a, b), NEW r \in Ranks
    PROVE  /\ T \in Seq(Transfer) /\ Len(T) \in Nat /\ N[r] \in Nat
           /\ Len(program) \in Nat /\ pc[r] \in 0..Len(program)
           /\ H[pc[r]] \in AfterOperation /\ H[pc[r]].d \subseteq Vectors
           /\ H[pc[r]].w \in [Vectors -> Nat] /\ H[pc[r]].n \in Nat
           /\ ver[r] \in [Vectors -> Nat]
<1>1. pc[r] \in 0..Len(program) /\ Len(program) \in Nat /\ ver[r] \in [Vectors -> Nat]
    BY DEF TypeOK, RankTypeOK
<1>2. H[pc[r]] \in AfterOperation
    BY <1>1 DEF Good, Program
<1>3. T \in Seq(Transfer) /\ N[r] \in Nat
    BY DEF Good, Listed, Net, Counted
<1>4. QED BY <1>1, <1>2, <1>3 DEF AfterOperation

\* A step of one rank within an operation.
LEMMA Combine ==
    ASSUME TypeOK, NEW T, NEW E, NEW H, NEW N, NEW a, NEW b,
           Good(T, E, H, N, a, b), NEW r \in Ranks, program' = program,
           TypeOK', Others(r), NEW N2, NEW a2, NEW b2,
           \A s \in Ranks : s # r => N2[s] = N[s],
           Net(T, E, N2, a2, b2)', RankOK(r, T, H, N2[r])'
    PROVE  Inv'
<1>1. Listed(T, E) /\ Program(T, H)'
    BY DEF Good, Program
<1>2. ASSUME NEW s \in Ranks, s # r
      PROVE  RankOK(s, T, H, N2[s])'
  <2>1. PICK n \in Nat : n = N[s] /\ n = N2[s]
      BY <1>2, InBounds
  <2>2. RankOK(s, T, H, n)
      BY <2>1 DEF Good
  <2>3. Longer(T, T)
      BY InBounds DEF Longer
  <2>4. RankOK(s, T, H, n)'
      BY <1>2, <2>2, <2>3, InBounds, RankStays DEF Others
  <2>5. QED BY <2>1, <2>4
<1>3. Good(T, E, H, N2, a2, b2)'
    BY <1>1, <1>2 DEF Good
<1>4. QED BY <1>3 DEF Inv

\* Where the second half of a fold is not, the data is simpler.
Quiet(r) == \A v : ~Doing(r, "scatter", v) /\ ~Doing(r, "dirty", v)

LEMMA OneCallAtATime ==
    ASSUME NEW r, NEW f, NEW u, Doing(r, f, u)
    PROVE  /\ todo[r] # << >> /\ Head(todo[r]) = <<f, u>>
           /\ \A g, v : Doing(r, g, v) <=> g = f /\ v = u
           /\ f # "scatter" /\ f # "dirty" => Quiet(r)
<1>1. todo[r] # << >> /\ Head(todo[r]) = <<f, u>>
    BY DEF Doing
<1>2. ASSUME NEW g, NEW v
      PROVE  Doing(r, g, v) <=> g = f /\ v = u
  <2>1. <<f, u>> = <<g, v>> <=> g = f /\ v = u
      OBVIOUS
  <2>2. QED BY <1>1, <2>1 DEF Doing
<1>3. QED BY <1>1, <1>2 DEF Quiet

LEMMA QuietAfter ==
    ASSUME NEW r, NEW c, todo'[r] = c, NEW O, NEW D, NEW W, NEW q, NEW D1, NEW W1,
           Calm(c, O, D, W, q, D1, W1, r)
    PROVE  Quiet(r)'
<1>1. CASE c = << >>
    BY <1>1 DEF Quiet, Doing
<1>2. CASE c # << >>
  <2>1. Head(c)[1] # "scatter" /\ Head(c)[1] # "dirty"
      BY <1>2, CalmHead
  <2>2. ASSUME NEW f, NEW v, Head(c) = <<f, v>>
        PROVE  f # "scatter" /\ f # "dirty"
      BY <2>1, <2>2
  <2>3. QED BY <2>2 DEF Quiet, Doing
<1>3. QED BY <1>1, <1>2

LEMMA DataThen ==
    ASSUME NEW r, Quiet(r)', \A v \in Vectors : ver'[r][v] >= 1,
           \A v \in Vectors : v \in OpenSet(r)' => sendBuffer'[r][v] = ver'[r][v],
           \A v \in Vectors : v \notin DirtySet(r)' => Current(r, v)'
    PROVE  DataOK(r)'
<1>1. Sending(r)'
  <2>1. ASSUME NEW v \in Vectors, Open(r, v)'
        PROVE  sendBuffer'[r][v] = ver'[r][v] /\ ~Doing(r, "scatter", v)'
    <3>1. v \in OpenSet(r)'
        BY <2>1 DEF OpenSet
    <3>2. QED BY <3>1 DEF Quiet
  <2>2. QED BY <2>1 DEF Sending
<1>2. CleanIsCurrent(r)'
    BY DEF CleanIsCurrent
<1>3. QED BY <1>1, <1>2 DEF DataOK

LEMMA DataNow ==
    ASSUME NEW r, Quiet(r), DataOK(r)
    PROVE  /\ \A v \in Vectors : ver[r][v] >= 1
           /\ \A v \in Vectors : v \in OpenSet(r) => sendBuffer[r][v] = ver[r][v]
           /\ \A v \in Vectors : v \notin DirtySet(r) => Current(r, v)
<1>1. ASSUME NEW v \in Vectors, v \in OpenSet(r)
      PROVE  sendBuffer[r][v] = ver[r][v]
    BY <1>1 DEF DataOK, Sending, OpenSet, Quiet
<1>2. ASSUME NEW v \in Vectors, v \notin DirtySet(r)
      PROVE  Current(r, v)
    BY <1>2 DEF DataOK, CleanIsCurrent, Quiet
<1>3. QED BY <1>1, <1>2 DEF DataOK

\* The dirty bits of the rank that moves.
LEMMA DirtyChanges ==
    ASSUME RankTypeOK, NEW r \in Ranks, NEW v \in Vectors
    PROVE  /\ dirtybit' = dirtybit => DirtySet(r)' = DirtySet(r)
           /\ dirtybit' = [dirtybit EXCEPT ![r][v] = TRUE] =>
                /\ DirtySet(r)' = DirtySet(r) \cup {v}
                /\ \A s \in Ranks : s # r => dirtybit'[s] = dirtybit[s]
                /\ dirtybit' \in [Ranks -> [Vectors -> BOOLEAN]]
           /\ dirtybit' = [dirtybit EXCEPT ![r][v] = FALSE] =>
                /\ DirtySet(r)' = DirtySet(r) \ {v}
                /\ \A s \in Ranks : s # r => dirtybit'[s] = dirtybit[s]
                /\ dirtybit' \in [Ranks -> [Vectors -> BOOLEAN]]
<1>1. dirtybit' = dirtybit => DirtySet(r)' = DirtySet(r)
    BY DEF DirtySet
<1>2. ASSUME NEW x \in BOOLEAN, dirtybit' = [dirtybit EXCEPT ![r][v] = x]
      PROVE  /\ dirtybit'[r][v] = x
             /\ \A u \in Vectors : u # v => dirtybit'[r][u] = dirtybit[r][u]
             /\ \A s \in Ranks : s # r => dirtybit'[s] = dirtybit[s]
             /\ dirtybit' \in [Ranks -> [Vectors -> BOOLEAN]]
    BY <1>2 DEF RankTypeOK
<1>3. ASSUME dirtybit' = [dirtybit EXCEPT ![r][v] = TRUE]
      PROVE  DirtySet(r)' = DirtySet(r) \cup {v}
  <2>1. dirtybit'[r][v] /\ \A u \in Vectors : u # v => dirtybit'[r][u] = dirtybit[r][u]
      BY <1>2, <1>3
  <2>2. \A u : u \in DirtySet(r)' <=> u \in Vectors /\ dirtybit'[r][u]
      BY DEF DirtySet
  <2>3. \A u : u \in DirtySet(r) <=> u \in Vectors /\ dirtybit[r][u]
      BY DEF DirtySet
  <2>4. QED BY <2>1, <2>2, <2>3
<1>4. ASSUME dirtybit' = [dirtybit EXCEPT ![r][v] = FALSE]
      PROVE  DirtySet(r)' = DirtySet(r) \ {v}
  <2>1. ~dirtybit'[r][v] /\ \A u \in Vectors : u # v => dirtybit'[r][u] = dirtybit[r][u]
      BY <1>2, <1>4
  <2>2. \A u : u \in DirtySet(r)' <=> u \in Vectors /\ dirtybit'[r][u]
      BY DEF DirtySet
  <2>3. \A u : u \in DirtySet(r) <=> u \in Vectors /\ dirtybit[r][u]
      BY DEF DirtySet
  <2>4. QED BY <2>1, <2>2, <2>3
<1>5. QED BY <1>1, <1>2, <1>3, <1>4

-----------------------------------------------------------------------------
(* The steps that leave the network alone. *)

LEMMA LocalStep ==
    ASSUME TypeOK, NEW T, NEW E, NEW H, NEW N, NEW a, NEW b,
           Good(T, E, H, N, a, b), NEW r \in Ranks,
           UNCHANGED <<program, pc, in_transfer, network, history>>,
           NEW c, todo' = [todo EXCEPT ![r] = c], RankTypeOK',
           \A s \in Ranks : s # r => /\ dirtybit'[s] = dirtybit[s]
                                     /\ ver'[s] = ver[s] /\ halo'[s] = halo[s],
           NEW D, NEW W, NEW q, DirtySet(r)' = D, ver'[r] = W,
           Stage(c, OpenSet(r), D, W, q, H[pc[r]].d, H[pc[r]].w, r),
           Scheduled(q, N[r], H[pc[r]].n, T), DataOK(r)'
    PROVE  Inv'
<1>1. UNCHANGED <<network, history, in_transfer>> /\ NetTypeOK
    BY DEF TypeOK
<1>2. NetTypeOK' /\ Net(T, E, N, a, b)' /\ \A s : OpenSet(s)' = OpenSet(s)
    BY <1>1, NetSame DEF Good
<1>3. program' = program /\ pc' = pc /\ sendBuffer' = sendBuffer
    BY DEF network
<1>4. todo'[r] = c /\ \A s \in Ranks : s # r => todo'[s] = todo[s]
    BY DEF TypeOK, RankTypeOK
<1>5. Others(r)
    BY <1>2, <1>3, <1>4 DEF Others
<1>6. RankOK(r, T, H, N[r])'
    BY <1>2, <1>3, <1>4, RankMoves
<1>7. TypeOK'
    BY <1>2 DEF TypeOK
<1>8. QED BY <1>2, <1>3, <1>5, <1>6, <1>7, Combine

\* What is known of a rank before it moves.
LEMMA Before ==
    ASSUME TypeOK, NEW T, NEW E, NEW H, NEW N, NEW a, NEW b,
           Good(T, E, H, N, a, b), NEW r \in Ranks
    PROVE  /\ DataOK(r)
           /\ \E q : /\ Stage(todo[r], OpenSet(r), DirtySet(r), ver[r], q,
                              H[pc[r]].d, H[pc[r]].w, r)
                     /\ Scheduled(q, N[r], H[pc[r]].n, T)
    BY DEF Good, RankOK, Rest

\* Types when only the calls left change.
LEMMA OnlyTodo ==
    ASSUME TypeOK, NEW r \in Ranks, NEW c, todo' = [todo EXCEPT ![r] = c],
           UNCHANGED <<program, pc, dirtybit, ver, halo>>
    PROVE  RankTypeOK'
<1>1. DOMAIN todo' = Ranks
    BY DEF TypeOK, RankTypeOK
<1>2. QED BY <1>1 DEF TypeOK, RankTypeOK

\* A step that only goes on to the next call.
LEMMA GoOn ==
    ASSUME TypeOK, NEW T, NEW E, NEW H, NEW N, NEW a, NEW b,
           Good(T, E, H, N, a, b), NEW r \in Ranks, Quiet(r),
           UNCHANGED <<program, pc, dirtybit, in_transfer, ver, halo, network, history>>,
           NEW c, todo' = [todo EXCEPT ![r] = c], NEW q,
           Calm(c, OpenSet(r), DirtySet(r), ver[r], q, H[pc[r]].d, H[pc[r]].w, r),
           Scheduled(q, N[r], H[pc[r]].n, T)
    PROVE  Inv'
<1>1. /\ UNCHANGED <<program, pc, in_transfer, network, history>>
      /\ UNCHANGED <<program, pc, dirtybit, ver, halo>>
      /\ UNCHANGED <<network, history, in_transfer>>
    OBVIOUS
<1>2. RankTypeOK'
    BY <1>1, OnlyTodo
<1>3. OpenSet(r)' = OpenSet(r)
    BY <1>1 DEF OpenSet, Open
<1>4. DirtySet(r)' = DirtySet(r)
    BY <1>1 DEF DirtySet
<1>5. todo'[r] = c
    BY DEF TypeOK, RankTypeOK
<1>6. Quiet(r)'
    BY <1>5, QuietAfter
<1>7. /\ \A v \in Vectors : ver[r][v] >= 1
      /\ \A v \in Vectors : v \in OpenSet(r) => sendBuffer[r][v] = ver[r][v]
      /\ \A v \in Vectors : v \notin DirtySet(r) => Current(r, v)
    BY Before, DataNow
<1>8. ver' = ver /\ halo' = halo /\ sendBuffer' = sendBuffer
    BY DEF network
<1>9. \A v : Current(r, v) => Current(r, v)'
    BY <1>8 DEF Current
<1>10. DataOK(r)'
    BY <1>3, <1>4, <1>6, <1>7, <1>8, <1>9, DataThen
<1>11. Stage(c, OpenSet(r), DirtySet(r), ver[r], q, H[pc[r]].d, H[pc[r]].w, r)
    BY DEF Stage
<1>12. QED BY <1>1, <1>2, <1>4, <1>8, <1>10, <1>11, LocalStep

LEMMA StepReadHalo ==
    ASSUME Inv, NEW r \in Ranks, NEW v \in Vectors, ReadHalo(r, v)
    PROVE  Inv'
<1>1. PICK T, E, H, N, a, b : Good(T, E, H, N, a, b)
    BY DEF Inv
<1>2. PICK q : /\ Stage(todo[r], OpenSet(r), DirtySet(r), ver[r], q,
                        H[pc[r]].d, H[pc[r]].w, r)
               /\ Scheduled(q, N[r], H[pc[r]].n, T)
    BY <1>1, Before DEF Inv
<1>3. todo[r] # << >> /\ Head(todo[r]) = <<"read", v>> /\ Quiet(r)
    BY OneCallAtATime DEF ReadHalo
<1>4. Calm(<< >> \o Tail(todo[r]), OpenSet(r), DirtySet(r), ver[r], q,
           H[pc[r]].d, H[pc[r]].w, r)
    BY <1>2, <1>3, StageHead, ReadStage
<1>5. todo' = [todo EXCEPT ![r] = << >> \o Tail(todo[r])]
    BY DEF ReadHalo, Continue
<1>6. QED BY <1>1, <1>2, <1>3, <1>4, <1>5, GoOn DEF ReadHalo, Inv

LEMMA StepSmootherBranch ==
    ASSUME Inv, NEW r \in Ranks, NEW x \in Vectors, NEW b \in Vectors,
           SmootherBranch(r, x, b)
    PROVE  Inv'
<1>1. PICK T, E, H, N, sx, rx : Good(T, E, H, N, sx, rx)
    BY DEF Inv
<1>2. PICK q : /\ Stage(todo[r], OpenSet(r), DirtySet(r), ver[r], q,
                        H[pc[r]].d, H[pc[r]].w, r)
               /\ Scheduled(q, N[r], H[pc[r]].n, T)
    BY <1>1, Before DEF Inv
<1>3. todo[r] # << >> /\ Head(todo[r]) = <<"branch", <<x, b>> >> /\ Quiet(r)
    BY OneCallAtATime DEF SmootherBranch
<1>4. AtBranch(todo[r], OpenSet(r), DirtySet(r), ver[r], q, H[pc[r]].d, H[pc[r]].w, r)
    BY <1>2, <1>3, StageHead
<1> DEFINE reads == << <<"read", x>>, <<"read", b>>, <<"write", x>> >>
           waits == << <<"wait", x>>, <<"wait", b>> >>
<1>5. /\ x \notin DirtySet(r) /\ b \notin DirtySet(r) =>
           Calm((<< >> \o reads) \o Tail(todo[r]), OpenSet(r), DirtySet(r), ver[r], q,
                H[pc[r]].d, H[pc[r]].w, r)
      /\ Calm((waits \o reads) \o Tail(todo[r]), OpenSet(r), DirtySet(r), ver[r], q,
              H[pc[r]].d, H[pc[r]].w, r)
    BY <1>3, <1>4, BranchStage
<1>6. ~dirtybit[r][x] /\ ~dirtybit[r][b] => x \notin DirtySet(r) /\ b \notin DirtySet(r)
    BY DEF DirtySet
<1> DEFINE c == SmootherTail(r, x, b) \o Tail(todo[r])
<1>7. SmootherTail(r, x, b) = IF LatencyHiding(r) /\ ~dirtybit[r][x] /\ ~dirtybit[r][b]
                              THEN << >> \o reads ELSE waits \o reads
    BY DEF SmootherTail
<1>8. todo' = [todo EXCEPT ![r] = c]
    BY DEF SmootherBranch, Continue
<1> HIDE DEF reads, waits
<1>9. Calm(c, OpenSet(r), DirtySet(r), ver[r], q, H[pc[r]].d, H[pc[r]].w, r)
    BY <1>5, <1>6, <1>7
<1> HIDE DEF c
<1>10. QED BY <1>1, <1>2, <1>3, <1>8, <1>9, GoOn DEF SmootherBranch, Inv

\* A call that is not needed, because the halo is clean.
LEMMA CleanStage ==
    ASSUME NEW c, NEW O, NEW D, NEW W, NEW q, NEW D1, NEW W1, NEW r, NEW v \in Vectors,
           NEW f \in {"exchange", "spmv", "async", "wait"},
           Stage(c, O, D, W, q, D1, W1, r), c # << >>, Head(c) = <<f, v>>,
           f # "wait" \/ r \in BigRanks => v \notin D
    PROVE  Calm(<< >> \o Tail(c), O, D, W, q, D1, W1, r)
<1>1. CASE f = "exchange"
  <2>1. Head(c) = <<"exchange", v>>
      BY <1>1
  <2>2. AtExchange(c, O, D, W, q, D1, W1)
      BY <2>1, StageHead
  <2>3. v \notin D
      BY <1>1
  <2>4. QED BY <2>1, <2>2, <2>3, ExchangeStage
<1>2. CASE f = "spmv"
  <2>1. Head(c) = <<"spmv", v>>
      BY <1>2
  <2>2. AtProduct(c, O, D, W, q, D1, W1)
      BY <2>1, StageHead
  <2>3. v \notin D
      BY <1>2
  <2>4. QED BY <2>1, <2>2, <2>3, ProductStage
<1>3. CASE f = "async"
  <2>1. Head(c) = <<"async", v>>
      BY <1>3
  <2>2. AtAsync1(c, O, D, W, q, D1, W1) \/ AtAsync2(c, O, D, W, q, D1, W1, r)
      BY <2>1, StageHead
  <2>3. v \notin D
      BY <1>3
  <2>4. CASE AtAsync1(c, O, D, W, q, D1, W1)
      BY <2>1, <2>3, <2>4, AsyncStage1
  <2>5. CASE AtAsync2(c, O, D, W, q, D1, W1, r)
      BY <2>1, <2>3, <2>5, AsyncStage2
  <2>6. QED BY <2>2, <2>4, <2>5
<1>4. CASE f = "wait"
  <2>1. Head(c) = <<"wait", v>>
      BY <1>4
  <2>2. AtWait(c, O, D, W, q, D1, W1, r)
      BY <2>1, StageHead
  <2>3. r \notin BigRanks => v \notin D
      BY <2>1, <2>2, WaitStage
  <2>4. v \notin D
      BY <2>3
  <2>5. QED BY <2>1, <2>2, <2>4, WaitStage
<1>5. QED BY <1>1, <1>2, <1>3, <1>4

LEMMA StepSkipClean ==
    ASSUME Inv, NEW r \in Ranks, NEW v \in Vectors, SkipClean(r, v)
    PROVE  Inv'
<1>1. PICK T, E, H, N, a, b : Good(T, E, H, N, a, b)
    BY DEF Inv
<1>2. PICK q : /\ Stage(todo[r], OpenSet(r), DirtySet(r), ver[r], q,
                        H[pc[r]].d, H[pc[r]].w, r)
               /\ Scheduled(q, N[r], H[pc[r]].n, T)
    BY <1>1, Before DEF Inv
<1>3. \E f \in {"exchange", "spmv", "async", "wait"} : Doing(r, f, v)
    BY DEF SkipClean
<1>4. PICK f \in {"exchange", "spmv", "async", "wait"} : Doing(r, f, v)
    BY <1>3
<1>5. /\ todo[r] # << >> /\ Head(todo[r]) = <<f, v>> /\ Quiet(r)
      /\ \A g, u : Doing(r, g, u) <=> g = f /\ u = v
    BY <1>4, OneCallAtATime
<1>6. f # "wait" => v \notin DirtySet(r)
    BY <1>5 DEF SkipClean, DirtySet
<1>7. r \in BigRanks => v \notin DirtySet(r)
    BY DEF SkipClean, DirtySet
<1> DEFINE c == << >> \o Tail(todo[r])
<1>8. Calm(c, OpenSet(r), DirtySet(r), ver[r], q, H[pc[r]].d, H[pc[r]].w, r)
    BY <1>2, <1>5, <1>6, <1>7, CleanStage
<1>9. todo' = [todo EXCEPT ![r] = c]
    BY DEF SkipClean, Continue
<1> HIDE DEF c
<1>10. UNCHANGED <<program, pc, dirtybit, in_transfer, ver, halo, network, history>>
    BY DEF SkipClean
<1>11. QED BY <1>1, <1>2, <1>5, <1>8, <1>9, <1>10, GoOn DEF Inv

LEMMA StepMarkDirty ==
    ASSUME Inv, NEW r \in Ranks, NEW v \in Vectors, MarkDirty(r, v)
    PROVE  Inv'
<1>1. PICK T, E, H, N, a, b : Good(T, E, H, N, a, b)
    BY DEF Inv
<1>2. PICK q : /\ Stage(todo[r], OpenSet(r), DirtySet(r), ver[r], q,
                        H[pc[r]].d, H[pc[r]].w, r)
               /\ Scheduled(q, N[r], H[pc[r]].n, T)
    BY <1>1, Before DEF Inv
<1>3. /\ todo[r] # << >> /\ Head(todo[r]) = <<"dirty", v>>
      /\ \A g, u : Doing(r, g, u) <=> g = "dirty" /\ u = v
    BY OneCallAtATime DEF MarkDirty
<1> DEFINE c == << >> \o Tail(todo[r])
           D == DirtySet(r) \cup {v}
<1>4. OpenSet(r) = {} /\ Calm(c, OpenSet(r), D, ver[r], q, H[pc[r]].d, H[pc[r]].w, r)
  <2>1. AtDirty(todo[r], OpenSet(r), DirtySet(r), ver[r], q, H[pc[r]].d, H[pc[r]].w)
      BY <1>2, <1>3, StageHead
  <2>2. QED BY <1>3, <2>1, DirtyStage
<1>5. todo' = [todo EXCEPT ![r] = c]
    BY DEF MarkDirty, Continue
<1>6. /\ dirtybit' = [dirtybit EXCEPT ![r][v] = TRUE]
      /\ UNCHANGED <<program, pc, in_transfer, ver, halo, network, history>>
    BY DEF MarkDirty
<1>7. /\ DirtySet(r)' = D
      /\ \A s \in Ranks : s # r => dirtybit'[s] = dirtybit[s]
      /\ dirtybit' \in [Ranks -> [Vectors -> BOOLEAN]]
    BY <1>6, DirtyChanges DEF Inv, TypeOK
<1> HIDE DEF c, D
<1>8. RankTypeOK'
  <2>1. DOMAIN todo' = Ranks
      BY <1>5 DEF Inv, TypeOK, RankTypeOK
  <2>2. QED BY <1>6, <1>7, <2>1 DEF Inv, TypeOK, RankTypeOK
<1>9. todo'[r] = c
    BY <1>5 DEF Inv, TypeOK, RankTypeOK
<1>10. DataOK(r)'
  <2>1. Quiet(r)'
      BY <1>4, <1>9, QuietAfter
  <2>2. DataOK(r)
      BY <1>1, Before DEF Inv
  <2>3. OpenSet(r)' = {} /\ \A u \in Vectors : ver'[r][u] >= 1
      BY <1>4, <1>6, <2>2 DEF OpenSet, Open, DataOK
  <2>4. ASSUME NEW u \in Vectors, u \notin D
        PROVE  Current(r, u)'
    <3>1. Current(r, u)
        BY <1>3, <2>2, <2>4 DEF D, DataOK, CleanIsCurrent
    <3>2. QED BY <1>6, <3>1 DEF Current
  <2>5. QED BY <1>7, <2>1, <2>3, <2>4, DataThen
<1>11. Stage(c, OpenSet(r), D, ver[r], q, H[pc[r]].d, H[pc[r]].w, r)
    BY <1>4 DEF Stage
<1>12. /\ UNCHANGED <<program, pc, in_transfer, network, history>>
       /\ ver'[r] = ver[r]
       /\ \A s \in Ranks : s # r => ver'[s] = ver[s] /\ halo'[s] = halo[s]
    BY <1>6
<1>13. QED BY <1>1, <1>2, <1>5, <1>7, <1>8, <1>10, <1>11, <1>12, LocalStep DEF Inv

LEMMA StepWriteRows ==
    ASSUME Inv, NEW r \in Ranks, NEW v \in Vectors, WriteRows(r, v)
    PROVE  Inv'
<1>1. PICK T, E, H, N, a, b : Good(T, E, H, N, a, b)
    BY DEF Inv
<1>2. PICK q : /\ Stage(todo[r], OpenSet(r), DirtySet(r), ver[r], q,
                        H[pc[r]].d, H[pc[r]].w, r)
               /\ Scheduled(q, N[r], H[pc[r]].n, T)
    BY <1>1, Before DEF Inv
<1>3. todo[r] # << >> /\ Head(todo[r]) = <<"write", v>> /\ Quiet(r)
    BY OneCallAtATime DEF WriteRows
<1> DEFINE c == << >> \o Tail(todo[r])
           D == DirtySet(r) \cup {v}
           W == Raise(ver[r], v)
<1>4. OpenSet(r) = {} /\ Calm(c, OpenSet(r), D, W, q, H[pc[r]].d, H[pc[r]].w, r)
  <2>1. AtWrite(todo[r], OpenSet(r), DirtySet(r), ver[r], q, H[pc[r]].d, H[pc[r]].w)
      BY <1>2, <1>3, StageHead
  <2>2. QED BY <1>3, <2>1, WriteStage
<1>5. todo' = [todo EXCEPT ![r] = c]
    BY DEF WriteRows, Continue
<1>6. /\ dirtybit' = [dirtybit EXCEPT ![r][v] = TRUE]
      /\ ver' = [ver EXCEPT ![r][v] = @ + 1]
      /\ UNCHANGED <<program, pc, in_transfer, halo, network, history>>
    BY DEF WriteRows
<1>7. /\ DirtySet(r)' = D
      /\ \A s \in Ranks : s # r => dirtybit'[s] = dirtybit[s]
      /\ dirtybit' \in [Ranks -> [Vectors -> BOOLEAN]]
    BY <1>6, DirtyChanges DEF Inv, TypeOK
<1>8. /\ ver'[r] = W /\ ver' \in [Ranks -> [Vectors -> Nat]]
      /\ \A s \in Ranks : s # r => ver'[s] = ver[s]
      /\ \A u \in Vectors : u # v => ver'[r][u] = ver[r][u]
      /\ ver'[r][v] = ver[r][v] + 1 /\ ver[r][v] \in Nat
    BY <1>6 DEF Inv, TypeOK, RankTypeOK, Raise
<1> HIDE DEF c, D, W
<1>9. RankTypeOK'
  <2>1. DOMAIN todo' = Ranks
      BY <1>5 DEF Inv, TypeOK, RankTypeOK
  <2>2. QED BY <1>6, <1>7, <1>8, <2>1 DEF Inv, TypeOK, RankTypeOK
<1>10. todo'[r] = c
    BY <1>5 DEF Inv, TypeOK, RankTypeOK
<1>11. DataOK(r)'
  <2>1. Quiet(r)'
      BY <1>4, <1>10, QuietAfter
  <2>2. /\ \A u \in Vectors : ver[r][u] >= 1
        /\ \A u \in Vectors : u \notin DirtySet(r) => Current(r, u)
      BY <1>1, <1>3, Before, DataNow DEF Inv
  <2>3. OpenSet(r)' = {}
      BY <1>4, <1>6 DEF OpenSet, Open
  <2>4. \A u \in Vectors : ver'[r][u] >= 1
      BY <1>8, <2>2
  <2>5. ASSUME NEW u \in Vectors, u \notin D
        PROVE  Current(r, u)'
    <3>1. Current(r, u) /\ u # v
        BY <2>2, <2>5 DEF D
    <3>2. QED BY <1>6, <1>8, <3>1 DEF Current
  <2>6. QED BY <1>7, <2>1, <2>3, <2>4, <2>5, DataThen
<1>12. Stage(c, OpenSet(r), D, W, q, H[pc[r]].d, H[pc[r]].w, r)
    BY <1>4 DEF Stage
<1>13. /\ UNCHANGED <<program, pc, in_transfer, network, history>>
       /\ \A s \in Ranks : s # r => ver'[s] = ver[s] /\ halo'[s] = halo[s]
    BY <1>6, <1>8
<1>14. QED BY <1>1, <1>2, <1>5, <1>7, <1>8, <1>9, <1>11, <1>12, <1>13, LocalStep DEF Inv

LEMMA StepZeroGuess ==
    ASSUME Inv, NEW r \in Ranks, NEW v \in Vectors, ZeroGuess(r, v)
    PROVE  Inv'
<1>1. PICK T, E, H, N, a, b : Good(T, E, H, N, a, b)
    BY DEF Inv
<1>2. PICK q : /\ Stage(todo[r], OpenSet(r), DirtySet(r), ver[r], q,
                        H[pc[r]].d, H[pc[r]].w, r)
               /\ Scheduled(q, N[r], H[pc[r]].n, T)
    BY <1>1, Before DEF Inv
<1>3. todo[r] # << >> /\ Head(todo[r]) = <<"zero", v>> /\ Quiet(r)
    BY OneCallAtATime DEF ZeroGuess
<1> DEFINE c == << >> \o Tail(todo[r])
           D == DirtySet(r) \ {v}
           W == Raise(ver[r], v)
<1>4. OpenSet(r) = {} /\ Calm(c, OpenSet(r), D, W, q, H[pc[r]].d, H[pc[r]].w, r)
  <2>1. ver[r] \in [Vectors -> Nat]
      BY DEF Inv, TypeOK, RankTypeOK
  <2>2. AtZero(todo[r], OpenSet(r), DirtySet(r), ver[r], q, H[pc[r]].d, H[pc[r]].w)
      BY <1>2, <1>3, StageHead
  <2>3. QED BY <1>3, <2>1, <2>2, ZeroStage
<1>5. todo' = [todo EXCEPT ![r] = c]
    BY DEF ZeroGuess, Continue
<1>6. /\ dirtybit' = [dirtybit EXCEPT ![r][v] = FALSE]
      /\ ver' = [ver EXCEPT ![r][v] = @ + 1]
      /\ halo' = [halo EXCEPT ![r][v] = [n \in Neighbors[r] |-> ver[r][v] + 1]]
      /\ UNCHANGED <<program, pc, in_transfer, network, history>>
    BY DEF ZeroGuess
<1>7. /\ DirtySet(r)' = D
      /\ \A s \in Ranks : s # r => dirtybit'[s] = dirtybit[s]
      /\ dirtybit' \in [Ranks -> [Vectors -> BOOLEAN]]
    BY <1>6, DirtyChanges DEF Inv, TypeOK
<1>8. /\ ver'[r] = W /\ ver' \in [Ranks -> [Vectors -> Nat]]
      /\ \A s \in Ranks : s # r => ver'[s] = ver[s]
      /\ \A u \in Vectors : u # v => ver'[r][u] = ver[r][u]
      /\ ver'[r][v] = ver[r][v] + 1 /\ ver[r][v] \in Nat
    BY <1>6 DEF Inv, TypeOK, RankTypeOK, Raise
<1>9. /\ DOMAIN halo' = Ranks
      /\ \A s \in Ranks : s # r => halo'[s] = halo[s]
      /\ halo'[r][v] = [n \in Neighbors[r] |-> ver[r][v] + 1]
      /\ \A u \in Vectors : u # v => halo'[r][u] = halo[r][u]
      /\ \A s \in Ranks : halo'[s] \in [Vectors -> [Neighbors[s] -> Nat]]
  <2>1. DOMAIN halo = Ranks /\ halo[r] \in [Vectors -> [Neighbors[r] -> Nat]]
      BY DEF Inv, TypeOK, RankTypeOK
  <2>2. /\ DOMAIN halo' = Ranks
        /\ \A s \in Ranks : s # r => halo'[s] = halo[s]
        /\ halo'[r] = [halo[r] EXCEPT ![v] = [n \in Neighbors[r] |-> ver[r][v] + 1]]
      BY <1>6, <2>1
  <2>3. /\ halo'[r][v] = [n \in Neighbors[r] |-> ver[r][v] + 1]
        /\ \A u \in Vectors : u # v => halo'[r][u] = halo[r][u]
      BY <2>1, <2>2
  <2>4. [n \in Neighbors[r] |-> ver[r][v] + 1] \in [Neighbors[r] -> Nat]
      BY <1>8
  <2>5. halo'[r] \in [Vectors -> [Neighbors[r] -> Nat]]
      BY <2>1, <2>2, <2>4
  <2>6. QED BY <2>2, <2>3, <2>5 DEF Inv, TypeOK, RankTypeOK
<1> HIDE DEF c, D, W
<1>10. RankTypeOK'
  <2>1. DOMAIN todo' = Ranks
      BY <1>5 DEF Inv, TypeOK, RankTypeOK
  <2>2. QED BY <1>6, <1>7, <1>8, <1>9, <2>1 DEF Inv, TypeOK, RankTypeOK
<1>11. todo'[r] = c
    BY <1>5 DEF Inv, TypeOK, RankTypeOK
<1>12. DataOK(r)'
  <2>1. Quiet(r)'
      BY <1>4, <1>11, QuietAfter
  <2>2. /\ \A u \in Vectors : ver[r][u] >= 1
        /\ \A u \in Vectors : u \notin DirtySet(r) => Current(r, u)
      BY <1>1, <1>3, Before, DataNow DEF Inv
  <2>3. OpenSet(r)' = {}
      BY <1>4, <1>6 DEF OpenSet, Open
  <2>4. \A u \in Vectors : ver'[r][u] >= 1
      BY <1>8, <2>2
  <2>5. ASSUME NEW u \in Vectors, u \notin D
        PROVE  Current(r, u)'
    <3>1. CASE u = v
        BY <1>8, <1>9, <3>1 DEF Current
    <3>2. CASE u # v
      <4>1. Current(r, u)
          BY <2>2, <2>5, <3>2 DEF D
      <4>2. QED BY <1>8, <1>9, <3>2, <4>1 DEF Current
    <3>3. QED BY <3>1, <3>2
  <2>6. QED BY <1>7, <2>1, <2>3, <2>4, <2>5, DataThen
<1>13. Stage(c, OpenSet(r), D, W, q, H[pc[r]].d, H[pc[r]].w, r)
    BY <1>4 DEF Stage
<1>14. /\ UNCHANGED <<program, pc, in_transfer, network, history>>
       /\ \A s \in Ranks : s # r => ver'[s] = ver[s] /\ halo'[s] = halo[s]
    BY <1>6, <1>8, <1>9
<1>15. QED BY <1>1, <1>2, <1>5, <1>7, <1>8, <1>10, <1>12, <1>13, <1>14, LocalStep DEF Inv

-----------------------------------------------------------------------------
(* The steps that begin a transfer. *)

PostBy(r, v, kind, data) ==
    IF kind = "rank" THEN PostByRank(r, v, data) ELSE PostByTag(r, v, data)

LEMMA PostStep ==
    ASSUME NetTypeOK, NEW r \in Ranks, NEW v \in Vectors, NEW data \in Nat,
           NEW kind \in {"rank", "tag"}, PostBy(r, v, kind, data),
           NEW T, NEW E, NEW N, NEW a, NEW b, Listed(T, E), Net(T, E, N, a, b),
           v \notin OpenSet(r), NEW n \in Nat, n = N[r], n < Len(T),
           T[n + 1] = Tr(v, kind, data)
    PROVE  /\ NetTypeOK'
           /\ \E N2, a2, b2 : /\ Net(T, E, N2, a2, b2)' /\ N2[r] = n + 1
                              /\ \A s \in Ranks : s # r => N2[s] = N[s]
<1> DEFINE t == Tr(v, kind, data)
           sendTag == TagOf(t, r)
           recvTags == [s \in Neighbors[r] |-> TagOf(t, s)]
<1>1. /\ t.vec = v /\ t.val = data
      /\ \A s : TagOf(t, s) = IF kind = "rank" THEN s ELSE Tag[v]
    BY DEF Tr, TagOf
<1>2. /\ r \in Nat /\ Neighbors[r] \subseteq Nat /\ Tag[v] \in Nat
    BY HaloAssumption
<1>3. \A s \in Ranks : TagOf(t, s) \in Nat
  <2>1. \A s \in Ranks : s \in Nat
      BY HaloAssumption
  <2> HIDE DEF t
  <2>2. QED BY <1>1, <1>2, <2>1
<1>4. sendTag \in Nat /\ recvTags \in [Neighbors[r] -> Nat]
  <2>1. Neighbors[r] \subseteq Ranks
      BY HaloAssumption
  <2> HIDE DEF t
  <2>2. QED BY <1>3, <2>1
<1> HIDE DEF t
<1>5. Post(r, v, data, sendTag, recvTags)
  <2>1. CASE kind = "rank"
    <3>1. sendTag = r /\ recvTags = [s \in Neighbors[r] |-> s]
        BY <1>1, <2>1
    <3> HIDE DEF sendTag, recvTags
    <3>2. QED BY <2>1, <3>1 DEF PostBy, PostByRank
  <2>2. CASE kind = "tag"
    <3>1. sendTag = Tag[v] /\ recvTags = [s \in Neighbors[r] |-> Tag[v]]
        BY <1>1, <2>2
    <3> HIDE DEF sendTag, recvTags
    <3>2. QED BY <2>2, <3>1 DEF PostBy, PostByTag
  <2>3. QED BY <2>1, <2>2
<1>6. /\ sendTag = TagOf(t, r) /\ \A s \in Neighbors[r] : recvTags[s] = TagOf(t, s)
    OBVIOUS
<1> HIDE DEF sendTag, recvTags
<1>7. NetTypeOK'
    BY <1>4, <1>5, PostTypes
<1>8. ~Open(r, v) /\ T[n + 1] = t
    BY DEF OpenSet, t
<1>9. \E N2, a2, b2 : /\ Net(T, E, N2, a2, b2)' /\ N2[r] = n + 1
                      /\ \A s \in Ranks : s # r => N2[s] = N[s]
  <2>1. t.vec = v /\ t.val = data
      BY <1>1
  <2>2. T[n + 1] = t /\ ~Open(r, v)
      BY <1>8
  <2>3. QED BY <1>4, <1>5, <1>6, <2>1, <2>2, NetPost
<1>10. QED BY <1>7, <1>9

LEMMA BeginTransfer ==
    ASSUME TypeOK, NEW T, NEW E, NEW H, NEW N, NEW a, NEW b,
           Good(T, E, H, N, a, b), NEW r \in Ranks, NEW v \in Vectors,
           NEW data \in Nat, NEW kind \in {"rank", "tag"}, PostBy(r, v, kind, data),
           v \notin OpenSet(r), UNCHANGED <<program, pc, dirtybit, ver>>,
           NEW c, todo' = [todo EXCEPT ![r] = c], RankTypeOK',
           \A s \in Ranks : s # r => halo'[s] = halo[s],
           NEW q, Scheduled(q, N[r], H[pc[r]].n, T),
           NEW q2 \in Seq(Transfer), q = <<Tr(v, kind, data)>> \o q2,
           Stage(c, OpenSet(r) \cup {v}, DirtySet(r), ver[r], q2,
                 H[pc[r]].d, H[pc[r]].w, r),
           DataOK(r)'
    PROVE  Inv'
<1> DEFINE n == N[r]
           t == Tr(v, kind, data)
<1>1. n \in Nat /\ T \in Seq(Transfer) /\ H[pc[r]].n \in Nat
    BY InBounds
<1>2. t \in Transfer
    BY DEF Tr, Transfer
<1>3. n < Len(T) /\ T[n + 1] = t /\ Scheduled(q2, n + 1, H[pc[r]].n, T)
  <2> DEFINE m == H[pc[r]].n
  <2>1. n \in Nat /\ m \in Nat /\ q = <<t>> \o q2 /\ Scheduled(q, n, m, T)
      BY <1>1
  <2> HIDE DEF n, m, t
  <2>2. n < Len(T) /\ T[n + 1] = t /\ Scheduled(q2, n + 1, m, T)
      BY <1>1, <1>2, <2>1, NextTransfer
  <2>3. QED BY <2>2 DEF m
<1>4. NetTypeOK /\ Listed(T, E) /\ Net(T, E, N, a, b)
    BY DEF Good, TypeOK
<1> HIDE DEF n
<1>5. /\ NetTypeOK'
      /\ \E N2, a2, b2 : /\ Net(T, E, N2, a2, b2)' /\ N2[r] = n + 1
                         /\ \A s \in Ranks : s # r => N2[s] = N[s]
    BY <1>1, <1>3, <1>4, PostStep DEF n
<1>6. PICK N2, a2, b2 : /\ Net(T, E, N2, a2, b2)' /\ N2[r] = n + 1
                        /\ \A s \in Ranks : s # r => N2[s] = N[s]
    BY <1>5
<1>7. /\ OpenSet(r)' = OpenSet(r) \cup {v}
      /\ \A s \in Ranks : s # r => OpenSet(s)' = OpenSet(s)
      /\ \A s \in Ranks, u \in Vectors : s # r => sendBuffer'[s][u] = sendBuffer[s][u]
    BY <1>4, PostFacts DEF PostBy, PostByRank, PostByTag
<1>8. todo'[r] = c /\ \A s \in Ranks : s # r => todo'[s] = todo[s]
    BY DEF TypeOK, RankTypeOK
<1>9. Others(r)
    BY <1>7, <1>8 DEF Others
<1>10. DirtySet(r)' = DirtySet(r) /\ ver'[r] = ver[r] /\ pc'[r] = pc[r]
    BY DEF DirtySet
<1>11. RankOK(r, T, H, N2[r])'
  <2>1. Scheduled(q2, N2[r], H[pc[r]].n, T)
      BY <1>3, <1>6
  <2>2. QED BY <1>7, <1>8, <1>10, <2>1, RankMoves
<1>12. TypeOK' /\ program' = program
    BY <1>5 DEF TypeOK
<1>13. QED BY <1>6, <1>9, <1>11, <1>12, Combine

\* The steps that send the rank's own rows.
LEMMA SendRows ==
    ASSUME TypeOK, NEW T, NEW E, NEW H, NEW N, NEW a, NEW b,
           Good(T, E, H, N, a, b), NEW r \in Ranks, NEW v \in Vectors, Quiet(r),
           NEW kind \in {"rank", "tag"}, PostBy(r, v, kind, ver[r][v]),
           v \notin OpenSet(r), UNCHANGED <<program, pc, dirtybit, ver, halo>>,
           NEW c, todo' = [todo EXCEPT ![r] = c],
           NEW q, Scheduled(q, N[r], H[pc[r]].n, T),
           NEW q2 \in Seq(Transfer), q = <<Tr(v, kind, ver[r][v])>> \o q2,
           Calm(c, OpenSet(r) \cup {v}, DirtySet(r), ver[r], q2,
                H[pc[r]].d, H[pc[r]].w, r)
    PROVE  Inv'
<1>1. RankTypeOK'
    BY OnlyTodo
<1>2. ver[r][v] \in Nat
    BY DEF TypeOK, RankTypeOK
<1>3. /\ OpenSet(r)' = OpenSet(r) \cup {v} /\ sendBuffer'[r][v] = ver[r][v]
      /\ \A u \in Vectors : u # v => sendBuffer'[r][u] = sendBuffer[r][u]
    BY PostFacts DEF PostBy, PostByRank, PostByTag, TypeOK
<1>4. DirtySet(r)' = DirtySet(r)
    BY DEF DirtySet
<1>5. todo'[r] = c
    BY DEF TypeOK, RankTypeOK
<1>6. Quiet(r)'
    BY <1>5, QuietAfter
<1>7. /\ \A u \in Vectors : ver[r][u] >= 1
      /\ \A u \in Vectors : u \in OpenSet(r) => sendBuffer[r][u] = ver[r][u]
      /\ \A u \in Vectors : u \notin DirtySet(r) => Current(r, u)
    BY Before, DataNow
<1>8. \A u : Current(r, u) => Current(r, u)'
    BY DEF Current
<1>9. \A u \in Vectors : u \in OpenSet(r)' => sendBuffer'[r][u] = ver'[r][u]
    BY <1>3, <1>7
<1>10. DataOK(r)'
    BY <1>4, <1>6, <1>7, <1>8, <1>9, DataThen
<1>11. Stage(c, OpenSet(r) \cup {v}, DirtySet(r), ver[r], q2,
             H[pc[r]].d, H[pc[r]].w, r)
    BY DEF Stage
<1>12. UNCHANGED <<program, pc, dirtybit, ver>> /\ halo' = halo
    OBVIOUS
<1>13. QED BY <1>1, <1>2, <1>10, <1>11, <1>12, BeginTransfer

\* A single transfer, and none after it.
LEMMA Single ==
    ASSUME NEW t \in Transfer, NEW q, q = <<t>>
    PROVE  << >> \in Seq(Transfer) /\ q = <<t>> \o << >>
    OBVIOUS

LEMMA ProductBegins ==
    ASSUME NEW c, NEW O, NEW D, NEW W, NEW q, NEW D1, NEW W1, NEW r, NEW v \in Vectors,
           AtProduct(c, O, D, W, q, D1, W1), Head(c) = <<"spmv", v>>, v \in D
    PROVE  /\ O = {} /\ q = <<Tr(v, ProductKind, W[v])>>
           /\ Calm(<< <<"finish", v>> >> \o Tail(c), O \cup {v}, D, W, << >>, D1, W1, r)
<1>1. O = {} /\ Calm(<< <<"finish", v>> >> \o Tail(c), O \cup {v}, D, W, << >>, D1, W1, r)
    BY ProductStage
<1>2. PICK u \in Vectors, b \in Vectors :
        /\ c = << <<"spmv", u>>, <<"read", u>>, <<"write", b>> >>
        /\ q = IfDirty(D, Tr(u, ProductKind, W[u]))
    BY DEF AtProduct
<1>3. Head(c) = <<"spmv", u>>
    BY <1>2, Tails
<1>4. u = v
    BY <1>3
<1>5. q = <<Tr(v, ProductKind, W[v])>>
    BY <1>2, <1>4 DEF IfDirty, Tr
<1>6. QED BY <1>1, <1>5

LEMMA AsyncBegins ==
    ASSUME NEW c, NEW O, NEW D, NEW W, NEW q, NEW D1, NEW W1, NEW r, NEW v \in Vectors,
           Head(c) = <<"async", v>>, v \in D,
           AtAsync1(c, O, D, W, q, D1, W1) \/ AtAsync2(c, O, D, W, q, D1, W1, r)
    PROVE  /\ v \notin O /\ q = <<Tr(v, "tag", W[v])>> \o Tail(q)
           /\ r \in BigRanks =>
                Calm(<< >> \o Tail(c), O \cup {v}, D, W, Tail(q), D1, W1, r)
           /\ r \notin BigRanks =>
                Calm(<< <<"finish", v>> >> \o Tail(c), O \cup {v}, D, W, Tail(q),
                     D1, W1, r)
<1>1. CASE AtAsync1(c, O, D, W, q, D1, W1)
    BY <1>1, AsyncStage1
<1>2. CASE AtAsync2(c, O, D, W, q, D1, W1, r)
  <2> DEFINE t == Tr(v, "tag", W[v])
  <2>1. /\ v \notin O /\ q = <<t>>
        /\ r \in BigRanks =>
             Calm(<< >> \o Tail(c), O \cup {v}, D, W, << >>, D1, W1, r)
        /\ r \notin BigRanks =>
             Calm(<< <<"finish", v>> >> \o Tail(c), O \cup {v}, D, W, << >>, D1, W1, r)
      BY <1>2, AsyncStage2
  <2> HIDE DEF t
  <2>2. Tail(q) = << >>
      BY <2>1, Tails
  <2>3. q = <<t>> \o << >>
      BY <2>1
  <2>4. QED BY <2>1, <2>2, <2>3 DEF t
<1>3. QED BY <1>1, <1>2

LEMMA StepExchangeHalo ==
    ASSUME Inv, NEW r \in Ranks, NEW v \in Vectors, ExchangeHalo(r, v)
    PROVE  Inv'
<1>1. PICK T, E, H, N, a, b : Good(T, E, H, N, a, b)
    BY DEF Inv
<1>2. PICK q : /\ Stage(todo[r], OpenSet(r), DirtySet(r), ver[r], q,
                        H[pc[r]].d, H[pc[r]].w, r)
               /\ Scheduled(q, N[r], H[pc[r]].n, T)
    BY <1>1, Before DEF Inv
<1> DEFINE c == << <<"finish", v>> >> \o Tail(todo[r])
           t == Tr(v, "rank", ver[r][v])
<1>3. /\ OpenSet(r) = {} /\ Quiet(r) /\ q = <<t>>
      /\ Calm(c, OpenSet(r) \cup {v}, DirtySet(r), ver[r], << >>,
              H[pc[r]].d, H[pc[r]].w, r)
  <2>1. CASE Doing(r, "exchange", v) /\ dirtybit[r][v]
    <3>1. todo[r] # << >> /\ Head(todo[r]) = <<"exchange", v>> /\ Quiet(r)
        BY <2>1, OneCallAtATime
    <3>2. AtExchange(todo[r], OpenSet(r), DirtySet(r), ver[r], q, H[pc[r]].d, H[pc[r]].w)
        BY <1>2, <3>1, StageHead
    <3>3. v \in DirtySet(r)
        BY <2>1 DEF DirtySet
    <3>4. v \in DirtySet(r) =>
            /\ OpenSet(r) = {} /\ q = <<t>>
            /\ Calm(c, OpenSet(r) \cup {v}, DirtySet(r), ver[r], << >>,
                    H[pc[r]].d, H[pc[r]].w, r)
        BY <3>1, <3>2, ExchangeStage
    <3>5. QED BY <3>1, <3>3, <3>4
  <2>2. CASE Doing(r, "ring2", v)
    <3>1. todo[r] # << >> /\ Head(todo[r]) = <<"ring2", v>> /\ Quiet(r)
        BY <2>2, OneCallAtATime
    <3>2. AtRing2(todo[r], OpenSet(r), DirtySet(r), ver[r], q, H[pc[r]].d, H[pc[r]].w)
        BY <1>2, <3>1, StageHead
    <3>3. QED BY <3>1, <3>2, Ring2Stage
  <2>3. QED BY <2>1, <2>2 DEF ExchangeHalo
<1>4. t \in Transfer
    BY DEF Inv, TypeOK, RankTypeOK, Tr, Transfer
<1> HIDE DEF t
<1>5. << >> \in Seq(Transfer) /\ q = <<t>> \o << >>
    BY <1>3, <1>4, Single
<1>6. PostBy(r, v, "rank", ver[r][v])
    BY DEF ExchangeHalo, PostBy
<1>7. todo' = [todo EXCEPT ![r] = c] /\ UNCHANGED <<program, pc, dirtybit, ver, halo>>
    BY DEF ExchangeHalo, Continue
<1> HIDE DEF c
<1>8. q = <<Tr(v, "rank", ver[r][v])>> \o << >> /\ v \notin OpenSet(r)
    BY <1>3, <1>5 DEF t
<1>9. QED BY <1>1, <1>2, <1>3, <1>5, <1>6, <1>7, <1>8, SendRows DEF Inv

LEMMA StepExchangeForProduct ==
    ASSUME Inv, NEW r \in Ranks, NEW v \in Vectors, ExchangeForProduct(r, v)
    PROVE  Inv'
<1>1. PICK T, E, H, N, a, b : Good(T, E, H, N, a, b)
    BY DEF Inv
<1>2. PICK q : /\ Stage(todo[r], OpenSet(r), DirtySet(r), ver[r], q,
                        H[pc[r]].d, H[pc[r]].w, r)
               /\ Scheduled(q, N[r], H[pc[r]].n, T)
    BY <1>1, Before DEF Inv
<1> DEFINE c == << <<"finish", v>> >> \o Tail(todo[r])
           kind == ProductKind
           t == Tr(v, kind, ver[r][v])
<1>3. todo[r] # << >> /\ Head(todo[r]) = <<"spmv", v>> /\ Quiet(r)
    BY OneCallAtATime DEF ExchangeForProduct
<1>4. AtProduct(todo[r], OpenSet(r), DirtySet(r), ver[r], q, H[pc[r]].d, H[pc[r]].w)
    BY <1>2, <1>3, StageHead
<1>5. v \in DirtySet(r)
    BY DEF ExchangeForProduct, DirtySet
<1>6. /\ OpenSet(r) = {} /\ q = <<t>>
      /\ Calm(c, OpenSet(r) \cup {v}, DirtySet(r), ver[r], << >>,
              H[pc[r]].d, H[pc[r]].w, r)
  <2>1. PICK k, O, D, W, D1, W1 :
          /\ k = todo[r] /\ O = OpenSet(r) /\ D = DirtySet(r) /\ W = ver[r]
          /\ D1 = H[pc[r]].d /\ W1 = H[pc[r]].w
      OBVIOUS
  <2>2. AtProduct(k, O, D, W, q, D1, W1) /\ Head(k) = <<"spmv", v>> /\ v \in D
      BY <1>3, <1>4, <1>5, <2>1
  <2>3. /\ O = {} /\ q = <<Tr(v, ProductKind, W[v])>>
        /\ Calm(<< <<"finish", v>> >> \o Tail(k), O \cup {v}, D, W, << >>, D1, W1, r)
      BY <2>2, ProductBegins
  <2>4. QED BY <2>1, <2>3
<1>7. kind \in {"rank", "tag"} /\ PostBy(r, v, kind, ver[r][v])
    BY DEF ExchangeForProduct, PostBy, LatencyHiding, ProductKind
<1> HIDE DEF kind
<1>8. t \in Transfer
    BY <1>7 DEF Inv, TypeOK, RankTypeOK, Tr, Transfer
<1> HIDE DEF t
<1>9. << >> \in Seq(Transfer) /\ q = <<t>> \o << >>
    BY <1>6, <1>8, Single
<1>10. todo' = [todo EXCEPT ![r] = c] /\ UNCHANGED <<program, pc, dirtybit, ver, halo>>
    BY DEF ExchangeForProduct, Continue
<1> HIDE DEF c
<1>11. q = <<Tr(v, kind, ver[r][v])>> \o << >> /\ v \notin OpenSet(r)
    BY <1>6, <1>9 DEF t
<1>12. QED BY <1>1, <1>2, <1>3, <1>6, <1>7, <1>9, <1>10, <1>11, SendRows DEF Inv

LEMMA StepExchangeAsync ==
    ASSUME Inv, NEW r \in Ranks, NEW v \in Vectors, ExchangeAsync(r, v)
    PROVE  Inv'
<1>1. PICK T, E, H, N, a, b : Good(T, E, H, N, a, b)
    BY DEF Inv
<1>2. PICK q : /\ Stage(todo[r], OpenSet(r), DirtySet(r), ver[r], q,
                        H[pc[r]].d, H[pc[r]].w, r)
               /\ Scheduled(q, N[r], H[pc[r]].n, T)
    BY <1>1, Before DEF Inv
<1> DEFINE c == (IF r \in BigRanks THEN << >> ELSE << <<"finish", v>> >>) \o Tail(todo[r])
           t == Tr(v, "tag", ver[r][v])
<1>3. todo[r] # << >> /\ Head(todo[r]) = <<"async", v>> /\ Quiet(r)
    BY OneCallAtATime DEF ExchangeAsync
<1>4. v \in DirtySet(r)
    BY DEF ExchangeAsync, DirtySet
<1>5. /\ r \in BigRanks => c = << >> \o Tail(todo[r])
      /\ r \notin BigRanks => c = << <<"finish", v>> >> \o Tail(todo[r])
    OBVIOUS
<1>6. t \in Transfer /\ ver[r] \in [Vectors -> Nat]
    BY DEF Inv, TypeOK, RankTypeOK, Tr, Transfer
<1> HIDE DEF c
<1>7. \/ AtAsync1(todo[r], OpenSet(r), DirtySet(r), ver[r], q, H[pc[r]].d, H[pc[r]].w)
      \/ AtAsync2(todo[r], OpenSet(r), DirtySet(r), ver[r], q, H[pc[r]].d, H[pc[r]].w, r)
    BY <1>2, <1>3, StageHead
<1>8. /\ v \notin OpenSet(r) /\ q = <<t>> \o Tail(q)
      /\ r \in BigRanks =>
           Calm(<< >> \o Tail(todo[r]), OpenSet(r) \cup {v}, DirtySet(r), ver[r], Tail(q),
                H[pc[r]].d, H[pc[r]].w, r)
      /\ r \notin BigRanks =>
           Calm(<< <<"finish", v>> >> \o Tail(todo[r]), OpenSet(r) \cup {v},
                DirtySet(r), ver[r], Tail(q), H[pc[r]].d, H[pc[r]].w, r)
  <2>1. PICK k, O, D, W, D1, W1 :
          /\ k = todo[r] /\ O = OpenSet(r) /\ D = DirtySet(r) /\ W = ver[r]
          /\ D1 = H[pc[r]].d /\ W1 = H[pc[r]].w
      OBVIOUS
  <2>2. AtAsync1(k, O, D, W, q, D1, W1) \/ AtAsync2(k, O, D, W, q, D1, W1, r)
      BY <1>7, <2>1
  <2>3. Head(k) = <<"async", v>> /\ v \in D
      BY <1>3, <1>4, <2>1
  <2>4. /\ v \notin O /\ q = <<Tr(v, "tag", W[v])>> \o Tail(q)
        /\ r \in BigRanks =>
             Calm(<< >> \o Tail(k), O \cup {v}, D, W, Tail(q), D1, W1, r)
        /\ r \notin BigRanks =>
             Calm(<< <<"finish", v>> >> \o Tail(k), O \cup {v}, D, W, Tail(q), D1, W1, r)
      BY <2>2, <2>3, AsyncBegins
  <2>5. QED BY <2>1, <2>4
<1>9. Calm(c, OpenSet(r) \cup {v}, DirtySet(r), ver[r], Tail(q), H[pc[r]].d, H[pc[r]].w, r)
    BY <1>5, <1>8
<1>10. PostBy(r, v, "tag", ver[r][v])
    BY DEF ExchangeAsync, PostBy
<1>11. todo' = [todo EXCEPT ![r] = c] /\ UNCHANGED <<program, pc, dirtybit, ver, halo>>
    BY DEF ExchangeAsync, Continue, c
<1>12. Tail(q) \in Seq(Transfer)
  <2>1. q \in Seq(Transfer) /\ q = <<t>> \o Tail(q)
      BY <1>2, <1>8 DEF Scheduled
  <2> HIDE DEF t
  <2>2. q # << >>
      BY <2>1
  <2>3. QED BY <2>1, <2>2
<1>13. QED BY <1>1, <1>2, <1>3, <1>8, <1>9, <1>10, <1>11, <1>12, SendRows DEF Inv

LEMMA StepFoldHalo ==
    ASSUME Inv, NEW r \in Ranks, NEW v \in Vectors, FoldHalo(r, v)
    PROVE  Inv'
<1>1. PICK T, E, H, N, a, b : Good(T, E, H, N, a, b)
    BY DEF Inv
<1>2. PICK q : /\ Stage(todo[r], OpenSet(r), DirtySet(r), ver[r], q,
                        H[pc[r]].d, H[pc[r]].w, r)
               /\ Scheduled(q, N[r], H[pc[r]].n, T)
    BY <1>1, Before DEF Inv
<1> DEFINE c == << <<"scatter", v>> >> \o Tail(todo[r])
           data == ver[r][v] + 1
           t == Tr(v, "rank", data)
<1>3. todo[r] # << >> /\ Head(todo[r]) = <<"fold", v>> /\ Quiet(r)
    BY OneCallAtATime DEF FoldHalo
<1>4. AtFold(todo[r], OpenSet(r), DirtySet(r), ver[r], q, H[pc[r]].d, H[pc[r]].w)
    BY <1>2, <1>3, StageHead
<1>5. /\ OpenSet(r) = {} /\ q = <<t>>
      /\ Stage(c, OpenSet(r) \cup {v}, DirtySet(r), ver[r], << >>,
               H[pc[r]].d, H[pc[r]].w, r)
    BY <1>3, <1>4, FoldStage
<1>6. data \in Nat /\ t \in Transfer
    BY DEF Inv, TypeOK, RankTypeOK, Tr, Transfer
<1>7. c # << >> /\ Head(c) = <<"scatter", v>>
    BY <1>2, <1>3, <1>4, Tails, OneCall DEF AtFold
<1>8. /\ PostBy(r, v, "rank", data) /\ todo' = [todo EXCEPT ![r] = c]
      /\ halo' = [halo EXCEPT ![r][v] = [n \in Neighbors[r] |-> 0]]
      /\ UNCHANGED <<program, pc, dirtybit, ver>>
    BY DEF FoldHalo, PostBy, Continue
<1> HIDE DEF c, t
<1>9. << >> \in Seq(Transfer) /\ q = <<t>> \o << >>
    BY <1>5, <1>6, Single
<1>10. q = <<Tr(v, "rank", data)>> \o << >> /\ v \notin OpenSet(r)
    BY <1>5, <1>9 DEF t
<1>11. /\ DOMAIN halo' = Ranks
       /\ \A s \in Ranks : s # r => halo'[s] = halo[s]
       /\ \A u \in Vectors : u # v => halo'[r][u] = halo[r][u]
       /\ \A s \in Ranks : halo'[s] \in [Vectors -> [Neighbors[s] -> Nat]]
  <2>1. DOMAIN halo = Ranks /\ halo[r] \in [Vectors -> [Neighbors[r] -> Nat]]
      BY DEF Inv, TypeOK, RankTypeOK
  <2>2. /\ DOMAIN halo' = Ranks
        /\ \A s \in Ranks : s # r => halo'[s] = halo[s]
        /\ halo'[r] = [halo[r] EXCEPT ![v] = [n \in Neighbors[r] |-> 0]]
      BY <1>8, <2>1
  <2>3. \A u \in Vectors : u # v => halo'[r][u] = halo[r][u]
      BY <2>1, <2>2
  <2>4. [n \in Neighbors[r] |-> 0] \in [Neighbors[r] -> Nat]
      OBVIOUS
  <2>5. halo'[r] \in [Vectors -> [Neighbors[r] -> Nat]]
      BY <2>1, <2>2, <2>4
  <2>6. QED BY <2>2, <2>3, <2>5 DEF Inv, TypeOK, RankTypeOK
<1>12. RankTypeOK'
  <2>1. DOMAIN todo' = Ranks
      BY <1>8 DEF Inv, TypeOK, RankTypeOK
  <2>2. QED BY <1>8, <1>11, <2>1 DEF Inv, TypeOK, RankTypeOK
<1>13. todo'[r] = c
    BY <1>8 DEF Inv, TypeOK, RankTypeOK
<1>14. DataOK(r)'
  <2>1. /\ \A u \in Vectors : ver[r][u] >= 1
        /\ \A u \in Vectors : u \notin DirtySet(r) => Current(r, u)
      BY <1>1, <1>3, Before, DataNow DEF Inv
  <2>2. /\ OpenSet(r)' = {v} /\ sendBuffer'[r][v] = data
      BY <1>5, <1>8, PostFacts DEF PostBy, PostByRank, Inv, TypeOK
  <2>3. \A f, u : Doing(r, f, u)' <=> f = "scatter" /\ u = v
    <3>1. ASSUME NEW f, NEW u
          PROVE  <<f, u>> = <<"scatter", v>> <=> f = "scatter" /\ u = v
        OBVIOUS
    <3>2. QED BY <1>7, <1>13, <3>1 DEF Doing
  <2>4. Sending(r)'
    <3>1. ASSUME NEW u \in Vectors, Open(r, u)'
          PROVE  sendBuffer'[r][u] = IF Doing(r, "scatter", u)'
                                     THEN ver'[r][u] + 1 ELSE ver'[r][u]
      <4>1. u = v
          BY <2>2, <3>1 DEF OpenSet
      <4>2. QED BY <1>8, <2>2, <2>3, <4>1
    <3>2. QED BY <3>1 DEF Sending
  <2>5. CleanIsCurrent(r)'
    <3>1. DirtySet(r)' = DirtySet(r)
        BY <1>8 DEF DirtySet
    <3>2. ASSUME NEW u \in Vectors, u \notin DirtySet(r), u # v
          PROVE  Current(r, u)'
      <4>1. Current(r, u)
          BY <2>1, <3>2
      <4>2. QED BY <1>8, <1>11, <3>2, <4>1 DEF Current
    <3>3. QED BY <2>3, <3>1, <3>2 DEF CleanIsCurrent
  <2>6. QED BY <1>8, <2>1, <2>4, <2>5 DEF DataOK
<1> HIDE DEF data
<1>15. /\ PostBy(r, v, "rank", data) /\ todo' = [todo EXCEPT ![r] = c]
       /\ UNCHANGED <<program, pc, dirtybit, ver>>
       /\ \A s \in Ranks : s # r => halo'[s] = halo[s]
    BY <1>8, <1>11
<1>16. << >> \in Seq(Transfer) /\ TypeOK
    BY <1>9 DEF Inv
<1>17. Stage(c, OpenSet(r) \cup {v}, DirtySet(r), ver[r], << >>,
             H[pc[r]].d, H[pc[r]].w, r)
    BY <1>5
<1>18. data \in Nat /\ Scheduled(q, N[r], H[pc[r]].n, T)
    BY <1>2, <1>6
<1>19. QED BY <1>1, <1>10, <1>12, <1>14, <1>15, <1>16, <1>17, <1>18, BeginTransfer

-----------------------------------------------------------------------------
(* The steps that end a transfer. *)

LEMMA EndStep ==
    ASSUME TypeOK, NEW T, NEW E, NEW H, NEW N, NEW a, NEW b,
           Good(T, E, H, N, a, b), NEW r \in Ranks, NEW v \in Vectors,
           EndTransfer(r, v), v \in OpenSet(r), UNCHANGED <<program, pc>>,
           NEW c, todo' = [todo EXCEPT ![r] = c], RankTypeOK',
           \A s \in Ranks : s # r => ver'[s] = ver[s] /\ halo'[s] = halo[s],
           NEW W, NEW q, ver'[r] = W, Scheduled(q, N[r], H[pc[r]].n, T),
           Stage(c, OpenSet(r) \ {v}, DirtySet(r) \ {v}, W, q,
                 H[pc[r]].d, H[pc[r]].w, r),
           DataOK(r)'
    PROVE  Inv'
<1>1. NetTypeOK /\ Net(T, E, N, a, b) /\ Open(r, v)
    BY DEF Good, TypeOK, OpenSet
<1>2. Net(T, E, N, a, b)'
    BY <1>1, NetEnd
<1>3. /\ NetTypeOK' /\ OpenSet(r)' = OpenSet(r) \ {v}
      /\ \A s \in Ranks : s # r => OpenSet(s)' = OpenSet(s)
    BY <1>1, EndFacts
<1>4. /\ DirtySet(r)' = DirtySet(r) \ {v}
      /\ \A s \in Ranks : s # r => dirtybit'[s] = dirtybit[s]
    BY DirtyChanges DEF EndTransfer, TypeOK
<1>5. todo'[r] = c /\ \A s \in Ranks : s # r => todo'[s] = todo[s]
    BY DEF TypeOK, RankTypeOK
<1>6. sendBuffer' = sendBuffer /\ pc' = pc /\ program' = program
    BY DEF EndTransfer
<1>7. Others(r)
    BY <1>3, <1>4, <1>5, <1>6 DEF Others
<1>8. RankOK(r, T, H, N[r])'
    BY <1>3, <1>4, <1>5, <1>6, RankMoves
<1>9. TypeOK'
    BY <1>3 DEF TypeOK
<1>10. QED BY <1>2, <1>6, <1>7, <1>8, <1>9, Combine

\* Everything the rank receives is what it sends itself.
LEMMA AllReceived ==
    ASSUME TypeOK, NEW T, NEW E, NEW H, NEW N, NEW a, NEW b,
           Good(T, E, H, N, a, b), NEW r \in Ranks, NEW v \in Vectors,
           EndTransfer(r, v), v \in OpenSet(r)
    PROVE  \A n \in Neighbors[r] : recvBuffer[r][v][n] = sendBuffer[r][v]
<1>1. /\ NetTypeOK /\ Listed(T, E) /\ Net(T, E, N, a, b) /\ Open(r, v)
    BY DEF Good, TypeOK, OpenSet
<1>2. QED BY <1>1, EndArrived

LEMMA StepFinishExchange ==
    ASSUME Inv, NEW r \in Ranks, NEW v \in Vectors, FinishExchange(r, v)
    PROVE  Inv'
<1>1. PICK T, E, H, N, a, b : Good(T, E, H, N, a, b)
    BY DEF Inv
<1>2. PICK q : /\ Stage(todo[r], OpenSet(r), DirtySet(r), ver[r], q,
                        H[pc[r]].d, H[pc[r]].w, r)
               /\ Scheduled(q, N[r], H[pc[r]].n, T)
    BY <1>1, Before DEF Inv
<1> DEFINE c == << >> \o Tail(todo[r])
           D == DirtySet(r) \ {v}
<1>3. /\ v \in OpenSet(r) /\ Quiet(r)
      /\ Calm(c, OpenSet(r) \ {v}, D, ver[r], q, H[pc[r]].d, H[pc[r]].w, r)
  <2>1. CASE Doing(r, "finish", v)
    <3>1. todo[r] # << >> /\ Head(todo[r]) = <<"finish", v>> /\ Quiet(r)
        BY <2>1, OneCallAtATime
    <3>2. AtFinish(todo[r], OpenSet(r), DirtySet(r), ver[r], q, H[pc[r]].d, H[pc[r]].w, r)
        BY <1>2, <3>1, StageHead
    <3>3. OpenSet(r) = {v}
      <4>1. PICK k, O, D0, W, D1, W1 :
              /\ k = todo[r] /\ O = OpenSet(r) /\ D0 = DirtySet(r) /\ W = ver[r]
              /\ D1 = H[pc[r]].d /\ W1 = H[pc[r]].w
          OBVIOUS
      <4>2. AtFinish(k, O, D0, W, q, D1, W1, r) /\ Head(k) = <<"finish", v>>
          BY <3>1, <3>2, <4>1
      <4>3. O = {v}
          BY <4>2, FinishStage
      <4>4. QED BY <4>1, <4>3
    <3>4. Calm(c, OpenSet(r) \ {v}, D, ver[r], q, H[pc[r]].d, H[pc[r]].w, r)
        BY <3>1, <3>2, FinishStage
    <3>5. QED BY <3>1, <3>3, <3>4
  <2>2. CASE Doing(r, "wait", v) /\ (in_transfer[r][v] # "IDLE" \/ dirtybit[r][v])
    <3>1. todo[r] # << >> /\ Head(todo[r]) = <<"wait", v>> /\ Quiet(r)
        BY <2>2, OneCallAtATime
    <3>2. AtWait(todo[r], OpenSet(r), DirtySet(r), ver[r], q, H[pc[r]].d, H[pc[r]].w, r)
        BY <1>2, <3>1, StageHead
    <3>3. v \in OpenSet(r) <=> v \in DirtySet(r)
      <4>1. PICK k, O, D0, W, D1, W1 :
              /\ k = todo[r] /\ O = OpenSet(r) /\ D0 = DirtySet(r) /\ W = ver[r]
              /\ D1 = H[pc[r]].d /\ W1 = H[pc[r]].w
          OBVIOUS
      <4>2. AtWait(k, O, D0, W, q, D1, W1, r) /\ Head(k) = <<"wait", v>>
          BY <3>1, <3>2, <4>1
      <4>3. v \in O <=> v \in D0
          BY <4>2, WaitStage
      <4>4. QED BY <4>1, <4>3
    <3>4. Calm(c, OpenSet(r) \ {v}, D, ver[r], q, H[pc[r]].d, H[pc[r]].w, r)
        BY <3>1, <3>2, WaitStage
    <3>5. in_transfer[r][v] \in {"IDLE", "BOTH"}
        BY DEF Inv, TypeOK, NetTypeOK
    <3>6. v \in OpenSet(r)
        BY <2>2, <3>3, <3>5 DEF OpenSet, DirtySet, Open
    <3>7. QED BY <3>1, <3>4, <3>6
  <2>3. QED BY <2>1, <2>2 DEF FinishExchange
<1>4. /\ EndTransfer(r, v) /\ todo' = [todo EXCEPT ![r] = c]
      /\ halo' = [halo EXCEPT ![r][v] = recvBuffer[r][v]]
      /\ program' = program /\ pc' = pc /\ ver' = ver
    BY DEF FinishExchange, Continue
<1>5. \A n \in Neighbors[r] : recvBuffer[r][v][n] = sendBuffer[r][v]
    BY <1>1, <1>3, <1>4, AllReceived DEF Inv
<1>6. /\ DirtySet(r)' = D /\ dirtybit' \in [Ranks -> [Vectors -> BOOLEAN]]
    BY <1>4, DirtyChanges DEF EndTransfer, Inv, TypeOK
<1>7. OpenSet(r)' = OpenSet(r) \ {v} /\ sendBuffer' = sendBuffer
    BY <1>4, EndFacts DEF EndTransfer, Inv, TypeOK
<1> HIDE DEF c, D
<1>8. /\ DOMAIN halo' = Ranks /\ halo'[r][v] = recvBuffer[r][v]
      /\ \A s \in Ranks : s # r => halo'[s] = halo[s]
      /\ \A u \in Vectors : u # v => halo'[r][u] = halo[r][u]
      /\ \A s \in Ranks : halo'[s] \in [Vectors -> [Neighbors[s] -> Nat]]
  <2>1. /\ DOMAIN halo = Ranks /\ halo[r] \in [Vectors -> [Neighbors[r] -> Nat]]
        /\ recvBuffer[r] \in [Vectors -> [Neighbors[r] -> Nat]]
      BY DEF Inv, TypeOK, RankTypeOK, NetTypeOK
  <2>2. /\ DOMAIN halo' = Ranks
        /\ \A s \in Ranks : s # r => halo'[s] = halo[s]
        /\ halo'[r] = [halo[r] EXCEPT ![v] = recvBuffer[r][v]]
      BY <1>4, <2>1
  <2>3. /\ halo'[r][v] = recvBuffer[r][v]
        /\ \A u \in Vectors : u # v => halo'[r][u] = halo[r][u]
      BY <2>1, <2>2
  <2>4. halo'[r] \in [Vectors -> [Neighbors[r] -> Nat]]
      BY <2>1, <2>2
  <2>5. QED BY <2>2, <2>3, <2>4 DEF Inv, TypeOK, RankTypeOK
<1>9. RankTypeOK'
  <2>1. DOMAIN todo' = Ranks
      BY <1>4 DEF Inv, TypeOK, RankTypeOK
  <2>2. QED BY <1>4, <1>6, <1>8, <2>1 DEF Inv, TypeOK, RankTypeOK
<1>10. todo'[r] = c
    BY <1>4 DEF Inv, TypeOK, RankTypeOK
<1>11. DataOK(r)'
  <2>1. Quiet(r)'
      BY <1>3, <1>10, QuietAfter
  <2>2. /\ \A u \in Vectors : ver[r][u] >= 1
        /\ \A u \in Vectors : u \in OpenSet(r) => sendBuffer[r][u] = ver[r][u]
        /\ \A u \in Vectors : u \notin DirtySet(r) => Current(r, u)
      BY <1>1, <1>3, Before, DataNow DEF Inv
  <2>3. \A u \in Vectors : u \in OpenSet(r)' => sendBuffer'[r][u] = ver'[r][u]
      BY <1>4, <1>7, <2>2
  <2>4. ASSUME NEW u \in Vectors, u \notin D
        PROVE  Current(r, u)'
    <3>1. CASE u = v
      <4>1. sendBuffer[r][v] = ver[r][v] /\ ver[r][v] >= 1 /\ ver[r][v] \in Nat
          BY <1>3, <2>2 DEF Inv, TypeOK, RankTypeOK
      <4>2. ver[r][v] # 0
          BY <4>1
      <4>3. \A n \in Neighbors[r] : halo'[r][v][n] = ver'[r][v]
          BY <1>4, <1>5, <1>8, <4>1
      <4>4. QED BY <1>4, <3>1, <4>2, <4>3 DEF Current
    <3>2. CASE u # v
      <4>1. Current(r, u)
          BY <2>2, <2>4, <3>2 DEF D
      <4>2. QED BY <1>4, <1>8, <3>2, <4>1 DEF Current
    <3>3. QED BY <3>1, <3>2
  <2>5. QED BY <1>4, <1>6, <2>1, <2>2, <2>3, <2>4, DataThen
<1>12. Stage(c, OpenSet(r) \ {v}, DirtySet(r) \ {v}, ver[r], q, H[pc[r]].d, H[pc[r]].w, r)
    BY <1>3 DEF Stage, D
<1>13. /\ UNCHANGED <<program, pc>> /\ ver'[r] = ver[r]
       /\ \A s \in Ranks : s # r => ver'[s] = ver[s] /\ halo'[s] = halo[s]
    BY <1>4, <1>8
<1>14. TypeOK /\ EndTransfer(r, v) /\ todo' = [todo EXCEPT ![r] = c] /\ v \in OpenSet(r)
    BY <1>3, <1>4 DEF Inv
<1>15. QED BY <1>1, <1>2, <1>9, <1>11, <1>12, <1>13, <1>14, EndStep

LEMMA StepScatterFold ==
    ASSUME Inv, NEW r \in Ranks, NEW v \in Vectors, ScatterFold(r, v)
    PROVE  Inv'
<1>1. PICK T, E, H, N, a, b : Good(T, E, H, N, a, b)
    BY DEF Inv
<1>2. PICK q : /\ Stage(todo[r], OpenSet(r), DirtySet(r), ver[r], q,
                        H[pc[r]].d, H[pc[r]].w, r)
               /\ Scheduled(q, N[r], H[pc[r]].n, T)
    BY <1>1, Before DEF Inv
<1>3. /\ todo[r] # << >> /\ Head(todo[r]) = <<"scatter", v>> /\ Doing(r, "scatter", v)
      /\ \A g, u : Doing(r, g, u) <=> g = "scatter" /\ u = v
    BY OneCallAtATime DEF ScatterFold
<1> DEFINE c == << >> \o Tail(todo[r])
           D == DirtySet(r) \ {v}
           W == Raise(ver[r], v)
<1>4. /\ OpenSet(r) = {v} /\ Tail(todo[r]) = << <<"dirty", v>> >>
      /\ Stage(c, OpenSet(r) \ {v}, D, W, q, H[pc[r]].d, H[pc[r]].w, r)
  <2>1. PICK k, O, D0, W0, D1, W1 :
          /\ k = todo[r] /\ O = OpenSet(r) /\ D0 = DirtySet(r) /\ W0 = ver[r]
          /\ D1 = H[pc[r]].d /\ W1 = H[pc[r]].w
      OBVIOUS
  <2>2. Stage(k, O, D0, W0, q, D1, W1, r) /\ k # << >> /\ Head(k) = <<"scatter", v>>
      BY <1>2, <1>3, <2>1
  <2>3. AtScatter(k, O, D0, W0, q, D1, W1)
      BY <2>2, StageHead
  <2>4. Head(k) = <<"scatter", v>>
      BY <2>2
  <2>5. O = {v} /\ Tail(k) = << <<"dirty", v>> >>
      BY <2>4, <2>3, ScatterTail
  <2>6. Stage(<< >> \o Tail(k), O \ {v}, D0 \ {v}, Raise(W0, v), q, D1, W1, r)
      BY <2>2, <2>3, ScatterStage
  <2>7. QED BY <2>1, <2>5, <2>6
<1>5. OpenSet(r) = {v} /\ Tail(todo[r]) = << <<"dirty", v>> >>
    BY <1>4
<1>6. Stage(c, OpenSet(r) \ {v}, D, W, q, H[pc[r]].d, H[pc[r]].w, r)
    BY <1>4
<1>7. c # << >> /\ Head(c) = <<"dirty", v>>
  <2>1. c = << <<"dirty", v>> >>
      BY <1>5, NoCalls
  <2> HIDE DEF c
  <2>2. QED BY <2>1
<1>8. /\ EndTransfer(r, v) /\ todo' = [todo EXCEPT ![r] = c]
      /\ ver' = [ver EXCEPT ![r][v] =
                  IF \A n \in Neighbors[r] : recvBuffer[r][v][n] = @ + 1
                  THEN @ + 1 ELSE 0]
      /\ program' = program /\ pc' = pc /\ halo' = halo
    BY DEF ScatterFold, Continue
<1>9. \A n \in Neighbors[r] : recvBuffer[r][v][n] = ver[r][v] + 1
  <2>1. \A n \in Neighbors[r] : recvBuffer[r][v][n] = sendBuffer[r][v]
      BY <1>1, <1>5, <1>8, AllReceived DEF Inv
  <2>2. sendBuffer[r][v] = ver[r][v] + 1
    <3>1. DataOK(r) /\ Open(r, v)
        BY <1>1, <1>5, Before DEF Inv, OpenSet
    <3>2. QED BY <1>3, <3>1 DEF DataOK, Sending
  <2>3. QED BY <2>1, <2>2
<1>10. ver' = [ver EXCEPT ![r][v] = ver[r][v] + 1]
    BY <1>8, <1>9 DEF Inv, TypeOK, RankTypeOK
<1>11. /\ ver'[r] = W /\ ver' \in [Ranks -> [Vectors -> Nat]]
       /\ \A s \in Ranks : s # r => ver'[s] = ver[s]
       /\ \A u \in Vectors : u # v => ver'[r][u] = ver[r][u]
       /\ ver'[r][v] = ver[r][v] + 1 /\ ver[r][v] \in Nat
    BY <1>10 DEF Inv, TypeOK, RankTypeOK, Raise
<1>12. /\ DirtySet(r)' = D /\ dirtybit' \in [Ranks -> [Vectors -> BOOLEAN]]
    BY <1>8, DirtyChanges DEF EndTransfer, Inv, TypeOK
<1>13. OpenSet(r)' = OpenSet(r) \ {v}
    BY <1>8, EndFacts DEF Inv, TypeOK
<1> HIDE DEF c, D, W
<1>14. RankTypeOK'
  <2>1. DOMAIN todo' = Ranks
      BY <1>8 DEF Inv, TypeOK, RankTypeOK
  <2>2. /\ program' = program /\ pc' = pc /\ halo' = halo
      BY <1>8
  <2>3. QED BY <1>11, <1>12, <2>1, <2>2 DEF Inv, TypeOK, RankTypeOK
<1>15. todo'[r] = c
    BY <1>8 DEF Inv, TypeOK, RankTypeOK
<1>16. DataOK(r)'
  <2>1. DataOK(r)
      BY <1>1, Before DEF Inv
  <2>2. \A u \in Vectors : ver'[r][u] >= 1
      BY <1>11, <2>1 DEF DataOK
  <2>3. Sending(r)'
    <3>1. OpenSet(r)' = {}
        BY <1>5, <1>13
    <3>2. \A u \in Vectors : ~Open(r, u)'
        BY <3>1 DEF OpenSet
    <3>3. QED BY <3>2 DEF Sending
  <2>4. ASSUME NEW u \in Vectors, u \notin D, ~Doing(r, "dirty", u)'
        PROVE  Current(r, u)'
    <3>1. u # v
        BY <1>7, <1>15, <2>4 DEF Doing
    <3>2. Current(r, u)
        BY <1>3, <2>1, <2>4, <3>1 DEF DataOK, CleanIsCurrent, D
    <3>3. QED BY <1>8, <1>11, <3>1, <3>2 DEF Current
  <2>5. CleanIsCurrent(r)'
      BY <1>12, <2>4 DEF CleanIsCurrent
  <2>6. QED BY <2>2, <2>3, <2>5 DEF DataOK
<1>17. Stage(c, OpenSet(r) \ {v}, DirtySet(r) \ {v}, W, q, H[pc[r]].d, H[pc[r]].w, r)
    BY <1>6 DEF D
<1>18. /\ UNCHANGED <<program, pc>> /\ EndTransfer(r, v) /\ v \in OpenSet(r)
       /\ todo' = [todo EXCEPT ![r] = c] /\ TypeOK /\ ver'[r] = W
       /\ \A s \in Ranks : s # r => ver'[s] = ver[s] /\ halo'[s] = halo[s]
    BY <1>5, <1>8, <1>11 DEF Inv
<1>19. QED BY <1>1, <1>2, <1>14, <1>16, <1>17, <1>18, EndStep

-----------------------------------------------------------------------------
(* MPI moves a message, and steps in which nothing happens. *)

LEMMA RanksStay ==
    ASSUME Inv, NEW T, NEW E, NEW H, NEW N, Listed(T, E), Program(T, H),
           N \in [Ranks -> Nat], \A r \in Ranks : RankOK(r, T, H, N[r]),
           UNCHANGED <<program, pc, todo, dirtybit, in_transfer, ver, halo, sendBuffer>>,
           NetTypeOK', \E a, b : Net(T, E, N, a, b)'
    PROVE  Inv'
<1>1. RankTypeOK'
    BY DEF Inv, TypeOK, RankTypeOK
<1>2. ASSUME NEW r \in Ranks
      PROVE  RankOK(r, T, H, N[r])'
  <2>1. PICK n \in Nat : n = N[r]
      OBVIOUS
  <2>2. T \in Seq(Transfer) /\ Longer(T, T)
      BY DEF Listed, Longer
  <2>3. OpenSet(r)' = OpenSet(r)
      BY DEF OpenSet, Open
  <2>4. pc[r] \in 0..Len(program)
      BY DEF Inv, TypeOK, RankTypeOK
  <2>5. H[pc[r]] \in AfterOperation /\ RankOK(r, T, H, n)
      BY <2>1, <2>4 DEF Program
  <2>6. RankOK(r, T, H, n)'
      BY <2>2, <2>3, <2>5, RankStays
  <2>7. QED BY <2>1, <2>6
<1>3. PICK a, b : Net(T, E, N, a, b)'
    OBVIOUS
<1>4. Program(T, H)'
    BY DEF Program
<1>5. Good(T, E, H, N, a, b)'
    BY <1>2, <1>3, <1>4 DEF Good
<1>6. QED BY <1>1, <1>5 DEF Inv, TypeOK

LEMMA StepMpi ==
    ASSUME Inv, NEW p \in Pairs, NEW i \in DOMAIN sent[p],
           \/ SendEagerly(p, i)
           \/ \E j \in DOMAIN posted[p] : Deliver(p, i, j)
    PROVE  Inv'
<1>1. PICK T, E, H, N, a, b : Good(T, E, H, N, a, b)
    BY DEF Inv
<1>2. /\ NetTypeOK /\ Listed(T, E) /\ Program(T, H) /\ Net(T, E, N, a, b)
      /\ N \in [Ranks -> Nat] /\ \A r \in Ranks : RankOK(r, T, H, N[r])
    BY <1>1 DEF Good, Inv, TypeOK, Net, Counted
<1>3. UNCHANGED <<program, pc, todo, dirtybit, in_transfer, ver, halo, sendBuffer>>
    BY DEF SendEagerly, Deliver, local
<1>4. NetTypeOK' /\ \E a2, b2 : Net(T, E, N, a2, b2)'
  <2>1. CASE SendEagerly(p, i)
    <3>1. NetTypeOK' /\ Net(T, E, N, a, b)'
        BY <1>2, <2>1, NetEager
    <3>2. QED BY <3>1
  <2>2. CASE \E j \in DOMAIN posted[p] : Deliver(p, i, j)
      BY <1>2, <2>2, NetDeliver
  <2>3. QED BY <2>1, <2>2
<1>5. QED BY <1>2, <1>3, <1>4, RanksStay

LEMMA StepNothing ==
    ASSUME Inv, UNCHANGED vars
    PROVE  Inv'
<1>1. PICK T, E, H, N, a, b : Good(T, E, H, N, a, b)
    BY DEF Inv
<1>2. /\ NetTypeOK /\ Listed(T, E) /\ Program(T, H) /\ Net(T, E, N, a, b)
      /\ N \in [Ranks -> Nat] /\ \A r \in Ranks : RankOK(r, T, H, N[r])
    BY <1>1 DEF Good, Inv, TypeOK, Net, Counted
<1>3. /\ UNCHANGED <<program, pc, todo, dirtybit, in_transfer, ver, halo, sendBuffer>>
      /\ UNCHANGED <<network, history, in_transfer>>
    BY DEF vars, network, history
<1>4. NetTypeOK' /\ Net(T, E, N, a, b)'
    BY <1>2, <1>3, NetSame
<1>5. QED BY <1>2, <1>3, <1>4, RanksStay

-----------------------------------------------------------------------------
(* A rank begins an operation.  When it is the first to get there the list *)
(* of transfers goes on with what the operation is going to begin.         *)

LEMMA ListedOne ==
    ASSUME NEW T, NEW E, Listed(T, E), NEW t \in Transfer
    PROVE  \E T2, E2 : /\ Listed(T2, E2) /\ T2 = Append(T, t) /\ Longer(T, T2)
                       /\ \A i \in 0..Len(T) : E2[i] = E[i]
<1> DEFINE T2 == Append(T, t)
           n == Len(T)
           E2 == [i \in 0..Len(T2) |->
                    IF i <= n THEN E[i] ELSE [E[n] EXCEPT ![t.vec] = @ + 1]]
<1>1. /\ T \in Seq(Transfer) /\ n \in Nat /\ E \in [0..n -> [Vectors -> Nat]]
      /\ \A i \in 1..n : E[i] = [E[i - 1] EXCEPT ![T[i].vec] = @ + 1]
      /\ \A i, j \in 0..n : i <= j => \A v \in Vectors : E[i][v] <= E[j][v]
  <2>1. T \in Seq(Transfer)
      BY DEF Listed
  <2>2. n \in Nat
      BY <2>1
  <2>3. E \in [0..n -> [Vectors -> Nat]]
      BY DEF Listed
  <2>4. \A i \in 1..n : E[i] = [E[i - 1] EXCEPT ![T[i].vec] = @ + 1]
      BY DEF Listed
  <2>5. \A i, j \in 0..n : i <= j => \A v \in Vectors : E[i][v] <= E[j][v]
      BY DEF Listed
  <2>6. QED BY <2>1, <2>2, <2>3, <2>4, <2>5
<1>2. /\ T2 \in Seq(Transfer) /\ Len(T2) = n + 1 /\ T2[n + 1] = t
      /\ \A i \in 1..n : T2[i] = T[i]
    BY <1>1
<1>3. t.vec \in Vectors
    BY DEF Transfer
<1> DEFINE last == [E[n] EXCEPT ![t.vec] = @ + 1]
<1>4. E[n] \in [Vectors -> Nat] /\ last \in [Vectors -> Nat]
    BY <1>1, <1>3
<1>5. /\ \A i \in 0..n : E2[i] = E[i]
      /\ E2[n + 1] = last
    BY <1>1, <1>2
<1>6. \A v \in Vectors : E[n][v] <= last[v]
    BY <1>3, <1>4
<1>7. E2 \in [0..Len(T2) -> [Vectors -> Nat]]
    BY <1>1, <1>2, <1>4
<1> HIDE DEF n, T2, E2, last
<1>8. ASSUME NEW i \in 1..n + 1
      PROVE  E2[i] = [E2[i - 1] EXCEPT ![T2[i].vec] = @ + 1]
  <2>1. CASE i \in 1..n
    <3>1. i - 1 \in 0..n /\ i \in 0..n
        BY <1>1, <2>1
    <3>2. QED BY <1>1, <1>2, <1>5, <2>1, <3>1
  <2>2. CASE i = n + 1
    <3>1. i - 1 = n /\ n \in 0..n
        BY <1>1, <2>2
    <3>2. QED BY <1>2, <1>5, <2>2, <3>1 DEF last
  <2>3. QED BY <1>1, <2>1, <2>2
<1>9. ASSUME NEW i \in 0..n + 1, NEW j \in 0..n + 1, i <= j, NEW v \in Vectors
      PROVE  E2[i][v] <= E2[j][v]
  <2>1. CASE j \in 0..n
    <3>1. i \in 0..n
        BY <1>1, <1>9, <2>1
    <3>2. QED BY <1>1, <1>5, <1>9, <2>1, <3>1
  <2>2. CASE j = n + 1 /\ i \in 0..n
    <3>1. n \in 0..n /\ i <= n
        BY <1>1, <2>2
    <3>2. E[i][v] <= E[n][v] /\ E[n][v] <= last[v]
        BY <1>1, <1>6, <2>2, <3>1
    <3>3. E[i][v] \in Nat /\ E[n][v] \in Nat /\ last[v] \in Nat
        BY <1>1, <1>4, <2>2
    <3>4. E[i][v] <= last[v]
        BY <3>2, <3>3
    <3>5. QED BY <1>5, <2>2, <3>4
  <2>3. CASE j = n + 1 /\ i = n + 1
    <3>1. last[v] \in Nat
        BY <1>4
    <3>2. QED BY <1>5, <2>3, <3>1
  <2>4. QED BY <1>1, <2>1, <2>2, <2>3
<1>10. Listed(T2, E2)
    BY <1>2, <1>7, <1>8, <1>9 DEF Listed
<1>11. Longer(T, T2)
    BY <1>1, <1>2 DEF Longer, n
<1>12. QED BY <1>5, <1>10, <1>11 DEF T2, n

LEMMA LongerStill ==
    ASSUME NEW T1 \in Seq(Transfer), NEW T2 \in Seq(Transfer), NEW T3 \in Seq(Transfer),
           Longer(T1, T2), Longer(T2, T3)
    PROVE  Longer(T1, T3)
<1>1. PICK l \in Nat, m \in Nat, n \in Nat : l = Len(T1) /\ m = Len(T2) /\ n = Len(T3)
    OBVIOUS
<1>2. l <= m /\ m <= n
    BY <1>1 DEF Longer
<1>3. ASSUME NEW i \in 1..l
      PROVE  T3[i] = T1[i]
  <2>1. i \in 1..m
      BY <1>2
  <2>2. QED BY <1>1, <2>1 DEF Longer
<1>4. QED BY <1>1, <1>2, <1>3 DEF Longer

LEMMA ListedMore ==
    ASSUME NEW T, NEW E, Listed(T, E), NEW q \in Seq(Transfer), Len(q) <= 2
    PROVE  \E T2, E2 : /\ Listed(T2, E2) /\ Longer(T, T2)
                       /\ Scheduled(q, Len(T), Len(T2), T2)
                       /\ \A i \in 0..Len(T) : E2[i] = E[i]
<1>1. T \in Seq(Transfer) /\ Len(T) \in Nat
    BY DEF Listed
<1>2. PICK l \in Nat : l = Len(q) /\ l <= 2
    OBVIOUS
<1>3. CASE l = 0
  <2>1. Longer(T, T) /\ Scheduled(q, Len(T), Len(T), T)
      BY <1>1, <1>2, <1>3 DEF Longer, Scheduled
  <2>2. QED BY <2>1
<1>4. CASE l = 1
  <2>1. q[1] \in Transfer
    <3>1. 1 \in 1..Len(q)
        BY <1>2, <1>4
    <3>2. QED BY <3>1
  <2>2. PICK T2, E2 : /\ Listed(T2, E2) /\ T2 = Append(T, q[1]) /\ Longer(T, T2)
                      /\ \A i \in 0..Len(T) : E2[i] = E[i]
      BY <2>1, ListedOne
  <2>3. Len(T2) = Len(T) + 1 /\ T2[Len(T) + 1] = q[1]
      BY <1>1, <2>1, <2>2
  <2>4. Scheduled(q, Len(T), Len(T2), T2)
      BY <1>1, <1>2, <1>4, <2>3 DEF Scheduled
  <2>5. QED BY <2>2, <2>4
<1>5. CASE l = 2
  <2>1. q[1] \in Transfer /\ q[2] \in Transfer
    <3>1. 1 \in 1..Len(q) /\ 2 \in 1..Len(q)
        BY <1>2, <1>5
    <3>2. QED BY <3>1
  <2>2. PICK T2, E2 : /\ Listed(T2, E2) /\ T2 = Append(T, q[1]) /\ Longer(T, T2)
                      /\ \A i \in 0..Len(T) : E2[i] = E[i]
      BY <2>1, ListedOne
  <2>3. PICK T3, E3 : /\ Listed(T3, E3) /\ T3 = Append(T2, q[2]) /\ Longer(T2, T3)
                      /\ \A i \in 0..Len(T2) : E3[i] = E2[i]
    <3>1. PICK t \in Transfer : t = q[2]
        BY <2>1
    <3>2. Listed(T2, E2)
        BY <2>2
    <3>3. \E T3, E3 : /\ Listed(T3, E3) /\ T3 = Append(T2, t) /\ Longer(T2, T3)
                      /\ \A i \in 0..Len(T2) : E3[i] = E2[i]
        BY <3>2, ListedOne
    <3>4. QED BY <3>1, <3>3
  <2>4. T2 \in Seq(Transfer) /\ T3 \in Seq(Transfer)
      BY <2>2, <2>3 DEF Listed
  <2>5. Len(T2) = Len(T) + 1 /\ T2[Len(T) + 1] = q[1]
      BY <1>1, <2>1, <2>2
  <2>6. Len(T3) = Len(T2) + 1 /\ T3[Len(T2) + 1] = q[2]
      BY <2>1, <2>3, <2>4
  <2>7. T3[Len(T) + 1] = q[1]
    <3>1. Len(T) + 1 \in 1..Len(T2)
        BY <1>1, <2>5
    <3>2. T3[Len(T) + 1] = T2[Len(T) + 1]
        BY <2>3, <3>1 DEF Longer
    <3>3. QED BY <2>5, <3>2
  <2>8. /\ Len(T3) = Len(T) + 2 /\ T3[Len(T) + 2] = q[2]
    <3>1. (Len(T) + 1) + 1 = Len(T) + 2
        BY <1>1
    <3>2. QED BY <2>5, <2>6, <3>1
  <2>9. Scheduled(q, Len(T), Len(T3), T3)
    <3>1. PICK n \in Nat : n = Len(T)
        BY <1>1
    <3>2. ASSUME NEW i \in 1..l
          PROVE  T3[n + i] = q[i]
      <4>1. i = 1 \/ i = 2
          BY <1>5
      <4>2. QED BY <2>7, <2>8, <3>1, <4>1
    <3>3. n + l = Len(T3) /\ Len(T3) <= Len(T3)
        BY <1>5, <2>8, <3>1
    <3>4. QED BY <1>2, <3>1, <3>2, <3>3 DEF Scheduled
  <2>10. \A i \in 0..Len(T) : E3[i] = E[i]
    <3>1. ASSUME NEW i \in 0..Len(T)
          PROVE  E3[i] = E[i]
      <4>1. i \in 0..Len(T2)
          BY <1>1, <2>5
      <4>2. QED BY <2>2, <2>3, <4>1
    <3>2. QED BY <3>1
  <2>11. Longer(T, T3)
      BY <1>1, <2>2, <2>3, <2>4, LongerStill
  <2>12. QED BY <2>3, <2>9, <2>10, <2>11
<1>6. QED BY <1>2, <1>3, <1>4, <1>5

\* Between operations a rank is where the program says.
LEMMA AtEndOf ==
    ASSUME TypeOK, NEW T, NEW E, NEW H, NEW N, NEW a, NEW b,
           Good(T, E, H, N, a, b), NEW r \in Ranks, todo[r] = << >>
    PROVE  /\ OpenSet(r) = {} /\ DirtySet(r) = H[pc[r]].d
           /\ ver[r] = H[pc[r]].w /\ N[r] = H[pc[r]].n
           /\ \A v \in Vectors : v \notin DirtySet(r) => Current(r, v)
<1>1. PICK q : /\ Stage(todo[r], OpenSet(r), DirtySet(r), ver[r], q,
                        H[pc[r]].d, H[pc[r]].w, r)
               /\ Scheduled(q, N[r], H[pc[r]].n, T)
    BY Before
<1>2. PICK k, O, D, W, D1, W1, n, m, x :
        /\ k = todo[r] /\ O = OpenSet(r) /\ D = DirtySet(r) /\ W = ver[r]
        /\ D1 = H[pc[r]].d /\ W1 = H[pc[r]].w /\ n = N[r] /\ m = H[pc[r]].n /\ x = q
    OBVIOUS
<1>3. Stage(k, O, D, W, x, D1, W1, r) /\ k = << >> /\ Scheduled(x, n, m, T)
    BY <1>1, <1>2
<1>4. AtEnd(k, O, D, W, x, D1, W1)
    BY <1>3, StageHead
<1>5. O = {} /\ x = << >> /\ D1 = D /\ W1 = W
    BY <1>4 DEF AtEnd
<1>6. n \in Nat /\ m \in Nat
    BY <1>2, InBounds
<1>7. n = m
    BY <1>3, <1>5, <1>6 DEF Scheduled
<1>8. \A v \in Vectors : v \notin DirtySet(r) => Current(r, v)
  <2>1. \A f, v : ~Doing(r, f, v)
      BY DEF Doing
  <2>2. DataOK(r)
      BY Before
  <2>3. QED BY <2>1, <2>2 DEF DataOK, CleanIsCurrent
<1>9. QED BY <1>2, <1>5, <1>7, <1>8

SameUpTo(n, F, G) == \A i \in 0..n : F[i] = G[i]

LEMMA FetchMoves ==
    ASSUME Inv, NEW T, NEW E, NEW H, NEW N, NEW a, NEW b, Good(T, E, H, N, a, b),
           NEW r \in Ranks, todo[r] = << >>, NEW op \in Ops,
           todo' = [todo EXCEPT ![r] = Calls(op)], pc' = [pc EXCEPT ![r] = @ + 1],
           UNCHANGED <<dirtybit, in_transfer, ver, halo, network, history>>,
           NEW T2, NEW E2, NEW H2, Listed(T2, E2), Longer(T, T2),
           SameUpTo(Len(T), E2, E),
           SameUpTo(Len(program), H2, H),
           Program(T2, H2)', program' \in Seq(Ops), Len(program) <= Len(program'),
           pc[r] < Len(program'), program'[pc[r] + 1] = op
    PROVE  Inv'
<1>1. /\ TypeOK /\ NetTypeOK /\ Listed(T, E) /\ Net(T, E, N, a, b)
      /\ N \in [Ranks -> Nat] /\ \A s \in Ranks : RankOK(s, T, H, N[s])
    BY DEF Inv, TypeOK, Good, Net, Counted
<1>2. UNCHANGED <<network, history, in_transfer>>
    OBVIOUS
<1>3. Net(T2, E2, N, a, b)
    BY <1>1, NetLonger DEF SameUpTo
<1>4. NetTypeOK' /\ Net(T2, E2, N, a, b)' /\ \A s : OpenSet(s)' = OpenSet(s)
    BY <1>1, <1>2, <1>3, NetSame
<1>5. /\ pc'[r] = pc[r] + 1 /\ todo'[r] = Calls(op) /\ DOMAIN todo' = Ranks
      /\ \A s \in Ranks : s # r => pc'[s] = pc[s] /\ todo'[s] = todo[s]
    BY <1>1 DEF TypeOK, RankTypeOK
<1>6. RankTypeOK'
  <2>1. pc' \in [Ranks -> Nat]
      BY <1>1 DEF TypeOK, RankTypeOK
  <2>2. ASSUME NEW s \in Ranks
        PROVE  pc'[s] <= Len(program')
    <3>1. pc[s] \in Nat /\ pc[s] <= Len(program) /\ Len(program) \in Nat
        BY <1>1 DEF TypeOK, RankTypeOK
    <3>2. Len(program') \in Nat
        OBVIOUS
    <3>3. QED BY <1>5, <3>1, <3>2
  <2>3. QED BY <1>1, <1>5, <2>1, <2>2 DEF TypeOK, RankTypeOK
<1>7. sendBuffer' = sendBuffer
    BY DEF network
<1>8. T \in Seq(Transfer) /\ T2 \in Seq(Transfer)
    BY <1>1 DEF Listed
<1>9. ASSUME NEW s \in Ranks, s # r
      PROVE  RankOK(s, T2, H2, N[s])'
  <2>1. PICK n \in Nat : n = N[s]
      BY <1>1
  <2>2. pc[s] \in 0..Len(program) /\ H[pc[s]] \in AfterOperation
      BY <1>1, InBounds
  <2>3. H2[pc[s]] = H[pc[s]] /\ RankOK(s, T, H, n)
      BY <1>1, <2>1, <2>2 DEF SameUpTo
  <2>4. RankOK(s, T2, H2, n)'
      BY <1>4, <1>5, <1>7, <1>8, <1>9, <2>2, <2>3, RankStays
  <2>5. QED BY <2>1, <2>4
<1>10. RankOK(r, T2, H2, N[r])'
  <2>1. /\ OpenSet(r) = {} /\ DirtySet(r) = H[pc[r]].d
        /\ ver[r] = H[pc[r]].w /\ N[r] = H[pc[r]].n
        /\ \A v \in Vectors : v \notin DirtySet(r) => Current(r, v)
      BY <1>1, AtEndOf
  <2>2. pc[r] \in 0..Len(program) /\ pc[r] \in Nat /\ pc[r] + 1 \in 1..Len(program')
    <3>1. pc[r] \in 0..Len(program) /\ Len(program) \in Nat
        BY <1>1, InBounds
    <3>2. Len(program') \in Nat
        OBVIOUS
    <3>3. QED BY <3>1, <3>2
  <2>3. H2[pc[r]] = H[pc[r]] /\ (pc[r] + 1) - 1 = pc[r]
      BY <2>2 DEF SameUpTo
  <2>4. Rest(Calls(op), {}, H2[pc[r]].d, H2[pc[r]].w, H2[pc[r]].n, H2[pc[r] + 1], T2, r)
      BY <2>2, <2>3 DEF Program
  <2>5. OpenSet(r)' = {} /\ DirtySet(r)' = DirtySet(r) /\ ver' = ver
      BY <1>4, <2>1 DEF DirtySet
  <2>6. Rest(todo'[r], OpenSet(r)', DirtySet(r)', ver'[r], N[r], H2[pc'[r]], T2, r)
      BY <1>5, <2>1, <2>3, <2>4, <2>5
  <2>7. Rest(todo[r], OpenSet(r), DirtySet(r), ver[r], N[r], H2[pc[r]], T2, r)'
      BY <2>6
  <2>8. DataOK(r)'
    <3>1. \A v \in Vectors : ver[r][v] >= 1
        BY <1>1, Before DEF DataOK
    <3>2. Sending(r)'
        BY <2>5 DEF Sending, OpenSet
    <3>3. \A v \in Vectors : Current(r, v) => Current(r, v)'
        BY DEF Current
    <3>4. CleanIsCurrent(r)'
        BY <2>1, <2>5, <3>3 DEF CleanIsCurrent
    <3>5. QED BY <3>1, <3>2, <3>4 DEF DataOK
  <2>9. QED BY <2>7, <2>8 DEF RankOK
<1>11. Good(T2, E2, H2, N, a, b)'
    BY <1>4, <1>9, <1>10 DEF Good
<1>12. QED BY <1>4, <1>6, <1>11 DEF Inv, TypeOK

LEMMA FetchKnown ==
    ASSUME Inv, NEW r \in Ranks, todo[r] = << >>, NEW op \in Ops,
           todo' = [todo EXCEPT ![r] = Calls(op)], pc' = [pc EXCEPT ![r] = @ + 1],
           UNCHANGED <<dirtybit, in_transfer, ver, halo, network, history>>,
           pc[r] < Len(program), op = program[pc[r] + 1], program' = program
    PROVE  Inv'
<1>1. PICK T, E, H, N, a, b : Good(T, E, H, N, a, b)
    BY DEF Inv
<1>2. Listed(T, E) /\ Longer(T, T)
  <2>1. Listed(T, E)
      BY <1>1 DEF Good
  <2>2. Len(T) \in Nat
      BY <2>1 DEF Listed
  <2>3. QED BY <2>1, <2>2 DEF Longer
<1>3. Program(T, H)'
    BY <1>1 DEF Good, Program
<1>4. program' \in Seq(Ops) /\ Len(program) <= Len(program')
    BY DEF Inv, TypeOK, RankTypeOK
<1>5. SameUpTo(Len(T), E, E)
    BY DEF SameUpTo
<1>6. SameUpTo(Len(program), H, H)
    BY DEF SameUpTo
<1>7. pc[r] < Len(program') /\ program'[pc[r] + 1] = op
    OBVIOUS
<1>8. QED BY <1>1, <1>2, <1>3, <1>4, <1>5, <1>6, <1>7, FetchMoves

LEMMA ProgramGrows ==
    ASSUME Inv, NEW T, NEW E, NEW H, NEW N, NEW a, NEW b, Good(T, E, H, N, a, b),
           NEW op \in Ops, program' = Append(program, op)
    PROVE  \E T2, E2, H2 :
             /\ Listed(T2, E2) /\ Longer(T, T2) /\ SameUpTo(Len(T), E2, E)
             /\ Program(T2, H2)' /\ SameUpTo(Len(program), H2, H)
<1>2. PICK l \in Nat : l = Len(program)
    BY DEF Inv, TypeOK, RankTypeOK
<1>3. /\ program' \in Seq(Ops) /\ Len(program') = l + 1
      /\ program'[l + 1] = op /\ \A k \in 1..l : program'[k] = program[k]
    BY <1>2 DEF Inv, TypeOK, RankTypeOK
<1>4. /\ H \in [0..l -> AfterOperation] /\ H[l].n = Len(T) /\ Listed(T, E)
      /\ T \in Seq(Transfer) /\ Len(T) \in Nat
      /\ \A k \in 1..l, s \in Ranks :
           Rest(Calls(program[k]), {}, H[k - 1].d, H[k - 1].w, H[k - 1].n, H[k], T, s)
  <2>1. Listed(T, E) /\ Program(T, H)
      BY DEF Good
  <2>2. T \in Seq(Transfer) /\ Len(T) \in Nat
      BY <2>1 DEF Listed
  <2>3. QED BY <1>2, <2>1, <2>2 DEF Program
<1>5. PICK D, W : D = H[l].d /\ W = H[l].w /\ D \subseteq Vectors /\ W \in [Vectors -> Nat]
  <2>1. H[l] \in AfterOperation
      BY <1>2, <1>4
  <2>2. QED BY <2>1 DEF AfterOperation
<1>6. PICK q, D1, W1 : Plan(op, D, W, q, D1, W1)
    BY <1>5, EveryOperation
<1>7. /\ q \in Seq(Transfer) /\ Len(q) <= 2 /\ D1 \in SUBSET Vectors
      /\ W1 \in [Vectors -> Nat] /\ \A s \in Ranks : Calm(Calls(op), {}, D, W, q, D1, W1, s)
    BY <1>6 DEF Plan
<1>8. PICK T2, E2 : /\ Listed(T2, E2) /\ Longer(T, T2)
                    /\ Scheduled(q, Len(T), Len(T2), T2)
                    /\ SameUpTo(Len(T), E2, E)
    BY <1>4, <1>7, ListedMore DEF SameUpTo
<1>9. T2 \in Seq(Transfer) /\ Len(T2) \in Nat
    BY <1>8 DEF Listed
<1> DEFINE h == [d |-> D1, w |-> W1, n |-> Len(T2)]
           H2 == [k \in 0..l + 1 |-> IF k <= l THEN H[k] ELSE h]
<1>10. h \in AfterOperation /\ h.d = D1 /\ h.w = W1 /\ h.n = Len(T2)
    BY <1>7, <1>9 DEF AfterOperation
<1>11. /\ H2 \in [0..l + 1 -> AfterOperation] /\ H2[l + 1] = h
       /\ \A k \in 0..l : H2[k] = H[k]
    BY <1>2, <1>4, <1>10
<1> HIDE DEF h, H2
<1>12. H2[l] = H[l] /\ H2[l].d = D /\ H2[l].w = W /\ H2[l].n = Len(T)
    BY <1>2, <1>4, <1>5, <1>11
<1>13. ASSUME NEW s \in Ranks
       PROVE  Rest(Calls(op), {}, H2[l].d, H2[l].w, H2[l].n, H2[l + 1], T2, s)
  <2>1. Stage(Calls(op), {}, D, W, q, h.d, h.w, s)
      BY <1>7, <1>10 DEF Stage
  <2>2. Scheduled(q, Len(T), h.n, T2)
      BY <1>8, <1>10
  <2>3. Rest(Calls(op), {}, D, W, Len(T), h, T2, s)
      BY <2>1, <2>2 DEF Rest
  <2>4. QED BY <1>11, <1>12, <2>3
<1>14. ASSUME NEW k \in 1..l, NEW s \in Ranks
       PROVE  Rest(Calls(program[k]), {}, H2[k - 1].d, H2[k - 1].w, H2[k - 1].n,
                   H2[k], T2, s)
  <2>1. k \in 0..l /\ k - 1 \in 0..l
      BY <1>2
  <2>2. PICK c, W2, D2, n, g : /\ c = Calls(program[k]) /\ W2 = H[k - 1].w
                               /\ D2 = H[k - 1].d /\ n = H[k - 1].n /\ g = H[k]
      OBVIOUS
  <2>3. n \in Nat /\ g \in AfterOperation
      BY <1>4, <2>1, <2>2 DEF AfterOperation
  <2>4. Rest(c, {}, D2, W2, n, g, T, s)
      BY <1>4, <2>2
  <2>5. Rest(c, {}, D2, W2, n, g, T2, s)
      BY <1>4, <1>8, <1>9, <2>3, <2>4, RestLonger
  <2>6. QED BY <1>11, <2>1, <2>2, <2>5
<1>15. Program(T2, H2)'
  <2>1. ASSUME NEW k \in 1..l + 1, NEW s \in Ranks
        PROVE  Rest(Calls(program'[k]), {}, H2[k - 1].d, H2[k - 1].w, H2[k - 1].n,
                    H2[k], T2, s)
    <3>1. CASE k \in 1..l
        BY <1>3, <1>14, <3>1
    <3>2. CASE k = l + 1
      <4>1. k - 1 = l /\ program'[k] = op
          BY <1>2, <1>3, <3>2
      <4>2. QED BY <1>13, <3>2, <4>1
    <3>3. QED BY <1>2, <3>1, <3>2
  <2>2. H2[l + 1].n = Len(T2)
      BY <1>10, <1>11
  <2>3. QED BY <1>3, <1>11, <2>1, <2>2 DEF Program
<1>16. SameUpTo(Len(program), H2, H)
    BY <1>2, <1>11 DEF SameUpTo
<1>17. QED BY <1>8, <1>15, <1>16

LEMMA FetchNew ==
    ASSUME Inv, NEW r \in Ranks, todo[r] = << >>, NEW op \in Ops,
           todo' = [todo EXCEPT ![r] = Calls(op)], pc' = [pc EXCEPT ![r] = @ + 1],
           UNCHANGED <<dirtybit, in_transfer, ver, halo, network, history>>,
           NEW l \in Nat, Len(program) = l, pc[r] = l, program' \in Seq(Ops),
           Len(program') = l + 1, program'[l + 1] = op,
           \A T, E, H, N, a, b : Good(T, E, H, N, a, b) =>
               \E T2, E2, H2 :
                 /\ Listed(T2, E2) /\ Longer(T, T2) /\ SameUpTo(Len(T), E2, E)
                 /\ Program(T2, H2)' /\ SameUpTo(Len(program), H2, H)
    PROVE  Inv'
<1>1. PICK T, E, H, N, a, b : Good(T, E, H, N, a, b)
    BY DEF Inv
<1>2. PICK T2, E2, H2 :
        /\ Listed(T2, E2) /\ Longer(T, T2) /\ SameUpTo(Len(T), E2, E)
        /\ Program(T2, H2)' /\ SameUpTo(Len(program), H2, H)
    BY <1>1
<1>3. /\ Len(program) <= Len(program') /\ pc[r] < Len(program')
      /\ program'[pc[r] + 1] = op /\ program' \in Seq(Ops)
    OBVIOUS
<1>4. QED BY <1>1, <1>2, <1>3, FetchMoves

LEMMA StepFetch ==
    ASSUME Inv, NEW r \in Ranks, Fetch(r)
    PROVE  Inv'
<1>1. PICK op \in Ops :
        /\ IF pc[r] < Len(program)
           THEN op = program[pc[r] + 1] /\ UNCHANGED program
           ELSE program' = Append(program, op)
        /\ todo' = [todo EXCEPT ![r] = Calls(op)]
    BY DEF Fetch
<1>2. /\ todo[r] = << >> /\ pc' = [pc EXCEPT ![r] = @ + 1]
      /\ UNCHANGED <<dirtybit, in_transfer, ver, halo, network, history>>
    BY DEF Fetch
<1>3. CASE pc[r] < Len(program)
    BY <1>1, <1>2, <1>3, FetchKnown
<1>4. CASE ~(pc[r] < Len(program))
  <2>1. program' = Append(program, op)
      BY <1>1, <1>4
  <2>2. PICK l \in Nat : l = Len(program)
      BY DEF Inv, TypeOK, RankTypeOK
  <2>3. /\ pc[r] = l /\ program' \in Seq(Ops) /\ Len(program') = l + 1
        /\ program'[l + 1] = op
      BY <1>4, <2>1, <2>2 DEF Inv, TypeOK, RankTypeOK
  <2>4. \A T, E, H, N, a, b : Good(T, E, H, N, a, b) =>
               \E T2, E2, H2 :
                 /\ Listed(T2, E2) /\ Longer(T, T2) /\ SameUpTo(Len(T), E2, E)
                 /\ Program(T2, H2)' /\ SameUpTo(Len(program), H2, H)
      BY <2>1, ProgramGrows
  <2>5. QED BY <1>1, <1>2, <2>2, <2>3, <2>4, FetchNew
<1>5. QED BY <1>3, <1>4

-----------------------------------------------------------------------------

LEMMA InvInit ==
    ASSUME Init
    PROVE  Inv
<1> DEFINE T == << >>
           w0 == [v \in Vectors |-> 1]
           h0 == [d |-> Vectors, w |-> w0, n |-> 0]
           E == [i \in 0..0 |-> [v \in Vectors |-> 0]]
           H == [k \in 0..0 |-> h0]
           N == [r \in Ranks |-> 0]
           a == [p \in Pairs |-> << >>]
<1>1. T \in Seq(Transfer) /\ Len(T) = 0
    OBVIOUS
<1>2. TypeOK
  <2>1. RankTypeOK
    <3>1. program \in Seq(Ops) /\ pc \in [Ranks -> Nat]
        BY DEF Init
    <3>2. \A r \in Ranks : pc[r] <= Len(program)
        BY DEF Init
    <3>3. QED BY <3>1, <3>2 DEF Init, RankTypeOK
  <2>2. NetTypeOK
    <3>1. sent \in [Pairs -> Seq(Message)] /\ posted \in [Pairs -> Seq(Receive)]
        BY DEF Init
    <3>2. QED BY <3>1 DEF Init, NetTypeOK
  <2>3. QED BY <2>1, <2>2 DEF TypeOK
<1>3. Listed(T, E)
    BY <1>1 DEF Listed
<1>4. Program(T, H)
  <2>1. h0 \in AfterOperation
      BY DEF AfterOperation
  <2>2. H \in [0..0 -> AfterOperation] /\ H[0].n = 0
      BY <2>1
  <2>3. program = << >> /\ Len(program) = 0
      BY DEF Init
  <2> HIDE DEF H, T
  <2>4. QED BY <1>1, <2>2, <2>3 DEF Program
<1>5. \A r \in Ranks, v \in Vectors : ~Open(r, v)
    BY DEF Init, Open
<1>6. Net(T, E, N, a, a)
  <2>1. Counted(T, E, N)
      BY <1>1, <1>5 DEF Init, Counted
  <2>2. ASSUME NEW p \in Pairs
        PROVE  QueueOK(sent[p], posted[p], p[1], T, N[p[1]], N[p[2]], a[p], a[p])
    <3>1. sent[p] = << >> /\ posted[p] = << >> /\ a[p] = << >>
        BY DEF Init
    <3>2. QED BY <1>1, <3>1 DEF QueueOK, Sends, Receives, Agree, Increasing
  <2>3. \A p \in Pairs : sent[p] = << >> /\ posted[p] = << >>
      BY DEF Init
  <2>4. Buffered /\ Expected(T, a)
      BY <2>3 DEF Buffered, Expected
  <2>5. Received
      BY <1>5, PairOf DEF Received
  <2>6. LastOpen(T, E, N)
      BY <1>5 DEF LastOpen
  <2>7. QED BY <2>1, <2>2, <2>4, <2>5, <2>6 DEF Net, Queues
<1>7. ASSUME NEW r \in Ranks
      PROVE  RankOK(r, T, H, N[r])
  <2>1. /\ todo[r] = << >> /\ OpenSet(r) = {} /\ DirtySet(r) = Vectors
        /\ ver[r] = w0 /\ pc[r] = 0 /\ N[r] = 0
      BY <1>5 DEF Init, OpenSet, DirtySet
  <2>2. Stage(<< >>, {}, Vectors, w0, << >>, h0.d, h0.w, r)
      BY DEF Stage, Calm, AtEnd
  <2>3. Scheduled(<< >>, 0, h0.n, T)
      BY <1>1 DEF Scheduled
  <2>4. H[0] = h0
      OBVIOUS
  <2> HIDE DEF h0, H, w0, T, N
  <2>5. Rest(<< >>, {}, Vectors, w0, 0, h0, T, r)
      BY <2>2, <2>3 DEF Rest
  <2>6. Rest(todo[r], OpenSet(r), DirtySet(r), ver[r], N[r], H[pc[r]], T, r)
      BY <2>1, <2>4, <2>5
  <2>7. \A v \in Vectors : ver[r][v] >= 1
      BY DEF Init
  <2>8. Sending(r) /\ CleanIsCurrent(r)
      BY <1>5, <2>1 DEF Sending, CleanIsCurrent
  <2>9. QED BY <2>6, <2>7, <2>8 DEF RankOK, DataOK
<1> HIDE DEF T, E, H, N, a
<1>8. Good(T, E, H, N, a, a)
    BY <1>3, <1>4, <1>6, <1>7 DEF Good
<1>9. QED BY <1>2, <1>8 DEF Inv

LEMMA InvNext ==
    ASSUME Inv, [Next]_vars
    PROVE  Inv'
<1>1. ASSUME NEW r \in Ranks, RankStep(r)
      PROVE  Inv'
  <2>1. CASE Fetch(r)
      BY <2>1, StepFetch
  <2>2. ASSUME NEW v \in Vectors,
               \/ SkipClean(r, v) \/ ExchangeHalo(r, v) \/ ExchangeForProduct(r, v)
               \/ ExchangeAsync(r, v) \/ FinishExchange(r, v) \/ FoldHalo(r, v)
               \/ ScatterFold(r, v) \/ MarkDirty(r, v) \/ WriteRows(r, v)
               \/ ZeroGuess(r, v) \/ ReadHalo(r, v)
        PROVE  Inv'
    <3>1. CASE SkipClean(r, v)
        BY <3>1, StepSkipClean
    <3>2. CASE ExchangeHalo(r, v)
        BY <3>2, StepExchangeHalo
    <3>3. CASE ExchangeForProduct(r, v)
        BY <3>3, StepExchangeForProduct
    <3>4. CASE ExchangeAsync(r, v)
        BY <3>4, StepExchangeAsync
    <3>5. CASE FinishExchange(r, v)
        BY <3>5, StepFinishExchange
    <3>6. CASE FoldHalo(r, v)
        BY <3>6, StepFoldHalo
    <3>7. CASE ScatterFold(r, v)
        BY <3>7, StepScatterFold
    <3>8. CASE MarkDirty(r, v)
        BY <3>8, StepMarkDirty
    <3>9. CASE WriteRows(r, v)
        BY <3>9, StepWriteRows
    <3>10. CASE ZeroGuess(r, v)
        BY <3>10, StepZeroGuess
    <3>11. CASE ReadHalo(r, v)
        BY <3>11, StepReadHalo
    <3>12. QED BY <2>2, <3>1, <3>2, <3>3, <3>4, <3>5, <3>6, <3>7, <3>8, <3>9, <3>10, <3>11
  <2>3. ASSUME NEW x \in Vectors, NEW b \in Vectors, SmootherBranch(r, x, b)
        PROVE  Inv'
      BY <2>3, StepSmootherBranch
  <2>4. QED BY <1>1, <2>1, <2>2, <2>3 DEF RankStep
<1>2. CASE Mpi
    BY <1>2, StepMpi DEF Mpi
<1>3. CASE UNCHANGED vars
    BY <1>3, StepNothing
<1>4. QED BY <1>1, <1>2, <1>3 DEF Next, AllFinished

\* Between calls of MPI and of the solvers, the network and every rank are
\* where the program and the transfers it begins say they are: what a rank has
\* done, has left to do, still waits for and has in its buffers fits the one
\* list of transfers all ranks share.
THEOREM HaloInvariant ==
    Spec => []Inv
<1>1. Init => Inv
    BY InvInit
<1>2. Inv /\ [Next]_vars => Inv'
    BY InvNext
<1>3. QED BY <1>1, <1>2, PTL DEF Spec

-----------------------------------------------------------------------------
(* What the invariant means for the program. *)

LEMMA InvMeansReads ==
    ASSUME Inv
    PROVE  ReadsCurrent
<1>1. ASSUME NEW r \in Ranks, NEW v \in Vectors, Doing(r, "read", v)
      PROVE  Current(r, v)
  <2>1. PICK T, E, H, N, a, b : Good(T, E, H, N, a, b)
      BY DEF Inv
  <2>2. PICK q : Stage(todo[r], OpenSet(r), DirtySet(r), ver[r], q,
                       H[pc[r]].d, H[pc[r]].w, r)
      BY <2>1, Before DEF Inv
  <2>3. todo[r] # << >> /\ Head(todo[r]) = <<"read", v>> /\ Quiet(r)
      BY <1>1, OneCallAtATime
  <2>4. PICK k, O, D, W, D1, W1 :
          /\ k = todo[r] /\ O = OpenSet(r) /\ D = DirtySet(r) /\ W = ver[r]
          /\ D1 = H[pc[r]].d /\ W1 = H[pc[r]].w
      OBVIOUS
  <2>5. Stage(k, O, D, W, q, D1, W1, r) /\ k # << >> /\ Head(k) = <<"read", v>>
      BY <2>2, <2>3, <2>4
  <2>6. AtRead(k, O, D, W, q, D1, W1)
      BY <2>5, StageHead
  <2>7. Calm(<< >> \o Tail(k), O, D, W, q, D1, W1, r) /\ v \notin D
      BY <2>5, <2>6, ReadStage
  <2>8. DataOK(r)
      BY <2>1, Before DEF Inv
  <2>9. QED BY <2>3, <2>4, <2>7, <2>8, DataNow
<1>2. QED BY <1>1 DEF ReadsCurrent

LEMMA InvMeansDirtyBits ==
    ASSUME Inv
    PROVE  DirtyBitsTrue
<1>1. PICK T, E, H, N, a, b : TypeOK /\ Good(T, E, H, N, a, b)
    BY DEF Inv
<1>2. ASSUME NEW r \in Ranks, NEW v \in Vectors, todo[r] = << >>, ~dirtybit[r][v]
      PROVE  Current(r, v)
  <2>1. v \notin DirtySet(r)
      BY <1>2 DEF DirtySet
  <2>2. QED BY <1>1, <1>2, <2>1, AtEndOf
<1>3. ASSUME NEW r \in Ranks, NEW s \in Ranks, pc[r] = pc[s],
             todo[r] = << >>, todo[s] = << >>
      PROVE  dirtybit[r] = dirtybit[s]
  <2>1. DirtySet(r) = H[pc[r]].d
      BY <1>1, <1>3, AtEndOf
  <2>2. DirtySet(s) = H[pc[s]].d
      BY <1>1, <1>3, AtEndOf
  <2>3. dirtybit[r] \in [Vectors -> BOOLEAN] /\ dirtybit[s] \in [Vectors -> BOOLEAN]
      BY <1>1 DEF TypeOK, RankTypeOK
  <2>4. PICK f, g : f = dirtybit[r] /\ g = dirtybit[s]
      OBVIOUS
  <2>5. /\ f \in [Vectors -> BOOLEAN] /\ g \in [Vectors -> BOOLEAN]
        /\ {v \in Vectors : f[v]} = {v \in Vectors : g[v]}
      BY <1>3, <2>1, <2>2, <2>3, <2>4 DEF DirtySet
  <2>6. ASSUME NEW v \in Vectors
        PROVE  f[v] = g[v]
    <3>1. f[v] <=> g[v]
        BY <2>5
    <3>2. f[v] \in BOOLEAN /\ g[v] \in BOOLEAN
        BY <2>5
    <3>3. QED BY <3>1, <3>2
  <2>7. f = g
      BY <2>5, <2>6
  <2>8. QED BY <2>4, <2>7
<1>4. QED BY <1>2, <1>3 DEF DirtyBitsTrue

LEMMA InvMeansBuffers ==
    ASSUME Inv
    PROVE  SendBufferKept
<1>1. Buffered /\ NetTypeOK
    BY DEF Inv, TypeOK, Good, Net
<1>2. \A p \in Pairs : DOMAIN sent[p] = 1..Len(sent[p])
    BY <1>1 DEF NetTypeOK
<1>3. QED BY <1>1, <1>2 DEF Buffered, SendBufferKept

LEMMA InvMeansNothingLeft ==
    ASSUME Inv
    PROVE  NothingLeftBehind
<1>1. PICK T, E, H, N, a, b : TypeOK /\ Good(T, E, H, N, a, b)
    BY DEF Inv
<1>2. /\ NetTypeOK /\ Buffered /\ Expected(T, b) /\ Queues(T, N, a, b)
      /\ N \in [Ranks -> Nat] /\ T \in Seq(Transfer) /\ Len(T) \in Nat
      /\ \A r \in Ranks : N[r] <= Len(T)
    BY <1>1 DEF TypeOK, Good, Net, Counted, Listed
<1>3. \A p \in Pairs : /\ DOMAIN sent[p] = 1..Len(sent[p])
                       /\ DOMAIN posted[p] = 1..Len(posted[p])
    BY <1>2 DEF NetTypeOK
<1>4. ASSUME NEW r \in Ranks, todo[r] = << >>
      PROVE  \A v \in Vectors : ~Open(r, v)
    BY <1>1, <1>4, AtEndOf DEF OpenSet
<1>5. ASSUME NEW p \in Pairs, todo[p[2]] = << >>
      PROVE  posted[p] = << >>
  <2>1. posted[p] \in Seq(Receive)
      BY <1>2 DEF NetTypeOK
  <2>2. ASSUME NEW k \in 1..Len(posted[p])
        PROVE  FALSE
    <3>1. posted[p][k] \in Receive
        BY <2>1
    <3>2. posted[p][k].vec \in Vectors
        BY <3>1 DEF Receive
    <3>3. QED BY <1>2, <1>4, <1>5, <3>2, PairOf DEF Expected
  <2>3. QED BY <2>1, <2>2
<1>6. ASSUME NEW r \in Ranks, todo[r] = << >>, NEW v \in Vectors
      PROVE  in_transfer[r][v] = "IDLE" /\ Waitall(r, v)
  <2>1. in_transfer[r][v] = "IDLE"
      BY <1>2, <1>4, <1>6 DEF Open, NetTypeOK
  <2>2. AllArrived(r, v)
    <3>1. \A p \in Pairs : p[2] = r => posted[p] = << >>
        BY <1>5, <1>6
    <3>2. QED BY <3>1 DEF AllArrived
  <2>3. AllSent(r, v)
      BY <1>2, <1>3, <1>4, <1>6 DEF AllSent, Buffered
  <2>4. QED BY <2>1, <2>2, <2>3 DEF Waitall
<1>7. ASSUME \A s \in Ranks : Finished(s), NEW p \in Pairs
      PROVE  sent[p] = << >>
  <2>1. p[1] \in Ranks /\ p[2] \in Ranks
      BY PairOf
  <2>2. N[p[1]] = H[MaxOps].n /\ N[p[2]] = H[MaxOps].n
      BY <1>1, <1>7, <2>1, AtEndOf DEF Finished
  <2>3. PICK n \in Nat : n = N[p[1]] /\ n = N[p[2]] /\ n <= Len(T)
      BY <1>2, <2>1, <2>2
  <2>4. posted[p] = << >>
      BY <1>5, <1>7, <2>1 DEF Finished
  <2>5. QueueOK(sent[p], posted[p], p[1], T, n, n, a[p], b[p])
      BY <1>2, <2>3 DEF Queues
  <2>6. \A i : ~IsIn(i, b[p])
      BY <2>4, <2>5 DEF QueueOK, Receives, IsIn
  <2>7. sent[p] \in Seq(Message)
      BY <1>2 DEF NetTypeOK
  <2>8. ASSUME NEW k \in 1..Len(sent[p])
        PROVE  FALSE
    <3>1. PICK i : i = a[p][k]
        OBVIOUS
    <3>2. i \in 1..n /\ Len(a[p]) = Len(sent[p])
        BY <2>5, <3>1 DEF QueueOK, Sends
    <3>3. IsIn(i, a[p])
        BY <3>1, <3>2 DEF IsIn
    <3>4. i \in 1..Len(T) /\ ~(i > n)
        BY <1>2, <2>3, <3>2
    <3>5. QED BY <2>5, <2>6, <3>3, <3>4 DEF QueueOK, Agree
  <2>9. QED BY <2>7, <2>8
<1>8. QED BY <1>6, <1>7 DEF NothingLeftBehind

\* A halo is read only when it holds what the neighbors computed, and all of
\* it: exchanges are skipped on the word of dirty bits that are set and cleared
\* in many places, ranks run ahead of each other, and MPI is free to be late.
THEOREM HaloReadsCurrent ==
    Spec => []ReadsCurrent
<1> QED BY HaloInvariant, InvMeansReads, PTL

\* Between operations a clean dirty bit means a current halo, and ranks at the
\* same point of the program have the same dirty bits, so that each decides
\* alone whether to take part in an exchange and all decide alike.
THEOREM HaloDirtyBitsTrue ==
    Spec => []DirtyBitsTrue
<1> QED BY HaloInvariant, InvMeansDirtyBits, PTL

\* A send buffer keeps what was gathered in it for as long as a message still
\* has to be read from it: no exchange of the same vector, of whatever kind,
\* begins before the last one of this rank is over.
THEOREM HaloSendBufferKept ==
    Spec => []SendBufferKept
<1> QED BY HaloInvariant, InvMeansBuffers, PTL

\* Between operations no transfer is under way: every receive was matched and
\* every buffer given back; and when all ranks are done no message is left.
THEOREM HaloNothingLeftBehind ==
    Spec => []NothingLeftBehind
<1> QED BY HaloInvariant, InvMeansNothingLeft, PTL

-----------------------------------------------------------------------------
(* An exchange is a barrier among neighbors. *)

\* A transfer begins for a vector that has none under way, and ends for one
\* that has.
LEMMA Begins ==
    ASSUME NEW c, NEW O, NEW D, NEW W, NEW q, NEW D1, NEW W1, NEW r, NEW v \in Vectors,
           Stage(c, O, D, W, q, D1, W1, r), c # << >>, NEW f, Head(c) = <<f, v>>,
           \/ f \in {"ring2", "fold"}
           \/ f \in {"exchange", "spmv", "async"} /\ v \in D
    PROVE  v \notin O
<1>1. CASE f = "ring2"
  <2>1. AtRing2(c, O, D, W, q, D1, W1)
      BY <1>1, StageHead
  <2>2. QED BY <2>1 DEF AtRing2
<1>2. CASE f = "fold"
  <2>1. AtFold(c, O, D, W, q, D1, W1)
      BY <1>2, StageHead
  <2>2. QED BY <2>1 DEF AtFold
<1>3. CASE f = "exchange"
  <2>1. AtExchange(c, O, D, W, q, D1, W1)
      BY <1>3, StageHead
  <2>2. QED BY <2>1 DEF AtExchange
<1>4. CASE f = "spmv"
  <2>1. AtProduct(c, O, D, W, q, D1, W1)
      BY <1>4, StageHead
  <2>2. QED BY <2>1 DEF AtProduct
<1>5. CASE f = "async" /\ v \in D
  <2>1. AtAsync1(c, O, D, W, q, D1, W1) \/ AtAsync2(c, O, D, W, q, D1, W1, r)
      BY <1>5, StageHead
  <2>2. QED BY <1>5, <2>1, AsyncBegins
<1>6. QED BY <1>1, <1>2, <1>3, <1>4, <1>5

LEMMA Ends ==
    ASSUME NEW c, NEW O, NEW D, NEW W, NEW q, NEW D1, NEW W1, NEW r, NEW v \in Vectors,
           Stage(c, O, D, W, q, D1, W1, r), c # << >>, NEW f, Head(c) = <<f, v>>,
           \/ f \in {"finish", "scatter"}
           \/ f = "wait" /\ (v \in O \/ v \in D)
    PROVE  v \in O
<1>1. CASE f = "finish"
  <2>1. AtFinish(c, O, D, W, q, D1, W1, r)
      BY <1>1, StageHead
  <2>2. O = {v} /\ Calm(<< >> \o Tail(c), O \ {v}, D \ {v}, W, q, D1, W1, r)
      BY <1>1, <2>1, FinishStage
  <2>3. QED BY <2>2
<1>2. CASE f = "scatter"
  <2>1. AtScatter(c, O, D, W, q, D1, W1)
      BY <1>2, StageHead
  <2>2. QED BY <1>2, <2>1, ScatterTail
<1>3. CASE f = "wait" /\ (v \in O \/ v \in D)
  <2>1. AtWait(c, O, D, W, q, D1, W1, r)
      BY <1>3, StageHead
  <2>2. /\ v \in O <=> v \in D
        /\ Calm(<< >> \o Tail(c), O \ {v}, D \ {v}, W, q, D1, W1, r)
      BY <1>3, <2>1, WaitStage
  <2>3. QED BY <1>3, <2>2
<1>4. QED BY <1>1, <1>2, <1>3

LEMMA TransfersAlternate ==
    ASSUME Inv, NEW r \in Ranks, NEW v \in Vectors, NEW f, Doing(r, f, v)
    PROVE  /\ \/ f \in {"ring2", "fold"}
              \/ f \in {"exchange", "spmv", "async"} /\ dirtybit[r][v]
              => ~Open(r, v)
           /\ \/ f \in {"finish", "scatter"}
              \/ f = "wait" /\ (in_transfer[r][v] # "IDLE" \/ dirtybit[r][v])
              => Open(r, v)
<1>1. PICK T, E, H, N, a, b : TypeOK /\ Good(T, E, H, N, a, b)
    BY DEF Inv
<1>2. PICK q : Stage(todo[r], OpenSet(r), DirtySet(r), ver[r], q,
                     H[pc[r]].d, H[pc[r]].w, r)
    BY <1>1, Before
<1>3. PICK k, O, D, W, D1, W1 :
        /\ k = todo[r] /\ O = OpenSet(r) /\ D = DirtySet(r) /\ W = ver[r]
        /\ D1 = H[pc[r]].d /\ W1 = H[pc[r]].w
    OBVIOUS
<1>4. Stage(k, O, D, W, q, D1, W1, r) /\ k # << >> /\ Head(k) = <<f, v>>
    BY <1>2, <1>3 DEF Doing
<1>5. (v \in O <=> Open(r, v)) /\ (v \in D <=> dirtybit[r][v])
    BY <1>3 DEF OpenSet, DirtySet
<1>6. in_transfer[r][v] # "IDLE" => v \in O
    BY <1>1, <1>5 DEF TypeOK, NetTypeOK, Open
<1>7. ASSUME \/ f \in {"ring2", "fold"}
             \/ f \in {"exchange", "spmv", "async"} /\ v \in D
      PROVE  v \notin O
    BY <1>4, <1>7, Begins
<1>8. ASSUME \/ f \in {"finish", "scatter"}
             \/ f = "wait" /\ (v \in O \/ v \in D)
      PROVE  v \in O
    BY <1>4, <1>8, Ends
<1>9. QED BY <1>5, <1>6, <1>7, <1>8

LEMMA PostEnters ==
    ASSUME Inv, NEW r \in Ranks, NEW v \in Vectors, ~Open(r, v), NEW data,
           NEW sendTag, NEW recvTags, Post(r, v, data, sendTag, recvTags)
    PROVE  Barrier!Next
<1>1. PICK T, E, H, N, a, b : TypeOK /\ Good(T, E, H, N, a, b)
    BY DEF Inv
<1>2. entered[r][v] = left[r][v]
    BY <1>1 DEF Good, Net, Counted
<1>3. Barrier!Enter(r, v)
    BY <1>2 DEF Post, Barrier!Enter
<1>4. QED BY <1>3 DEF Barrier!Next

LEMMA EndLeaves ==
    ASSUME Inv, NEW r \in Ranks, NEW v \in Vectors, Open(r, v), EndTransfer(r, v)
    PROVE  Barrier!Next
<1>1. PICK T, E, H, N, a, b : TypeOK /\ Good(T, E, H, N, a, b)
    BY DEF Inv
<1>2. NetTypeOK /\ Listed(T, E) /\ Net(T, E, N, a, b)
    BY <1>1 DEF Good, TypeOK
<1>3. left[r][v] < entered[r][v]
  <2>1. entered[r][v] = left[r][v] + 1
      BY <1>2 DEF Net, Counted
  <2>2. left[r][v] \in Nat
      BY <1>2 DEF NetTypeOK
  <2>3. QED BY <2>1, <2>2
<1>4. \A n \in Neighbors[r] : entered[n][v] >= entered[r][v]
    BY <1>2, EndArrived
<1>5. Barrier!Leave(r, v)
    BY <1>3, <1>4 DEF EndTransfer, Barrier!Leave
<1>6. QED BY <1>5 DEF Barrier!Next

LEMMA StepSynchronizes ==
    ASSUME Inv, [Next]_vars
    PROVE  [Barrier!Next]_(Barrier!vars)
<1>1. ASSUME NEW r \in Ranks, NEW v \in Vectors, ExchangeHalo(r, v)
      PROVE  Barrier!Next
    BY <1>1, TransfersAlternate, PostEnters DEF ExchangeHalo, PostByRank
<1>2. ASSUME NEW r \in Ranks, NEW v \in Vectors, ExchangeForProduct(r, v)
      PROVE  Barrier!Next
    BY <1>2, TransfersAlternate, PostEnters DEF ExchangeForProduct, PostByRank, PostByTag
<1>3. ASSUME NEW r \in Ranks, NEW v \in Vectors, ExchangeAsync(r, v)
      PROVE  Barrier!Next
    BY <1>3, TransfersAlternate, PostEnters DEF ExchangeAsync, PostByTag
<1>4. ASSUME NEW r \in Ranks, NEW v \in Vectors, FoldHalo(r, v)
      PROVE  Barrier!Next
    BY <1>4, TransfersAlternate, PostEnters DEF FoldHalo, PostByRank
<1>5. ASSUME NEW r \in Ranks, NEW v \in Vectors, FinishExchange(r, v)
      PROVE  Barrier!Next
    BY <1>5, TransfersAlternate, EndLeaves DEF FinishExchange
<1>6. ASSUME NEW r \in Ranks, NEW v \in Vectors, ScatterFold(r, v)
      PROVE  Barrier!Next
    BY <1>6, TransfersAlternate, EndLeaves DEF ScatterFold
<1>7. ASSUME UNCHANGED <<entered, left>>
      PROVE  UNCHANGED Barrier!vars
    BY <1>7 DEF Barrier!vars
<1>8. ASSUME NEW r \in Ranks, RankStep(r)
      PROVE  [Barrier!Next]_(Barrier!vars)
  <2>1. CASE Fetch(r)
      BY <1>7, <2>1 DEF Fetch, history
  <2>2. ASSUME NEW v \in Vectors,
               \/ SkipClean(r, v) \/ MarkDirty(r, v) \/ WriteRows(r, v)
               \/ ZeroGuess(r, v) \/ ReadHalo(r, v)
        PROVE  UNCHANGED Barrier!vars
      BY <1>7, <2>2 DEF SkipClean, MarkDirty, WriteRows, ZeroGuess, ReadHalo, history
  <2>3. ASSUME NEW x \in Vectors, NEW b \in Vectors, SmootherBranch(r, x, b)
        PROVE  UNCHANGED Barrier!vars
      BY <1>7, <2>3 DEF SmootherBranch, history
  <2>4. QED BY <1>1, <1>2, <1>3, <1>4, <1>5, <1>6, <1>8, <2>1, <2>2, <2>3 DEF RankStep
<1>9. CASE Mpi
    BY <1>7, <1>9 DEF Mpi, SendEagerly, Deliver, local, history
<1>10. CASE UNCHANGED vars
    BY <1>7, <1>10 DEF vars, history
<1>11. QED BY <1>8, <1>9, <1>10 DEF Next, AllFinished

\* The exchanges of a vector are a barrier among neighbors, whatever way of
\* exchanging each was done in: NeighborSync is what the callers of
\* exchange_halo() may rely on, and every step of this module is one of it or
\* leaves it alone.
THEOREM HaloSynchronizes ==
    Spec => ImplementsNeighborSync
<1>1. Init => Barrier!Init
    BY DEF Init, Barrier!Init
<1>2. Inv /\ [Next]_vars => [Barrier!Next]_(Barrier!vars)
    BY StepSynchronizes
<1>3. QED BY <1>1, <1>2, HaloInvariant, PTL DEF Spec, ImplementsNeighborSync, Barrier!Spec
-----------------------------------------------------------------------------
(* Nobody waits forever. *)

\* The program is not longer than it may be.
Bounded == Len(program) <= MaxOps

LEMMA StepBounded ==
    ASSUME TypeOK, Bounded, [Next]_vars
    PROVE  Bounded'
<1>1. program \in Seq(Ops) /\ MaxOps \in Nat
    BY HaloAssumption DEF TypeOK, RankTypeOK
<1>2. UNCHANGED program => Bounded'
    BY DEF Bounded
<1>3. ASSUME NEW r \in Ranks, Fetch(r)
      PROVE  Bounded'
  <2>1. CASE UNCHANGED program
      BY <1>2, <2>1
  <2>2. ASSUME ~(pc[r] < Len(program)), NEW op \in Ops, program' = Append(program, op)
        PROVE  Bounded'
    <3>1. pc[r] \in Nat /\ pc[r] < MaxOps
        BY <1>3 DEF Fetch, TypeOK, RankTypeOK
    <3>2. Len(program') = Len(program) + 1 /\ Len(program) \in Nat
        BY <1>1, <2>2, Appended
    <3>3. QED BY <1>1, <2>2, <3>1, <3>2 DEF Bounded
  <2>3. QED BY <1>3, <2>1, <2>2 DEF Fetch
<1>4. ASSUME NEW r \in Ranks, RankStep(r), ~Fetch(r)
      PROVE  UNCHANGED program
    BY <1>4 DEF RankStep, SkipClean, ExchangeHalo, ExchangeForProduct, ExchangeAsync,
            FinishExchange, FoldHalo, ScatterFold, MarkDirty, WriteRows, ZeroGuess,
            ReadHalo, SmootherBranch
<1>5. CASE Mpi
    BY <1>2, <1>5 DEF Mpi, SendEagerly, Deliver, local
<1>6. CASE UNCHANGED vars
    BY <1>2, <1>6 DEF vars
<1>7. QED BY <1>2, <1>3, <1>4, <1>5, <1>6 DEF Next, AllFinished

\* Every non-empty set of numbers has a least one.
LEMMA LeastOf ==
    ASSUME NEW S, S \subseteq Nat, S # {}
    PROVE  \E k \in S : \A l \in S : k <= l
<1> DEFINE R == OpToRel(<, Nat)
<1>1. \A i, j \in Nat : i < j => <<i, j>> \in R
    BY DEF OpToRel
<1>2. IsWellFoundedOn(R, Nat)
    BY NatLessThanWellFounded
<1> HIDE DEF R
<1>3. PICK k \in S : \A l \in S : ~(<<l, k>> \in R)
    BY <1>2, WFMin
<1>4. \A l \in S : ~(l < k)
    BY <1>1, <1>3
<1>5. QED BY <1>3, <1>4

\* The first receive of a queue, if its message is there, is matched with it:
\* no other of its tag comes before.
LEMMA FirstMatches ==
    ASSUME NEW ms \in Seq(Message), NEW rs \in Seq(Receive), NEW s, NEW T,
           NEW ns \in Nat, NEW nd \in Nat, NEW sx, NEW rx,
           QueueOK(ms, rs, s, T, ns, nd, sx, rx), Len(T) \in Nat,
           ns <= Len(T), nd <= Len(T), NEW j \in 1..Len(rs), NEW i \in 1..Len(ms),
           sx[i] = rx[j], \A k \in 1..Len(rs) : rx[j] <= rx[k]
    PROVE  Matching(ms, rs, i, j)
<1>1. /\ Len(sx) = Len(ms) /\ Len(ms) \in Nat /\ Increasing(sx)
      /\ \A k \in 1..Len(ms) : sx[k] \in 1..ns /\ ms[k].tag = TagOf(T[sx[k]], s)
    BY DEF QueueOK, Sends
<1>2. /\ Len(rx) = Len(rs) /\ Len(rs) \in Nat /\ Increasing(rx)
      /\ \A k \in 1..Len(rs) : rx[k] \in 1..nd /\ rs[k].tag = TagOf(T[rx[k]], s)
    BY DEF QueueOK, Receives
<1>3. ASSUME NEW k \in 1..(j - 1)
      PROVE  FALSE
  <2>1. k \in 1..Len(rx) /\ j \in 1..Len(rx) /\ k < j
      BY <1>2
  <2>2. rx[k] < rx[j] /\ rx[j] <= rx[k] /\ rx[k] \in Nat /\ rx[j] \in Nat
      BY <1>2, <2>1 DEF Increasing
  <2>3. QED BY <2>2
<1>4. ASSUME NEW k \in 1..(i - 1)
      PROVE  FALSE
  <2>1. k \in 1..Len(sx) /\ i \in 1..Len(sx) /\ k < i
      BY <1>1
  <2>2. sx[k] < sx[i] /\ sx[k] \in 1..ns
      BY <1>1, <2>1 DEF Increasing
  <2>3. sx[k] \in 1..Len(T) /\ ~(sx[k] > nd) /\ sx[k] < rx[j]
      BY <1>2, <2>2
  <2>4. IsIn(sx[k], rx)
      BY <2>1, <2>3 DEF IsIn, QueueOK, Agree
  <2>5. PICK l \in 1..Len(rs) : rx[l] = sx[k]
      BY <1>2, <2>4 DEF IsIn
  <2>6. rx[j] <= sx[k] /\ rx[j] \in Nat
      BY <1>2, <2>5
  <2>7. QED BY <2>3, <2>6
<1>5. FirstOfTag(ms, i) /\ FirstOfTag(rs, j)
    BY <1>3, <1>4 DEF FirstOfTag
<1>6. QED BY <1>1, <1>2, <1>5 DEF Matching

\* The transfer with the least number, of those a rank still expects a message
\* of, is one its neighbor has begun or will get to.
LEMMA InvMeansNobodyWaits ==
    ASSUME Inv, Bounded
    PROVE  NobodyWaitsForever
<1> SUFFICES ASSUME NEW r0 \in Ranks, Waits(r0), ~MpiCanMove,
                    \A r \in Ranks : Waits(r) \/ Finished(r)
             PROVE  FALSE
    BY DEF NobodyWaitsForever
<1>1. PICK T, E, H, N, a, b : TypeOK /\ Good(T, E, H, N, a, b)
    BY DEF Inv
<1>2. /\ NetTypeOK /\ Queues(T, N, a, b) /\ Program(T, H)
      /\ N \in [Ranks -> Nat] /\ Len(T) \in Nat
      /\ \A r \in Ranks : N[r] <= Len(T)
    BY <1>1 DEF TypeOK, Good, Net, Counted, Listed
<1>3. \A p \in Pairs : /\ sent[p] \in Seq(Message) /\ posted[p] \in Seq(Receive)
                       /\ DOMAIN sent[p] = 1..Len(sent[p])
                       /\ DOMAIN posted[p] = 1..Len(posted[p])
    BY <1>2 DEF NetTypeOK
<1>4. ASSUME NEW p \in Pairs
      PROVE  QueueOK(sent[p], posted[p], p[1], T, N[p[1]], N[p[2]], a[p], b[p])
    BY <1>2 DEF Queues
<1>5. ASSUME NEW r \in Ranks, Waits(r)
      PROVE  \E p \in Pairs : p[2] = r /\ \E j \in 1..Len(posted[p]) : TRUE
  <2>1. PICK v \in Vectors : ~Waitall(r, v)
      BY <1>5 DEF Waits
  <2>2. AllSent(r, v)
      BY DEF AllSent, MpiCanMove
  <2>3. ~AllArrived(r, v)
      BY <2>1, <2>2 DEF Waitall
  <2>4. QED BY <1>3, <2>3 DEF AllArrived
<1> DEFINE Awaited == {k \in Nat : \E p \in Pairs : \E j \in 1..Len(posted[p]) : b[p][j] = k}
<1>6. ASSUME NEW p \in Pairs, NEW j \in 1..Len(posted[p])
      PROVE  b[p][j] \in Awaited /\ b[p][j] \in 1..N[p[2]]
  <2>1. b[p][j] \in 1..N[p[2]]
      BY <1>4 DEF QueueOK, Receives
  <2>2. N[p[2]] \in Nat
      BY <1>2, PairOf
  <2>3. QED BY <2>1, <2>2
<1>7. PICK k \in Awaited : \A l \in Awaited : k <= l
  <2>1. Awaited # {}
      BY <1>5, <1>6
  <2> HIDE DEF Awaited
  <2>2. Awaited \subseteq Nat
      BY DEF Awaited
  <2>3. QED BY <2>1, <2>2, LeastOf
<1>8. PICK p \in Pairs : \E jj \in 1..Len(posted[p]) : b[p][jj] = k
    BY <1>7 DEF Awaited
<1>9. PICK j \in 1..Len(posted[p]) : b[p][j] = k
    BY <1>8
<1>10. \A q \in Pairs : \A l \in 1..Len(posted[q]) : k <= b[q][l]
    BY <1>6, <1>7
<1> HIDE DEF Awaited
<1>11. PICK s \in Ranks, d \in Ranks : s = p[1] /\ d = p[2]
    BY PairOf
<1>12. PICK ns \in Nat, nd \in Nat : ns = N[s] /\ nd = N[d] /\ ns <= Len(T) /\ nd <= Len(T)
    BY <1>2
<1>13. k \in 1..nd
    BY <1>6, <1>9, <1>11, <1>12
<1>14. k > ns \/ IsIn(k, a[p])
  <2>1. k \in 1..Len(T)
      BY <1>2, <1>12, <1>13
  <2>2. Agree(T, ns, nd, a[p], b[p]) /\ Len(b[p]) = Len(posted[p])
      BY <1>4, <1>11, <1>12 DEF QueueOK, Receives
  <2>3. IsIn(k, b[p])
      BY <1>9, <2>2 DEF IsIn
  <2>4. QED BY <2>1, <2>2, <2>3 DEF Agree
<1>15. CASE IsIn(k, a[p])
  <2>1. QueueOK(sent[p], posted[p], s, T, ns, nd, a[p], b[p])
      BY <1>4, <1>11, <1>12
  <2>2. PICK i \in 1..Len(sent[p]) : a[p][i] = k
      BY <1>15, <2>1 DEF IsIn, QueueOK, Sends
  <2>3. Matching(sent[p], posted[p], i, j)
      BY <1>2, <1>3, <1>9, <1>10, <1>12, <2>1, <2>2, FirstMatches
  <2>4. QED BY <1>3, <2>3 DEF Matching, MpiCanMove
<1>16. CASE k > ns
  <2>1. CASE Waits(s)
    <3>1. PICK q \in Pairs : q[2] = s /\ \E l \in 1..Len(posted[q]) : TRUE
        BY <1>5, <2>1
    <3>2. PICK l \in 1..Len(posted[q]) : TRUE
        BY <3>1
    <3>3. b[q][l] \in 1..ns /\ k <= b[q][l]
        BY <1>6, <1>10, <1>12, <3>1, <3>2
    <3>4. QED BY <1>12, <1>13, <1>16, <3>3
  <2>2. CASE Finished(s)
    <3>1. pc[s] <= Len(program) /\ Len(program) \in Nat /\ pc[s] = MaxOps /\ MaxOps \in Nat
        BY <1>1, <2>2, HaloAssumption DEF TypeOK, RankTypeOK, Finished
    <3>2. pc[s] = Len(program)
        BY <3>1 DEF Bounded
    <3>3. N[s] = H[pc[s]].n
        BY <1>1, <2>2, AtEndOf DEF Finished
    <3>4. ns = Len(T)
        BY <1>2, <1>12, <3>2, <3>3 DEF Program
    <3>5. QED BY <1>12, <1>13, <1>16, <3>4
  <2>3. QED BY <2>1, <2>2
<1>17. QED BY <1>14, <1>15, <1>16

\* Ranks never wait for each other in a circle, nor for a rank that is done:
\* in whatever order they come to their exchanges, and however late MPI is,
\* there is always a message to move or a rank that goes on.
THEOREM HaloNobodyWaitsForever ==
    Spec => []NobodyWaitsForever
<1>1. Init => Bounded
    BY HaloAssumption DEF Init, Bounded
<1>2. Inv /\ Bounded /\ [Next]_vars => Bounded'
    BY StepBounded DEF Inv
<1>3. Inv /\ Bounded => NobodyWaitsForever
    BY InvMeansNobodyWaits
<1>4. QED BY <1>1, <1>2, <1>3, HaloInvariant, PTL DEF Spec
=============================================================================
