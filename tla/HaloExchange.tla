---------------------------- MODULE HaloExchange ----------------------------
(***************************************************************************)
(* The exchange of vector halos between the ranks of a distributed solve:  *)
(* DistributedManager's exchange_halo, _v2, _async, _split, _wait, _2ring, *)
(* add_from_halo and min_from_halo (distributed_manager.h), over the host  *)
(* buffers and MPI requests of CommsMPIHostBufferStream, as their callers  *)
(* use them: matrix products, smoothers, restrictions, and the explicit    *)
(* exchanges of the classical setup.                                       *)
(*                                                                         *)
(* All ranks run one program, chosen as it is run: `program' is the list   *)
(* of operations so far, and a rank that reaches its end adds one.  Ranks  *)
(* advance on their own; MPI moves messages on its own.                    *)
(*                                                                         *)
(* Data is abstracted to versions.  ver[r][v] counts the updates rank r    *)
(* made to its rows of v; since all ranks run one program, a halo is       *)
(* current when the versions in it are the rank's own.  Version 0 is no    *)
(* version: rows put together from different updates, or not received.     *)
(***************************************************************************)
EXTENDS Naturals, SequencesExt

CONSTANTS
    Ranks,        \* global ids of the processes
    Neighbors,    \* manager->neighbors of each rank
    Vectors,      \* the vectors of the program
    Tag,          \* the tag of each vector
    BigRanks,     \* ranks with at least min_rows_latency_hiding rows
    MaxOps        \* bound: operations in a program

ASSUME HaloAssumption ==
    /\ Ranks \subseteq Nat
    /\ Neighbors \in [Ranks -> SUBSET Ranks]
    /\ \A r \in Ranks : Neighbors[r] # {} /\ r \notin Neighbors[r]
    /\ \A r, s \in Ranks : s \in Neighbors[r] <=> r \in Neighbors[s]
    /\ Tag \in [Vectors -> Nat]
    /\ BigRanks \subseteq Ranks
    /\ MaxOps \in Nat

VARIABLES
    program,      \* the operations chosen so far, the same for all ranks
    pc,           \* operations each rank has begun
    todo,         \* calls left of a rank's current operation
    dirtybit,     \* Vector::dirtybit: the halo is out of date
    in_transfer,  \* Vector::in_transfer
    ver,          \* version of a rank's own rows of a vector
    halo,         \* version of the rows of each neighbor in the halo
    sendBuffer,   \* explicit_host_buffer, send half: the version in it
    recvBuffer,   \* explicit_host_buffer, receive half, by neighbor
    sent,         \* sent[s][d]: messages on the way from s to d
    posted,       \* posted[d][s]: receives d posted from s, unmatched
    entered,      \* history: transfers of a vector a rank has begun
    left          \* history: ... and completed

network == <<sendBuffer, sent, posted, recvBuffer>>
history == <<entered, left>>
vars == <<program, pc, todo, dirtybit, in_transfer, ver, halo, network,
          history>>

Pairs == {p \in Ranks \X Ranks : p[1] \in Neighbors[p[2]]}

\* The operations.  A product reads one vector and writes another; a smoother
\* reads two and writes the first; the others work on one.
Ops ==
    ({"update", "exchange", "ring2", "combine"} \X Vectors)
    \cup ({"multiply", "smooth", "smoothZero"}
             \X {p \in Vectors \X Vectors : p[1] # p[2]})

\* mutant: a rank asks only whether its own partition is big.
LatencyHidingOwn(r) == r \in BigRanks

\* isLatencyHidingEnabled() looks at every partition, so all ranks agree on
\* whether the interior view of a matrix differs from its exterior view.
LatencyHiding(r) == BigRanks # {}

-----------------------------------------------------------------------------
(* The calls an operation makes, in order. *)

Calls(op) ==
    LET v == op[2] IN
    CASE op[1] = "update"     -> << <<"write", v>> >>
      [] op[1] = "exchange"   -> << <<"exchange", v>>, <<"read", v>> >>
      [] op[1] = "ring2"      -> << <<"ring2", v>>, <<"read", v>> >>
      [] op[1] = "combine"    -> << <<"fold", v>>, <<"dirty", v>> >>
      [] op[1] = "multiply"   -> << <<"spmv", v[1]>>, <<"read", v[1]>>,
                                    <<"write", v[2]>> >>
      [] op[1] = "smooth"     -> << <<"async", v[1]>>, <<"async", v[2]>>,
                                    <<"branch", v>> >>
      [] op[1] = "smoothZero" -> << <<"zero", v[1]>>, <<"async", v[1]>>,
                                    <<"async", v[2]>>, <<"branch", v>> >>

\* mutant: the smoother looks at the first of its vectors only.
SmootherTailOne(r, x, b) ==
    (IF ~dirtybit[r][x] THEN << >> ELSE << <<"wait", x>>, <<"wait", b>> >>)
    \o << <<"read", x>>, <<"read", b>>, <<"write", x>> >>

\* The rest of a smoother: with one view only, or something still to arrive,
\* wait for both vectors; then the rows that depend on the halo.
SmootherTail(r, x, b) ==
    (IF LatencyHiding(r) /\ ~dirtybit[r][x] /\ ~dirtybit[r][b]
     THEN << >>
     ELSE << <<"wait", x>>, <<"wait", b>> >>)
    \o << <<"read", x>>, <<"read", b>>, <<"write", x>> >>

Doing(r, fn, v) == todo[r] # << >> /\ Head(todo[r]) = <<fn, v>>

\* The current call is over; `calls' come before the ones left.
Continue(r, calls) == todo' = [todo EXCEPT ![r] = calls \o Tail(@)]

-----------------------------------------------------------------------------
(* Transfers. *)

Init ==
    /\ program = << >>
    /\ pc = [r \in Ranks |-> 0]
    /\ todo = [r \in Ranks |-> << >>]
    /\ dirtybit = [r \in Ranks |-> [v \in Vectors |-> TRUE]]
    /\ in_transfer = [r \in Ranks |-> [v \in Vectors |-> "IDLE"]]
    /\ ver = [r \in Ranks |-> [v \in Vectors |-> 1]]
    /\ halo = [r \in Ranks |-> [v \in Vectors |-> [n \in Neighbors[r] |-> 0]]]
    /\ sendBuffer = [r \in Ranks |-> [v \in Vectors |-> 0]]
    /\ recvBuffer = halo
    /\ sent = [p \in Pairs |-> << >>]
    /\ posted = [p \in Pairs |-> << >>]
    /\ entered = [r \in Ranks |-> [v \in Vectors |-> 0]]
    /\ left = [r \in Ranks |-> [v \in Vectors |-> 0]]

\* setup(), gather, one MPI_Isend and one MPI_Irecv per neighbor.  The tag of
\* an outgoing message and the tag a receive asks for are given apart: the
\* blocking exchanges tag a message with its sender's rank, the asynchronous
\* ones with the vector's tag.
Post(r, v, data, sendTag, recvTags) ==
    /\ sendBuffer' = [sendBuffer EXCEPT ![r][v] = data]
    /\ sent' = [p \in Pairs |->
                  IF p[1] # r THEN sent[p]
                  ELSE Append(sent[p], [tag |-> sendTag, vec |-> v,
                                        val |-> data, copied |-> FALSE])]
    /\ posted' = [p \in Pairs |->
                    IF p[2] # r THEN posted[p]
                    ELSE Append(posted[p], [tag |-> recvTags[p[1]], vec |-> v])]
    /\ in_transfer' = [in_transfer EXCEPT ![r][v] = "BOTH"]
    /\ entered' = [entered EXCEPT ![r][v] = @ + 1]
    /\ UNCHANGED <<recvBuffer, left>>

PostByRank(r, v, data) ==
    Post(r, v, data, r, [n \in Neighbors[r] |-> n])

PostByTag(r, v, data) ==
    Post(r, v, data, Tag[v], [n \in Neighbors[r] |-> Tag[v]])

\* MPI_Waitall on all requests of the vector: its sends have left the buffer
\* and its receives have been matched.
AllArrived(r, v) ==
    \A p \in Pairs : p[2] = r =>
        \A i \in DOMAIN posted[p] : posted[p][i].vec # v
AllSent(r, v) ==
    \A p \in Pairs : p[1] = r =>
        \A i \in DOMAIN sent[p] : sent[p][i].vec = v => sent[p][i].copied

\* mutants: half of the requests, the sends or the receives.
WaitallSends(r, v) == AllSent(r, v)
WaitallReceives(r, v) == AllArrived(r, v)

Waitall(r, v) == AllArrived(r, v) /\ AllSent(r, v)

EndTransfer(r, v) ==
    /\ Waitall(r, v)
    /\ dirtybit' = [dirtybit EXCEPT ![r][v] = FALSE]
    /\ in_transfer' = [in_transfer EXCEPT ![r][v] = "IDLE"]
    /\ left' = [left EXCEPT ![r][v] = @ + 1]
    /\ UNCHANGED <<sendBuffer, sent, posted, recvBuffer, entered>>

-----------------------------------------------------------------------------
(* The calls.  A vector that is not dirty is not exchanged. *)

\* The next operation of the program, chosen now if no rank got there yet.
Fetch(r) ==
    /\ todo[r] = << >>
    /\ pc[r] < MaxOps
    /\ \E op \in Ops :
         /\ IF pc[r] < Len(program)
            THEN op = program[pc[r] + 1] /\ UNCHANGED program
            ELSE program' = Append(program, op)
         /\ todo' = [todo EXCEPT ![r] = Calls(op)]
    /\ pc' = [pc EXCEPT ![r] = @ + 1]
    /\ UNCHANGED <<dirtybit, in_transfer, ver, halo, network, history>>

\* A call that finds the halo clean returns at once, and so does a wait on a
\* rank too small to hide latency: it has waited already.
SkipClean(r, v) ==
    /\ \/ /\ ~dirtybit[r][v]
          /\ \/ Doing(r, "exchange", v) \/ Doing(r, "spmv", v)
             \/ Doing(r, "async", v)
             \/ Doing(r, "wait", v) /\ in_transfer[r][v] = "IDLE"
       \/ Doing(r, "wait", v) /\ r \notin BigRanks
    /\ Continue(r, << >>)
    /\ UNCHANGED <<program, pc, dirtybit, in_transfer, ver, halo, network,
                   history>>

\* exchange_halo(), and exchange_halo_2ring(), which does not ask whether the
\* halo is dirty.
ExchangeHalo(r, v) ==
    /\ \/ Doing(r, "exchange", v) /\ dirtybit[r][v]
       \/ Doing(r, "ring2", v)
    /\ PostByRank(r, v, ver[r][v])
    /\ Continue(r, << <<"finish", v>> >>)
    /\ UNCHANGED <<program, pc, dirtybit, ver, halo>>

\* The exchange of a matrix product: split_gather and split_finish around the
\* interior rows when latency is hidden, exchange_halo_v2 before them if not.
ExchangeForProduct(r, v) ==
    /\ Doing(r, "spmv", v)
    /\ dirtybit[r][v]
    /\ IF LatencyHiding(r) THEN PostByTag(r, v, ver[r][v])
       ELSE PostByRank(r, v, ver[r][v])
    /\ Continue(r, << <<"finish", v>> >>)
    /\ UNCHANGED <<program, pc, dirtybit, ver, halo>>

\* exchange_halo_async(): a small rank waits inside it.
ExchangeAsync(r, v) ==
    /\ Doing(r, "async", v)
    /\ dirtybit[r][v]
    /\ PostByTag(r, v, ver[r][v])
    /\ Continue(r, IF r \in BigRanks THEN << >> ELSE << <<"finish", v>> >>)
    /\ UNCHANGED <<program, pc, dirtybit, ver, halo>>

\* The blocking end of an exchange: inside the call that began it, or in
\* exchange_halo_wait() on a rank big enough to hide latency.
FinishExchange(r, v) ==
    /\ \/ Doing(r, "finish", v)
       \/ /\ Doing(r, "wait", v)
          /\ r \in BigRanks
          /\ in_transfer[r][v] # "IDLE" \/ dirtybit[r][v]
    /\ EndTransfer(r, v)
    /\ halo' = [halo EXCEPT ![r][v] = recvBuffer[r][v]]
    /\ Continue(r, << >>)
    /\ UNCHANGED <<program, pc, ver>>

\* min_from_halo() and add_from_halo(): every row of v, the halo's too, gets
\* a value of this rank's own, and the halo's are sent to their owners.
FoldHalo(r, v) ==
    /\ Doing(r, "fold", v)
    /\ PostByRank(r, v, ver[r][v] + 1)
    /\ halo' = [halo EXCEPT ![r][v] = [n \in Neighbors[r] |-> 0]]
    /\ Continue(r, << <<"scatter", v>> >>)
    /\ UNCHANGED <<program, pc, dirtybit, ver>>

\* The neighbors' values are combined with the rank's own.  The halo is
\* marked clean although nothing was written to it.
ScatterFold(r, v) ==
    /\ Doing(r, "scatter", v)
    /\ EndTransfer(r, v)
    /\ ver' = [ver EXCEPT ![r][v] =
                  IF \A n \in Neighbors[r] : recvBuffer[r][v][n] = @ + 1
                  THEN @ + 1 ELSE 0]
    /\ Continue(r, << >>)
    /\ UNCHANGED <<program, pc, halo>>

\* mutant: the caller does not set the dirty bit again.
MarkDirtyForgotten(r, v) ==
    /\ Doing(r, "dirty", v)
    /\ Continue(r, << >>)
    /\ UNCHANGED <<program, pc, dirtybit, in_transfer, ver, halo, network,
                   history>>

\* ... which is why its callers set the dirty bit once more.
MarkDirty(r, v) ==
    /\ Doing(r, "dirty", v)
    /\ dirtybit' = [dirtybit EXCEPT ![r][v] = TRUE]
    /\ Continue(r, << >>)
    /\ UNCHANGED <<program, pc, in_transfer, ver, halo, network, history>>

\* A kernel that writes the rank's rows, and the dirty bit its caller sets.
WriteRows(r, v) ==
    /\ Doing(r, "write", v)
    /\ ver' = [ver EXCEPT ![r][v] = @ + 1]
    /\ dirtybit' = [dirtybit EXCEPT ![r][v] = TRUE]
    /\ Continue(r, << >>)
    /\ UNCHANGED <<program, pc, in_transfer, halo, network, history>>

\* A zero initial guess fills the halo as well and needs no exchange.
ZeroGuess(r, v) ==
    /\ Doing(r, "zero", v)
    /\ ver' = [ver EXCEPT ![r][v] = @ + 1]
    /\ halo' = [halo EXCEPT ![r][v] = [n \in Neighbors[r] |-> ver[r][v] + 1]]
    /\ dirtybit' = [dirtybit EXCEPT ![r][v] = FALSE]
    /\ Continue(r, << >>)
    /\ UNCHANGED <<program, pc, in_transfer, network, history>>

\* The smoother decides how to go on from the state of its vectors.
SmootherBranch(r, x, b) ==
    /\ Doing(r, "branch", <<x, b>>)
    /\ Continue(r, SmootherTail(r, x, b))
    /\ UNCHANGED <<program, pc, dirtybit, in_transfer, ver, halo, network,
                   history>>

\* A kernel over rows that depend on the halo.
ReadHalo(r, v) ==
    /\ Doing(r, "read", v)
    /\ Continue(r, << >>)
    /\ UNCHANGED <<program, pc, dirtybit, in_transfer, ver, halo, network,
                   history>>

-----------------------------------------------------------------------------
(* MPI.  A message stays in its sender's buffer until MPI copies it (an    *)
(* eager send) or hands it over (a rendezvous), as late as it likes.  For  *)
(* each tag, messages from one rank to another match receives in order.    *)

local == <<program, pc, todo, dirtybit, in_transfer, ver, halo, sendBuffer,
           history>>

FirstOfTag(queue, i) ==
    \A j \in 1..(i - 1) : queue[j].tag # queue[i].tag

\* What leaves the sender's buffer is what is in it at that time.
Payload(p, m) == IF m.copied THEN m.val ELSE sendBuffer[p[1]][m.vec]

SendEagerly(p, i) ==
    /\ ~sent[p][i].copied
    /\ sent' = [sent EXCEPT ![p][i].copied = TRUE,
                            ![p][i].val = Payload(p, sent[p][i])]
    /\ UNCHANGED <<local, posted, recvBuffer>>

Deliver(p, i, j) ==
    /\ FirstOfTag(sent[p], i) /\ FirstOfTag(posted[p], j)
    /\ sent[p][i].tag = posted[p][j].tag
    /\ recvBuffer' = [recvBuffer EXCEPT ![p[2]][posted[p][j].vec][p[1]] =
                        Payload(p, sent[p][i])]
    /\ sent' = [sent EXCEPT ![p] = RemoveAt(@, i)]
    /\ posted' = [posted EXCEPT ![p] = RemoveAt(@, j)]
    /\ UNCHANGED local

Mpi ==
    \E p \in Pairs : \E i \in DOMAIN sent[p] :
        \/ SendEagerly(p, i)
        \/ \E j \in DOMAIN posted[p] : Deliver(p, i, j)

-----------------------------------------------------------------------------

RankStep(r) ==
    \/ Fetch(r)
    \/ \E v \in Vectors :
         \/ SkipClean(r, v) \/ ExchangeHalo(r, v) \/ ExchangeForProduct(r, v)
         \/ ExchangeAsync(r, v) \/ FinishExchange(r, v) \/ FoldHalo(r, v)
         \/ ScatterFold(r, v) \/ MarkDirty(r, v) \/ WriteRows(r, v)
         \/ ZeroGuess(r, v) \/ ReadHalo(r, v)
    \/ \E x, b \in Vectors : SmootherBranch(r, x, b)

Finished(r) == pc[r] = MaxOps /\ todo[r] = << >>

\* The program is over on every rank.
AllFinished == (\A r \in Ranks : Finished(r)) /\ UNCHANGED vars

Next == (\E r \in Ranks : RankStep(r)) \/ Mpi \/ AllFinished

Spec == Init /\ [][Next]_vars

-----------------------------------------------------------------------------
(* Properties. *)

\* The halo of v on rank r holds what every neighbor's rows are at this point
\* of the program, and these are rows of one update.
Current(r, v) ==
    /\ ver[r][v] # 0
    /\ \A n \in Neighbors[r] : halo[r][v][n] = ver[r][v]

\* Whenever a kernel reads rows that depend on the halo, the halo is current:
\* no matter how far ahead or behind the neighbors are, which of the six ways
\* of exchanging was taken, and when MPI moved the messages.
ReadsCurrent ==
    \A r \in Ranks, v \in Vectors : Doing(r, "read", v) => Current(r, v)

\* Between operations the dirty bits may be trusted.  A clean one means that
\* the halo is current, which lets every exchange be skipped on a clean
\* vector; and ranks at the same point of the program agree on them.  Each
\* exchange is collective among neighbors but every rank decides alone whether
\* to take part: one that disagreed would leave the others waiting.
DirtyBitsTrue ==
    /\ \A r \in Ranks, v \in Vectors :
         todo[r] = << >> /\ ~dirtybit[r][v] => Current(r, v)
    /\ \A r, s \in Ranks :
         pc[r] = pc[s] /\ todo[r] = << >> /\ todo[s] = << >>
             => dirtybit[r] = dirtybit[s]

\* A send buffer is not written again while a message still has to be read
\* from it: sends are waited for before setup() hands the buffer out again.
SendBufferKept ==
    \A p \in Pairs : \A i \in DOMAIN sent[p] :
        ~sent[p][i].copied => sendBuffer[p[1]][sent[p][i].vec] = sent[p][i].val

\* Between operations a rank has no transfer under way: no receive that a
\* later message could be matched with, no vector marked as in transfer.
NothingLeftBehind ==
    \A r \in Ranks : todo[r] = << >> =>
        /\ \A v \in Vectors : in_transfer[r][v] = "IDLE" /\ Waitall(r, v)
        /\ (\A s \in Ranks : Finished(s)) => \A p \in Pairs : sent[p] = << >>

\* Rank r is in a call that waits for requests not complete yet.
Waits(r) ==
    \E v \in Vectors :
        /\ \/ Doing(r, "finish", v) \/ Doing(r, "scatter", v)
           \/ /\ Doing(r, "wait", v)
              /\ r \in BigRanks
              /\ in_transfer[r][v] # "IDLE" \/ dirtybit[r][v]
        /\ ~Waitall(r, v)

\* There is a message to copy, or one to match with a receive.
MpiCanMove ==
    \E p \in Pairs : \E i \in DOMAIN sent[p] :
        \/ ~sent[p][i].copied
        \/ \E j \in DOMAIN posted[p] :
             /\ FirstOfTag(sent[p], i) /\ FirstOfTag(posted[p], j)
             /\ sent[p][i].tag = posted[p][j].tag

\* Ranks never wait for each other in a circle, or for one that is done: while
\* any rank waits, MPI has something to do or another rank goes on.  It takes
\* one rank that skips an exchange its neighbors make, or labels its messages
\* in a way they do not expect, to stop them all.
NobodyWaitsForever ==
    (\E r \in Ranks : Waits(r)) =>
        MpiCanMove \/ \E r \in Ranks : ~Waits(r) /\ ~Finished(r)

\* An exchange is a barrier among neighbors, for each vector, although ranks
\* may skip an exchange, choose another way of doing it and use tags that
\* collide: a rank that waits, waits for a message that is coming.
Barrier == INSTANCE NeighborSync
ImplementsNeighborSync == Barrier!Spec
=============================================================================
