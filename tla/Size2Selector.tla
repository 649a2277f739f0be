---------------------------- MODULE Size2Selector ----------------------------
(***************************************************************************)
(* Pairwise aggregation by handshakes on the device                        *)
(* (aggregation/selectors/size2_selector.cu,                               *)
(* setAggregates_common_sqblocks): unaggregated rows stretch a hand to     *)
(* their strongest unaggregated neighbor, and two rows whose hands meet    *)
(* are a pair.  Rows without unaggregated neighbors join a neighbor or stay *)
(* alone.  The rounds stop at a limit, and what is left is merged.         *)
(*                                                                         *)
(* A kernel has a thread per row.  In the kernels that find the neighbors  *)
(* a thread reads the aggregates of other rows while their threads write   *)
(* them: for each row written since the kernel began it sees the old value *)
(* or the new one.  The other kernels write only what no other thread      *)
(* reads, and are one step.  Kernels of the stream follow one another.     *)
(***************************************************************************)
EXTENDS Integers, FiniteSets, FiniteSetsExt

CONSTANTS
    Rows,       \* owned rows; others are skipped everywhere
    Inputs      \* what to consider, see Size2Assumption

\* edges: off-diagonal entries.  weight: edge_weights of an entry, the same both
\* ways, 0 where the matrix has one of the two entries only; negative weights
\* exist with weight_formula 1.  rand: random_weight2 of two rows.
\* maxIterations, tolerance (in percent): limits of the rounds.
Size2Assumption ==
    /\ Rows \subseteq Nat /\ IsFiniteSet(Rows)
    /\ \A in \in Inputs :
         /\ in.edges \subseteq {e \in Rows \X Rows : e[1] # e[2]}
         /\ in.weight \in [in.edges -> Int]
         /\ \A e \in in.edges : LET back == <<e[2], e[1]>>
              IN IF back \in in.edges THEN in.weight[e] = in.weight[back]
                 ELSE in.weight[e] = 0
         /\ in.rand \in [Rows \X Rows -> Nat]
         /\ {in.two_phase, in.merge_singletons, in.deterministic} \subseteq BOOLEAN
         /\ {in.max_iterations, in.tolerance} \subseteq Nat
ASSUME Size2Assumption

VARIABLES
    input,                \* the input of this behavior; it does not change
    kernel,               \* kernel that runs, or the host's step between two
    threads,              \* rows whose thread has not ended in this kernel
    began,                \* aggregates when this kernel began
    aggregates,           \* -1: unaggregated
    hands,                \* strongest_neighbour_1phase and strongest_neighbour
    candidates,           \* aggregates_candidate
    icount,               \* rounds
    unassigned,           \* numUnassigned
    previous,             \* numUnassigned_previous
    counted               \* the count under way to the host

state == <<aggregates, hands, candidates>>
host == <<icount, unassigned, previous, counted>>
vars == <<input, kernel, threads, began, state, host>>

Nobody == [i \in Rows |-> -1]
Free(agg) == {i \in Rows : agg[i] = -1}
Neighbors(i) == {j \in Rows : <<i, j>> \in input.edges}

-----------------------------------------------------------------------------
(* What a thread finds. *)

\* The row of the set with the largest weight, then the largest index; -1 if
\* there is none with a weight of 0 or more.
Strongest(rows, w) ==
    LET positive == {j \in rows : w[j] >= 0}
        heaviest == {j \in positive : \A k \in positive : w[j] >= w[k]}
    IN IF positive = {} THEN -1 ELSE Max(heaviest)

\* What thread i may read: for rows written in this kernel, either value.
Views(i) ==
    {[j \in Rows |-> IF j \in new THEN aggregates[j] ELSE began[j]] :
       new \in SUBSET {j \in Neighbors(i) : aggregates[j] # began[j]}}

\* In the second phase only rows that gave a hand in the first count.
Considered(i, phase, first) == {j \in Neighbors(i) : phase = 2 => first[j] = i}
EdgeWeight(i, phase, j) ==
    IF phase = 1 THEN input.weight[<<i, j>>] ELSE input.rand[<<i, j>>]

Hand(i, phase, unaggregated, first) ==
    IF phase = 1 THEN IF unaggregated = -1 THEN i ELSE unaggregated
    ELSE IF /\ unaggregated # -1
            /\ input.rand[<<i, unaggregated>>] > input.rand[<<i, first[i]>>]
         THEN unaggregated ELSE first[i]

\* The aggregate a row joins when all neighbors considered have one, or else
\* its hand; first: the hands of the first phase.
Found(phase, i, view, first) ==
    LET rows == Considered(i, phase, first)
        w == [j \in rows |-> EdgeWeight(i, phase, j)]
        unaggregated == Strongest(rows \cap Free(view), w)
        aggregated == Strongest(rows \ Free(view), w)
    IN [aggregate |-> IF unaggregated # -1 \/ aggregated = -1 THEN -1
                      ELSE IF input.merge_singletons THEN view[aggregated] ELSE i,
        hand |-> Hand(i, phase, unaggregated, first)]

\* Aggregate of the strongest aggregated neighbor, or one of its own.
Joined(i, view) ==
    LET w == [j \in Neighbors(i) |-> input.weight[<<i, j>>]]
        aggregated == Strongest(Neighbors(i) \ Free(view), w)
    IN IF aggregated = -1 THEN i ELSE view[aggregated]

\* matchEdges: both rows of a pair take the smaller index.
Match(i, hand) ==
    IF hand[hand[i]] # i THEN -1
    ELSE IF hand[i] > i THEN i ELSE hand[i]

-----------------------------------------------------------------------------
(* Kernels. *)

\* The host launches a kernel whose threads run in any order.
Launch(name) ==
    /\ kernel' = name
    /\ threads' = Free(aggregates')
    /\ began' = aggregates'

\* The host goes on to a step of its own, or to a kernel that is one step.
Goto(name) ==
    /\ kernel' = name
    /\ UNCHANGED <<threads, began>>

Find(phase) == IF phase = 1 THEN "find" ELSE "find2"

\* findStrongestNeighbourBlockDiaCsr_V2, the thread of an unaggregated row.
FindStrongestNeighbour(phase, i) ==
    /\ kernel = Find(phase)
    /\ i \in threads
    /\ \E view \in Views(i) :
         LET found == Found(phase, i, view, hands[1])
         IN /\ aggregates' = [aggregates EXCEPT ![i] = found.aggregate]
            /\ hands' = IF found.aggregate # -1 THEN hands
                        ELSE [hands EXCEPT ![phase][i] = found.hand]
    /\ threads' = threads \ {i}
    /\ UNCHANGED <<input, kernel, began, candidates, host>>

EndFind(phase) ==
    /\ kernel = Find(phase)
    /\ threads = {}
    /\ UNCHANGED <<input, state, host>>
    /\ IF input.two_phase /\ phase = 1 THEN Launch("find2") ELSE Goto("match")

\* With one phase both phases' hands are one array.
strongest_neighbour == hands[IF input.two_phase THEN 2 ELSE 1]

MatchEdges ==
    /\ kernel = "match"
    /\ aggregates' = [i \in Rows |->
                        IF aggregates[i] # -1 THEN aggregates[i]
                        ELSE Match(i, strongest_neighbour)]
    /\ Goto("count")
    /\ UNCHANGED <<input, hands, candidates, host>>

-----------------------------------------------------------------------------
(* The loop of the host.  Even rounds start to count, and odd rounds wait for *)
(* that count: what the host knows is a round old.                            *)

StartCount ==
    /\ kernel = "count"
    /\ icount % 2 = 0
    /\ counted' = Cardinality(Free(aggregates))
    /\ icount' = icount + 1
    /\ UNCHANGED <<input, aggregates, hands, candidates, unassigned, previous>>
    /\ Launch("find")

\* mutant: the rounds end while the count falls.
EndsFalling(count, before, rounds) ==
    \/ count = 0
    \/ rounds > input.max_iterations
    \/ 100 * count < input.tolerance * Cardinality(Rows)
    \/ count # before

\* The rounds end; what they leave is merged or becomes singletons.
Ends(count, before, rounds) ==
    \/ count = 0
    \/ rounds > input.max_iterations
    \/ 100 * count < input.tolerance * Cardinality(Rows)
    \/ count = before

ReadCount ==
    /\ kernel = "count"
    /\ icount % 2 = 1
    /\ previous' = unassigned
    /\ unassigned' = counted
    /\ icount' = icount + 1
    /\ UNCHANGED <<input, aggregates, hands, candidates, counted>>
    /\ IF ~Ends(unassigned', previous', icount') THEN Launch("find")
       ELSE IF input.merge_singletons THEN Goto("left") ELSE Goto("singletons")

-----------------------------------------------------------------------------
(* What the rounds leave. *)

\* The host has a count other than 0.
LaunchMerge ==
    /\ kernel = "left"
    /\ unassigned # 0
    /\ UNCHANGED <<input, state, host>>
    /\ Launch("merge")

\* mutant: threads write the aggregates with determinism_flag too.
MergeInPlace(i) ==
    /\ kernel = "merge"
    /\ i \in threads
    /\ \E view \in Views(i) : aggregates' = [aggregates EXCEPT ![i] = Joined(i, view)]
    /\ threads' = threads \ {i}
    /\ UNCHANGED <<input, kernel, began, hands, candidates, host>>

\* mergeWithExistingAggregatesBlockDiaCsr_V2, the thread of a row.
Merge(i) ==
    /\ kernel = "merge"
    /\ i \in threads
    /\ \E view \in Views(i) :
         IF input.deterministic
         THEN /\ candidates' = [candidates EXCEPT ![i] = Joined(i, view)]
              /\ UNCHANGED aggregates
         ELSE /\ aggregates' = [aggregates EXCEPT ![i] = Joined(i, view)]
              /\ UNCHANGED candidates
    /\ threads' = threads \ {i}
    /\ UNCHANGED <<input, kernel, began, hands, host>>

\* mutant: the host does not count again.
EndMergeUncounted ==
    /\ kernel = "merge"
    /\ threads = {}
    /\ aggregates' = [i \in Rows |->
                        IF input.deterministic /\ aggregates[i] = -1
                        THEN candidates[i] ELSE aggregates[i]]
    /\ Goto("left")
    /\ UNCHANGED <<input, hands, candidates, host>>

\* joinExistingAggregates if deterministic, then the count.
EndMerge ==
    /\ kernel = "merge"
    /\ threads = {}
    /\ aggregates' = [i \in Rows |->
                        IF input.deterministic /\ aggregates[i] = -1
                        THEN candidates[i] ELSE aggregates[i]]
    /\ unassigned' = Cardinality(Free(aggregates'))
    /\ Goto("left")
    /\ UNCHANGED <<input, hands, candidates, icount, previous, counted>>

\* mutant: the rows the rounds leave stay without aggregate.
EndMergingAtOnce ==
    /\ kernel = "left"
    /\ Goto("done")
    /\ UNCHANGED <<input, state, host>>

EndMerging ==
    /\ kernel = "left"
    /\ unassigned = 0
    /\ Goto("done")
    /\ UNCHANGED <<input, state, host>>

AggregateSingletons ==
    /\ kernel = "singletons"
    /\ aggregates' = [i \in Rows |-> IF aggregates[i] = -1 THEN i ELSE aggregates[i]]
    /\ Goto("done")
    /\ UNCHANGED <<input, hands, candidates, host>>

-----------------------------------------------------------------------------

Init ==
    /\ input \in Inputs
    /\ kernel = "find" /\ threads = Rows /\ began = Nobody
    /\ aggregates = Nobody /\ hands = <<Nobody, Nobody>> /\ candidates = Nobody
    /\ icount = 0 /\ counted = 0
    /\ unassigned = Cardinality(Rows) /\ previous = Cardinality(Rows)

Step ==
    \/ \E i \in Rows : \/ \E phase \in 1..2 : FindStrongestNeighbour(phase, i)
                       \/ Merge(i)
    \/ \E phase \in 1..2 : EndFind(phase)
    \/ MatchEdges \/ StartCount \/ ReadCount
    \/ LaunchMerge \/ EndMerge \/ EndMerging \/ AggregateSingletons

Next == Step \/ (kernel = "done" /\ UNCHANGED vars)
Spec == Init /\ [][Next]_vars /\ WF_vars(Step)

-----------------------------------------------------------------------------
(* Properties. *)

Labels == Rows \cup {-1}

Members(label) == {i \in Rows : aggregates[i] = label}

\* No cut parts the rows into two without an entry between them.
Connected(rows) ==
    \A part \in SUBSET rows :
      (part # {} /\ part # rows) =>
        \E i \in part : \E j \in rows \ part : {<<i, j>>, <<j, i>>} \cap input.edges # {}

\* Every row has an aggregate in the end, and no aggregate is in two pieces:
\* one of them would be interpolated from rows it is not coupled to.  With
\* one phase the row an aggregate is named after is in it.
AggregatesConnected ==
    /\ kernel = "done" => Free(aggregates) = {}
    /\ \A i \in Rows : aggregates[i] # -1 =>
          LET members == Members(aggregates[i])
          IN Connected(members) /\ (~input.two_phase => aggregates[i] \in members)

\* Each round finds a pair, so that only a limit ends the rounds with two
\* neighbors unaggregated.
OnlyLimitsLeaveNeighbors ==
    (/\ kernel \in {"left", "singletons"}
     /\ ~input.two_phase
     /\ icount <= input.max_iterations
     /\ 100 * unassigned >= input.tolerance * Cardinality(Rows))
       => \A e \in input.edges :
            ~({e[1], e[2]} \subseteq Free(aggregates) /\ input.weight[e] > 0)

\* What the selector does in one phase if the threads of a kernel all read what
\* was there when it began.
Snapshots == [agg : [Rows -> Labels], hand : [Rows -> Labels]]
InStep ==
    LET found[x \in Snapshots] ==
          LET f == [i \in Free(x.agg) |-> Found(1, i, x.agg, x.hand)]
          IN [agg |-> [i \in Rows |-> IF i \in Free(x.agg) THEN f[i].aggregate
                                      ELSE x.agg[i]],
              hand |-> [i \in Rows |-> IF i \in Free(x.agg) /\ f[i].aggregate = -1
                                       THEN f[i].hand ELSE x.hand[i]]]
        matched[x \in Snapshots] ==
          [x EXCEPT !.agg =
             [i \in Rows |-> IF @[i] # -1 THEN @[i] ELSE Match(i, x.hand)]]
        round[n \in 0..icount] ==
          IF n = 0 THEN [agg |-> Nobody, hand |-> Nobody]
          ELSE matched[found[round[n - 1]]]
        left == round[icount].agg
    IN [i \in Rows |-> IF left[i] # -1 THEN left[i]
                       ELSE IF input.merge_singletons THEN Joined(i, left) ELSE i]

\* No row depends on when a row is aggregated that cannot answer: by weight 0 it
\* may prefer that one to a row with an entry both ways, and with
\* merge_singletons it joins the aggregate of that one, a round sooner or later.
ZerosHarmless ==
    \A e \in input.edges :
      input.weight[e] = 0 =>
        <<e[2], e[1]>> \notin input.edges /\ ~input.merge_singletons

\* The aggregates are a function of the matrix and the parameters if
\* determinism_flag is set: the timing of threads does not matter, as long as
\* there is one phase and entries of weight 0 do no harm.
TimingIrrelevant ==
    (kernel = "done" /\ input.deterministic /\ ~input.two_phase /\ ZerosHarmless)
      => aggregates = InStep

\* The selector returns.
SelectorReturns == <>(kernel = "done")
=============================================================================
