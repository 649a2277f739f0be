----------------------------- MODULE CycleProofs -----------------------------
(***************************************************************************)
(* Proofs about Cycle, for every depth, cycle type and number of sweeps.   *)
(*                                                                         *)
(* The invariant speaks of the whole stack, not of the visit on top only.  *)
(* Every call below the top waits for the one above it (Returns), calls    *)
(* further up work on pairs of vectors further down the hierarchy (Deep),  *)
(* and a call that is past its smoothing holds a usable x and has reset    *)
(* the flag of its level (Keeps).  The vectors and flags a step overwrites *)
(* belong to pairs deeper than the top, so nothing that waits is touched.  *)
(*                                                                         *)
(* The second half counts visits: every call on the stack owes as many as  *)
(* its type, its level and the iterations it has left say (Pending), and   *)
(* with those made they are the visits of the whole iteration (Balance).   *)
(***************************************************************************)
EXTENDS Cycle, WellFoundedInduction, TLAPS

Op == {"pre", "restrict", "launch", "prolong", "coarse", "cg", "update", "iteration"}

FrameType ==
  [op : Op, level : Levels, type : CycleTypes, pair : Pairs, iters : Nat]

TypeOK ==
  /\ mode \in Modes
  /\ init \in [Levels -> BOOLEAN]
  /\ valid \in [Pairs -> BOOLEAN]
  /\ stack \in Seq(FrameType)
  /\ visits \in [Levels -> Nat]
  /\ rounds \in Nat

\* The calls that are one visit of a level by FixedCycle::cycle.
OneVisit == {"pre", "restrict", "launch", "prolong"}

\* What every call says of itself.
FrameOK(f) ==
  /\ f.pair \in {Given(f.level), Krylov(f.level)}
  /\ f.op \in {"iteration", "coarse", "cg", "update"} => f.pair = Given(f.level)
  /\ f.op \in {"restrict", "prolong"} => ~IsCoarsest(f.level)
  /\ f.op = "iteration" => f.level = 0

\* When f returns, g goes on with what f made.
Returns(f, g) ==
  \/ /\ g.op = "prolong" /\ f.op # "iteration"
     /\ f.level = g.level + 1 /\ f.pair = Given(g.level + 1)
  \/ /\ g.op = "update" /\ f.op \in OneVisit
     /\ f.level = g.level /\ f.pair = Krylov(g.level)
  \/ /\ g.op \in {"pre", "iteration"} /\ f.op \in OneVisit
     /\ f.level = g.level /\ f.pair = g.pair

\* Pairs of vectors in the order in which the calls descend to them.
Depth(f) == 2 * f.level + IF f.pair = Krylov(f.level) THEN 1 ELSE 0

\* The order of two calls in the stack, f above g.
Above(f, g) ==
  \/ Depth(g) < Depth(f)
  \/ Depth(g) = Depth(f) /\ g.op \in {"pre", "iteration"}

Frames(s) ==
  /\ s # <<>> => s[Len(s)].op = "iteration"
  /\ \A i \in 1..Len(s) : FrameOK(s[i]) /\ (s[i].op = "iteration" => i = Len(s))

Chain(s) == \A i \in 1..Len(s) - 1 : Returns(s[i], s[i + 1])

Deep(s) == \A i, j \in 1..Len(s) : i < j => Above(s[i], s[j])

Shape(s) == Frames(s) /\ Chain(s) /\ Deep(s)

\* A call past its smoothing keeps a usable x (xs says which vectors are
\* usable); nobody marks its level again (flags says which levels are marked).
Keeps(f, xs, flags) ==
  /\ f.op \in {"restrict", "launch", "prolong"} => xs[f.pair] /\ ~flags[f.level]
  /\ f.op = "update" => xs[f.pair]

KeepsAll(s, xs, flags) == \A i \in 1..Len(s) : Keeps(s[i], xs, flags)

\* What the call on top finds.
Finds(f, xs, flags) ==
  /\ f.op \in {"pre", "coarse", "cg"} => flags[f.level] = ~xs[f.pair]
  /\ f.op = "prolong" => xs[Given(f.level + 1)]
  /\ f.op = "update" => xs[Krylov(f.level)]
  /\ f.op = "iteration" => xs[f.pair]

\* Between iterations x is the approximation of the last one.
Idle == stack = <<>> => ~init[0] /\ (rounds > 0 => valid[Given(0)])

CycleInv ==
  /\ TypeOK
  /\ Shape(stack)
  /\ KeepsAll(stack, valid, init)
  /\ stack # <<>> => Finds(Top, valid, init)
  /\ Idle

-----------------------------------------------------------------------------
(* Stacks. *)

\* What is left when the first element is taken off a sequence.
LEMMA TailOf ==
  ASSUME NEW S, NEW s \in Seq(S), s # <<>>
  PROVE  /\ Len(s) \in Nat \ {0} /\ s[1] \in S
         /\ Tail(s) \in Seq(S) /\ Len(Tail(s)) = Len(s) - 1
         /\ \A i \in 1..Len(s) - 1 : Tail(s)[i] = s[i + 1]
  OBVIOUS

\* An element put in front of a sequence.
LEMMA Pushed ==
  ASSUME NEW S, NEW t \in Seq(S), NEW f \in S
  PROVE  /\ <<f>> \o t \in Seq(S) /\ <<f>> \o t # <<>>
         /\ Len(<<f>> \o t) = Len(t) + 1
         /\ (<<f>> \o t)[1] = f /\ Tail(<<f>> \o t) = t
         /\ \A i \in 1..Len(t) : (<<f>> \o t)[i + 1] = t[i]
<1> DEFINE u == <<f>> \o t
<1>1. u \in Seq(S) /\ Len(u) = Len(t) + 1 /\ u[1] = f
  OBVIOUS
<1>2. \A i \in 1..Len(t) : u[i + 1] = t[i]
  OBVIOUS
<1>3. u # <<>>
  BY <1>1
<1>4. Tail(u) = t
  <2>1. Tail(u) \in Seq(S) /\ Len(Tail(u)) = Len(t)
    BY <1>1, <1>3, TailOf
  <2>2. \A i \in 1..Len(t) : Tail(u)[i] = t[i]
    BY <1>1, <1>2, <1>3, TailOf
  <2> HIDE DEF u
  <2>3. QED BY <2>1, <2>2
<1>5. QED BY <1>1, <1>2, <1>3, <1>4

\* The depth of a call says which pair it works on.
LEMMA DepthOf ==
  ASSUME NEW f \in FrameType, FrameOK(f)
  PROVE  /\ f.level \in Nat
         /\ f.pair = Given(f.level) => Depth(f) = 2 * f.level
         /\ f.pair = Krylov(f.level) => Depth(f) = 2 * f.level + 1
         /\ f.pair = Given(f.level) \/ f.pair = Krylov(f.level)
<1>1. f.level \in Nat
  BY DEF FrameType, Levels
<1>2. Given(f.level) # Krylov(f.level)
  BY DEF Given, Krylov
<1>3. QED BY <1>1, <1>2 DEF Depth, FrameOK

\* A call that another waits for is above it.
LEMMA ReturnsAbove ==
  ASSUME NEW f \in FrameType, NEW g \in FrameType, FrameOK(f), FrameOK(g), Returns(f, g)
  PROVE  Above(f, g)
<1>1. f.level \in Nat /\ g.level \in Nat
  BY DepthOf
<1>2. CASE g.op = "prolong" /\ f.level = g.level + 1 /\ f.pair = Given(g.level + 1)
  <2>1. Depth(f) = 2 * (g.level + 1)
    BY <1>2, DepthOf
  <2>2. Depth(g) <= 2 * g.level + 1
    BY <1>1, DepthOf
  <2>3. Depth(g) \in Nat
    BY <1>1, DepthOf
  <2>4. QED BY <1>1, <2>1, <2>2, <2>3 DEF Above
<1>3. CASE g.op = "update" /\ f.level = g.level /\ f.pair = Krylov(g.level)
  <2>1. g.pair = Given(g.level)
    BY <1>3 DEF FrameOK
  <2>2. QED BY <1>1, <1>3, <2>1, DepthOf DEF Above
<1>4. CASE g.op \in {"pre", "iteration"} /\ f.level = g.level /\ f.pair = g.pair
  BY <1>1, <1>4 DEF Above, Depth
<1>5. QED BY <1>2, <1>3, <1>4, Zenon DEF Returns

\* Above is transitive.
LEMMA AboveTrans ==
  ASSUME NEW f \in FrameType, NEW g \in FrameType, NEW h \in FrameType,
         FrameOK(f), FrameOK(g), FrameOK(h), Above(f, g), Above(g, h)
  PROVE  Above(f, h)
<1>1. Depth(f) \in Nat /\ Depth(g) \in Nat /\ Depth(h) \in Nat
  BY DepthOf
<1>2. QED BY <1>1 DEF Above

\* The call on top returns to the one that waits for it.
LEMMA PopShape ==
  ASSUME NEW s \in Seq(FrameType), Shape(s), s # <<>>, s[1].op # "iteration"
  PROVE  /\ Shape(Tail(s)) /\ Tail(s) # <<>>
         /\ Tail(s)[1] = s[2] /\ Returns(s[1], s[2])
<1> DEFINE t == Tail(s)
<1>1. /\ Len(s) \in Nat \ {0} /\ t \in Seq(FrameType) /\ Len(t) = Len(s) - 1
      /\ \A i \in 1..Len(s) - 1 : t[i] = s[i + 1]
  BY TailOf
<1> HIDE DEF t
<1>2. Len(s) > 1
  <2>1. s[Len(s)].op = "iteration"
    BY DEF Shape, Frames
  <2>2. Len(s) # 1
    BY <2>1
  <2>3. QED BY <1>1, <2>2
<1>3. t # <<>>
  BY <1>1, <1>2
<1>4. Frames(t)
  <2>1. t[Len(t)] = s[Len(s)]
    BY <1>1, <1>2
  <2>2. \A i \in 1..Len(t) : FrameOK(t[i]) /\ (t[i].op = "iteration" => i = Len(t))
    BY <1>1, <1>2 DEF Shape, Frames
  <2>3. s[Len(s)].op = "iteration"
    BY DEF Shape, Frames
  <2>4. QED BY <2>1, <2>2, <2>3 DEF Frames
<1>5. Chain(t)
  <2>1. ASSUME NEW i \in 1..Len(t) - 1
        PROVE  Returns(t[i], t[i + 1])
    <3>1. i + 1 \in 1..Len(s) - 1
      BY <1>1
    <3>2. Returns(s[i + 1], s[i + 1 + 1])
      BY <3>1 DEF Shape, Chain
    <3>3. t[i] = s[i + 1] /\ t[i + 1] = s[i + 1 + 1]
      BY <1>1, <3>1
    <3>4. QED BY <3>2, <3>3
  <2>2. QED BY <2>1 DEF Chain
<1>6. Deep(t)
  <2>1. ASSUME NEW i \in 1..Len(t), NEW j \in 1..Len(t), i < j
        PROVE  Above(t[i], t[j])
    <3>1. i + 1 \in 1..Len(s) /\ j + 1 \in 1..Len(s) /\ i + 1 < j + 1
      BY <1>1, <2>1
    <3>2. Above(s[i + 1], s[j + 1])
      BY <3>1 DEF Shape, Deep
    <3>3. t[i] = s[i + 1] /\ t[j] = s[j + 1]
      BY <1>1, <2>1
    <3>4. QED BY <3>2, <3>3
  <2>2. QED BY <2>1 DEF Deep
<1>7. t[1] = s[2] /\ Returns(s[1], s[2])
  BY <1>1, <1>2 DEF Shape, Chain
<1>8. QED BY <1>3, <1>4, <1>5, <1>6, <1>7 DEF Shape, t

\* A call for which the one on top waits is put on the stack.
LEMMA PushShape ==
  ASSUME NEW t \in Seq(FrameType), Shape(t), t # <<>>,
         NEW f \in FrameType, FrameOK(f), f.op # "iteration", Returns(f, t[1])
  PROVE  Shape(<<f>> \o t)
<1> DEFINE s == <<f>> \o t
<1>1. /\ s \in Seq(FrameType) /\ s # <<>> /\ Len(s) = Len(t) + 1
      /\ s[1] = f /\ \A i \in 1..Len(t) : s[i + 1] = t[i]
  BY Pushed
<1>2. Len(t) \in Nat \ {0} /\ \A i \in 1..Len(t) : t[i] \in FrameType
  OBVIOUS
<1> HIDE DEF s
<1>3. \A i \in 1..Len(s) : i = 1 \/ (i - 1 \in 1..Len(t) /\ s[i] = t[i - 1])
  BY <1>1, <1>2
<1>4. Frames(s)
  <2>1. s[Len(s)] = t[Len(t)]
    BY <1>1, <1>2
  <2>2. ASSUME NEW i \in 1..Len(s)
        PROVE  FrameOK(s[i]) /\ (s[i].op = "iteration" => i = Len(s))
    <3>1. CASE i = 1
      BY <1>1, <3>1
    <3>2. CASE i # 1
      <4>1. i - 1 \in 1..Len(t) /\ s[i] = t[i - 1]
        BY <1>3, <3>2
      <4>2. FrameOK(t[i - 1]) /\ (t[i - 1].op = "iteration" => i - 1 = Len(t))
        BY <4>1 DEF Shape, Frames
      <4>3. QED BY <1>1, <1>2, <4>1, <4>2
    <3>3. QED BY <3>1, <3>2
  <2>3. t[Len(t)].op = "iteration"
    BY DEF Shape, Frames
  <2>4. QED BY <2>1, <2>2, <2>3 DEF Frames
<1>5. Chain(s)
  <2>1. ASSUME NEW i \in 1..Len(s) - 1
        PROVE  Returns(s[i], s[i + 1])
    <3>1. CASE i = 1
      BY <1>1, <1>2, <3>1
    <3>2. CASE i # 1
      <4>1. i - 1 \in 1..Len(t) - 1 /\ i \in 1..Len(t)
        BY <1>1, <1>2, <3>2
      <4>2. Returns(t[i - 1], t[i - 1 + 1])
        BY <4>1 DEF Shape, Chain
      <4>3. s[i] = t[i - 1] /\ s[i + 1] = t[i - 1 + 1]
        BY <1>1, <1>3, <4>1
      <4>4. QED BY <4>2, <4>3
    <3>3. QED BY <3>1, <3>2
  <2>2. QED BY <2>1 DEF Chain
<1>6. Deep(s)
  <2>1. Above(f, t[1])
    BY <1>2, ReturnsAbove DEF Shape, Frames
  <2>2. ASSUME NEW j \in 1..Len(t)
        PROVE  Above(f, t[j])
    <3>1. CASE j = 1
      BY <2>1, <3>1
    <3>2. CASE j # 1
      <4>1. Above(t[1], t[j])
        BY <1>2, <3>2 DEF Shape, Deep
      <4>2. FrameOK(t[1]) /\ FrameOK(t[j])
        BY <1>2 DEF Shape, Frames
      <4>3. t[1] \in FrameType /\ t[j] \in FrameType
        BY <1>2
      <4>4. QED BY <2>1, <4>1, <4>2, <4>3, AboveTrans
    <3>3. QED BY <3>1, <3>2
  <2>3. ASSUME NEW i \in 1..Len(s), NEW j \in 1..Len(s), i < j
        PROVE  Above(s[i], s[j])
    <3>1. j - 1 \in 1..Len(t) /\ s[j] = t[j - 1]
      BY <1>1, <1>3, <2>3
    <3>2. CASE i = 1
      BY <1>1, <2>2, <3>1, <3>2
    <3>3. CASE i # 1
      <4>1. i - 1 \in 1..Len(t) /\ s[i] = t[i - 1] /\ i - 1 < j - 1
        BY <1>3, <2>3, <3>3
      <4>2. QED BY <3>1, <4>1 DEF Shape, Deep
    <3>4. QED BY <3>2, <3>3
  <2>4. QED BY <2>3 DEF Deep
<1>7. QED BY <1>4, <1>5, <1>6 DEF Shape, s

-----------------------------------------------------------------------------
(* Steps. *)

\* The call on top and the calls below it.
LEMMA TheTop ==
  ASSUME CycleInv, stack # <<>>
  PROVE  /\ Top \in FrameType /\ FrameOK(Top) /\ Keeps(Top, valid, init) /\ Finds(Top, valid, init)
         /\ Top.level \in Levels /\ Top.level \in Nat /\ Top.pair \in Pairs
         /\ Below \in Seq(FrameType) /\ Len(Below) = Len(stack) - 1
         /\ \A i \in 1..Len(Below) : i + 1 \in 2..Len(stack) /\ Below[i] = stack[i + 1]
<1>1. stack \in Seq(FrameType)
  BY DEF CycleInv, TypeOK
<1>2. /\ Len(stack) \in Nat \ {0} /\ stack[1] \in FrameType
      /\ Tail(stack) \in Seq(FrameType) /\ Len(Tail(stack)) = Len(stack) - 1
      /\ \A i \in 1..Len(stack) - 1 : Tail(stack)[i] = stack[i + 1]
  BY <1>1, TailOf
<1>3. 1 \in 1..Len(stack)
  BY <1>2
<1>4. FrameOK(Top)
  BY <1>3 DEF CycleInv, Shape, Frames, Top
<1>5. Keeps(Top, valid, init)
  BY <1>3 DEF CycleInv, KeepsAll, Top
<1>6. Finds(Top, valid, init)
  BY DEF CycleInv
<1>7. Top.level \in Levels /\ Top.pair \in Pairs /\ Levels \subseteq Nat
  BY <1>2 DEF Top, FrameType, Levels
<1>8. \A i \in 1..Len(Below) : i + 1 \in 2..Len(stack) /\ Below[i] = stack[i + 1]
  BY <1>2 DEF Below
<1>9. Top \in FrameType /\ Below \in Seq(FrameType) /\ Len(Below) = Len(stack) - 1
  BY <1>2 DEF Top, Below
<1>10. QED BY <1>4, <1>5, <1>6, <1>7, <1>8, <1>9, Zenon

\* A call below the top waits for the one above it, and what it holds for
\* later is less deep than the top.
LEMMA Waiting ==
  ASSUME CycleInv, stack # <<>>, NEW i \in 2..Len(stack)
  PROVE  /\ stack[i] \in FrameType /\ FrameOK(stack[i])
         /\ stack[i].op \in {"prolong", "update", "pre", "iteration"}
         /\ stack[i].op \in {"prolong", "update"} => Depth(stack[i]) < Depth(Top)
<1>1. stack \in Seq(FrameType) /\ Len(stack) \in Nat
  BY DEF CycleInv, TypeOK
<1>2. 1 \in 1..Len(stack) /\ i \in 1..Len(stack) /\ i - 1 \in 1..Len(stack) - 1 /\ 1 < i
  BY <1>1
<1>3. stack[i] \in FrameType /\ FrameOK(stack[i])
  BY <1>1, <1>2 DEF CycleInv, Shape, Frames
<1>4. stack[i].op \in {"prolong", "update", "pre", "iteration"}
  <2>1. Returns(stack[i - 1], stack[i - 1 + 1])
    BY <1>2 DEF CycleInv, Shape, Chain
  <2>2. i - 1 + 1 = i
    OBVIOUS
  <2>3. QED BY <2>1, <2>2 DEF Returns
<1>5. Above(stack[1], stack[i])
  BY <1>2 DEF CycleInv, Shape, Deep
<1>6. QED BY <1>3, <1>4, <1>5 DEF Above, Top

\* No call that waits loses what it holds when vectors deeper than the top
\* are overwritten and levels deeper than the top are marked.
LEMMA WaitingKept ==
  ASSUME CycleInv, stack # <<>>, mode' = mode,
         \A p \in Pairs :
           valid[p] /\ p # Given(Top.level + 1)
             /\ (p = Krylov(Top.level) => Top.pair # Given(Top.level)) => valid'[p],
         \A l \in Levels :
           ~init[l] /\ l # Top.level + 1
             /\ (l = Top.level => Top.pair # Given(Top.level)) => ~init'[l]
  PROVE  KeepsAll(Below, valid', init')
<1>1. ASSUME NEW i \in 2..Len(stack)
      PROVE  Keeps(stack[i], valid', init')
  <2> DEFINE g == stack[i]
  <2>1. /\ g \in FrameType /\ FrameOK(g)
        /\ g.op \in {"prolong", "update", "pre", "iteration"}
        /\ g.op \in {"prolong", "update"} => Depth(g) < Depth(Top)
    BY Waiting
  <2>2. Keeps(g, valid, init)
    BY DEF CycleInv, KeepsAll
  <2>3. Top \in FrameType /\ FrameOK(Top)
    BY TheTop
  <2> HIDE DEF g
  <2>4. g.level \in Levels /\ g.pair \in Pairs
    BY <2>1 DEF FrameType
  <2>5. ASSUME g.op \in {"prolong", "update"}
        PROVE  /\ g.pair # Given(Top.level + 1) /\ g.level # Top.level + 1
               /\ Top.pair = Given(Top.level) =>
                    g.pair # Krylov(Top.level) /\ g.level # Top.level
    <3>1. g.level \in Nat /\ Top.level \in Nat
      BY <2>1, <2>3, DepthOf
    <3>2. 2 * g.level <= Depth(g) /\ Depth(g) \in Nat
      BY <2>1, <3>1, DepthOf
    <3>3. Depth(Top) <= 2 * Top.level + 1 /\ Depth(Top) \in Nat
      BY <2>3, <3>1, DepthOf
    <3>4. Top.pair = Given(Top.level) => Depth(Top) = 2 * Top.level
      BY <2>3, DepthOf
    <3>5. g.level <= Top.level /\ (Top.pair = Given(Top.level) => g.level < Top.level)
      BY <2>1, <2>5, <3>1, <3>2, <3>3, <3>4
    <3>6. \A l \in Nat : l # g.level => g.pair # Given(l) /\ g.pair # Krylov(l)
      BY <2>1 DEF FrameOK, Given, Krylov
    <3>7. g.level # Top.level + 1 /\ (Top.pair = Given(Top.level) => g.level # Top.level)
      BY <3>1, <3>5
    <3>8. Top.level + 1 \in Nat
      BY <3>1
    <3>9. QED BY <3>1, <3>6, <3>7, <3>8
  <2>6. Keeps(g, valid', init')
    BY <2>1, <2>2, <2>4, <2>5 DEF Keeps
  <2>7. QED BY <2>6 DEF g
<1>2. QED BY <1>1, TheTop DEF KeepsAll

\* The invariant again, after a step that leaves the stack u.
LEMMA Preserved ==
  ASSUME CycleInv, mode' = mode, visits' \in [Levels -> Nat], rounds' \in Nat,
         valid' \in [Pairs -> BOOLEAN], init' \in [Levels -> BOOLEAN],
         stack' \in Seq(FrameType), Shape(stack'), stack' # <<>>,
         KeepsAll(stack', valid', init'), Finds(stack'[1], valid', init')
  PROVE  CycleInv'
<1>1. TypeOK'
  BY DEF CycleInv, TypeOK, FrameType, Pairs, Levels
<1>2. Shape(stack)'
  BY DEF Shape, Frames, Chain, Deep, FrameOK, IsCoarsest, Returns, Above
<1>3. KeepsAll(stack, valid, init)'
  BY DEF KeepsAll, Keeps
<1>4. Finds(Top, valid, init)'
  BY DEF Finds, Top
<1>5. Idle'
  BY DEF Idle
<1>6. QED BY <1>1, <1>2, <1>3, <1>4, <1>5 DEF CycleInv

\* The call on top returns, having made its x usable.
LEMMA ReturnStep ==
  ASSUME CycleInv, stack # <<>>, Top.op # "iteration",
         stack' = Below, mode' = mode, rounds' = rounds, visits' \in [Levels -> Nat],
         valid' = [valid EXCEPT ![Top.pair] = TRUE],
         init' = init \/ init' = [init EXCEPT ![Top.level] = FALSE],
         Top.op \in OneVisit => ~init'[Top.level]
  PROVE  CycleInv'
<1>1. /\ Top \in FrameType /\ FrameOK(Top) /\ Below \in Seq(FrameType)
      /\ Top.pair \in Pairs /\ Top.level \in Levels
      /\ Len(Below) = Len(stack) - 1
  BY TheTop
<1>2. /\ valid \in [Pairs -> BOOLEAN] /\ init \in [Levels -> BOOLEAN]
      /\ stack \in Seq(FrameType) /\ rounds \in Nat
  BY DEF CycleInv, TypeOK
<1>3. valid' \in [Pairs -> BOOLEAN] /\ init' \in [Levels -> BOOLEAN]
  BY <1>1, <1>2
<1>4. /\ Shape(Below) /\ Below # <<>>
      /\ Below[1] = stack[2] /\ Returns(Top, Below[1])
  BY <1>2, PopShape DEF CycleInv, Top, Below
<1>5. KeepsAll(Below, valid', init')
  <2>1. \A p \in Pairs : valid[p] => valid'[p]
    BY <1>1, <1>2
  <2>2. \A l \in Levels : init'[l] => init[l]
    BY <1>1, <1>2
  <2>3. QED BY <2>1, <2>2, WaitingKept
<1>6. Finds(Below[1], valid', init')
  <2> DEFINE g == Below[1]
  <2>1. g \in FrameType /\ g.op \in {"prolong", "update", "pre", "iteration"}
    BY <1>1, <1>4, Waiting
  <2>2. valid'[Top.pair]
    BY <1>1, <1>2
  <2>3. Returns(Top, g)
    BY <1>4
  <2> HIDE DEF g
  <2>4. ASSUME g.op = "pre"
        PROVE  init'[g.level] = ~valid'[g.pair]
    <3>1. Top.op \in OneVisit /\ g.level = Top.level /\ g.pair = Top.pair
      BY <2>3, <2>4 DEF Returns
    <3>2. init'[g.level] = FALSE
      BY <1>1, <1>3, <3>1
    <3>3. valid'[g.pair] = TRUE
      BY <1>1, <1>2, <3>1
    <3>4. QED BY <3>2, <3>3, Zenon
  <2>5. g.op \notin {"coarse", "cg"}
    BY <2>1
  <2>6. g.op = "prolong" => valid'[Given(g.level + 1)]
    BY <2>2, <2>3 DEF Returns
  <2>7. g.op = "update" => valid'[Krylov(g.level)]
    BY <2>2, <2>3 DEF Returns
  <2>8. g.op = "iteration" => valid'[g.pair]
    BY <2>2, <2>3 DEF Returns
  <2>9. Finds(g, valid', init')
    BY <2>4, <2>5, <2>6, <2>7, <2>8 DEF Finds
  <2>10. QED BY <2>9 DEF g
<1>7. QED BY <1>1, <1>2, <1>3, <1>4, <1>5, <1>6, Preserved

\* The number of sweeps is a number.
LEMMA PresweepsNat ==
  ASSUME mode \in ModeType, NEW l \in Nat
  PROVE  Presweeps(l) \in Nat
  BY DEF Presweeps, ModeType, Larger, IsCoarsest

\* The parameters of the solver.
LEMMA ModeIs ==
  ASSUME CycleInv
  PROVE  mode \in ModeType /\ mode.depth \in Nat \ {0} /\ 0 \in Levels
         /\ mode.cycle \in CycleTypes /\ Given(0) \in Pairs
  BY CycleAssumption DEF CycleInv, TypeOK, ModeType, Levels, Pairs, Given

\* What is written over an x that was already usable, or by a call that
\* starts from zero, is usable.
LEMMA MadeUsable ==
  ASSUME CycleInv, stack # <<>>, NEW b \in BOOLEAN, valid[Top.pair] \/ b
  PROVE  [valid EXCEPT ![Top.pair] = @ \/ b] = [valid EXCEPT ![Top.pair] = TRUE]
<1>1. (valid[Top.pair] \/ b) = TRUE
  BY Zenon
<1>2. QED BY <1>1, Zenon

LEMMA KeptUsable ==
  ASSUME CycleInv, stack # <<>>, NEW b \in BOOLEAN, valid[Top.pair] /\ b
  PROVE  [valid EXCEPT ![Top.pair] = @ /\ b] = [valid EXCEPT ![Top.pair] = TRUE]
<1>1. (valid[Top.pair] /\ b) = TRUE
  BY Zenon
<1>2. QED BY <1>1, Zenon

\* A visit that starts finds its flag set, or a usable x.
LEMMA ZeroOrUsable ==
  ASSUME CycleInv, stack # <<>>, Top.op \in {"pre", "coarse", "cg"}
  PROVE  init[Top.level] \in BOOLEAN /\ (valid[Top.pair] \/ init[Top.level])
<1>1. Finds(Top, valid, init) /\ Top.level \in Levels
  BY TheTop
<1>2. init[Top.level] = ~valid[Top.pair]
  BY <1>1 DEF Finds
<1>3. init[Top.level] \in BOOLEAN
  BY <1>1 DEF CycleInv, TypeOK
<1>4. QED BY <1>2, <1>3, Zenon

\* Both vectors of a level are among the pairs.
LEMMA PairsOf ==
  ASSUME NEW l \in Levels
  PROVE  Given(l) \in Pairs /\ Krylov(l) \in Pairs
  BY DEF Given, Krylov, Pairs

\* An iteration begins.
LEMMA BeginStep ==
  ASSUME CycleInv, stack = <<>>, mode' = mode, rounds' \in Nat,
         visits' \in [Levels -> Nat],
         stack' = <<Frame("pre", 0, mode.cycle, Given(0)),
                    Frame("iteration", 0, mode.cycle, Given(0))>>,
         valid' \in [Pairs -> BOOLEAN], init' \in [Levels -> BOOLEAN],
         init'[0] = ~valid'[Given(0)]
  PROVE  CycleInv'
<1> DEFINE f == Frame("pre", 0, mode.cycle, Given(0))
           g == Frame("iteration", 0, mode.cycle, Given(0))
<1>1. f \in FrameType /\ g \in FrameType
  BY ModeIs DEF Frame, FrameType, Op
<1>2. /\ f.op = "pre" /\ f.level = 0 /\ f.pair = Given(0)
      /\ g.op = "iteration" /\ g.level = 0 /\ g.pair = Given(0)
  BY DEF Frame
<1>3. /\ stack' \in Seq(FrameType) /\ Len(stack') = 2 /\ stack' # <<>>
      /\ stack'[1] = f /\ stack'[2] = g
  BY <1>1
<1> HIDE DEF f, g
<1>4. FrameOK(f) /\ FrameOK(g)
  BY <1>2 DEF FrameOK
<1>5. Returns(f, g)
  BY <1>2 DEF Returns, OneVisit
<1>6. Above(f, g)
  BY <1>1, <1>4, <1>5, ReturnsAbove
<1>7. 1..Len(stack') = {1, 2}
  BY <1>3
<1>8. Shape(stack')
  <2>1. Frames(stack')
    BY <1>2, <1>3, <1>4, <1>7 DEF Frames
  <2>2. Chain(stack')
    BY <1>3, <1>5 DEF Chain
  <2>3. Deep(stack')
    BY <1>3, <1>6, <1>7 DEF Deep
  <2>4. QED BY <2>1, <2>2, <2>3 DEF Shape
<1>9. KeepsAll(stack', valid', init')
  BY <1>2, <1>3, <1>7 DEF KeepsAll, Keeps
<1>10. Finds(stack'[1], valid', init')
  <2>1. init'[f.level] = ~valid'[f.pair]
    BY <1>2, Zenon
  <2>2. Finds(f, valid', init')
    BY <1>2, <2>1 DEF Finds
  <2>3. QED BY <1>3, <2>2
<1>11. QED BY <1>3, <1>8, <1>9, <1>10, Preserved

\* An iteration ends.
LEMMA EndStep ==
  ASSUME CycleInv, EndIteration
  PROVE  CycleInv'
<1>1. stack # <<>> /\ Top.op = "iteration"
  BY DEF EndIteration, In
<1>2. /\ Len(Below) = Len(stack) - 1 /\ Below \in Seq(FrameType)
      /\ FrameOK(Top) /\ Finds(Top, valid, init)
  BY <1>1, TheTop
<1>3. stack \in Seq(FrameType) /\ Len(stack) \in Nat \ {0}
  BY <1>1 DEF CycleInv, TypeOK
<1>4. 1 = Len(stack)
  <2>1. 1 \in 1..Len(stack)
    BY <1>3
  <2>2. QED BY <1>1, <2>1 DEF CycleInv, Shape, Frames, Top
<1>5. stack' = <<>>
  BY <1>2, <1>4 DEF EndIteration
<1>6. valid[Given(0)]
  BY <1>1, <1>2 DEF Finds, FrameOK
<1>7. TypeOK'
  BY <1>5, ModeIs DEF CycleInv, TypeOK, EndIteration, FrameType, Pairs, Levels
<1>8. Shape(stack)'
  BY <1>5 DEF Shape, Frames, Chain, Deep
<1>9. KeepsAll(stack, valid, init)' /\ (stack # <<>> => Finds(Top, valid, init))'
  BY <1>5 DEF KeepsAll
<1>10. Idle'
  <2>1. ~init'[0]
    BY ModeIs DEF CycleInv, TypeOK, EndIteration
  <2>2. QED BY <1>6, <2>1 DEF Idle, EndIteration
<1>11. QED BY <1>7, <1>8, <1>9, <1>10 DEF CycleInv

\* A call put on the stack of calls that wait for it, and keep what they have.
LEMMA PushCall ==
  ASSUME NEW xs, NEW flags,
         NEW t \in Seq(FrameType), t # <<>>, Shape(t), KeepsAll(t, xs, flags),
         NEW f \in FrameType, FrameOK(f), f.op # "iteration", Returns(f, t[1]),
         Keeps(f, xs, flags)
  PROVE  /\ <<f>> \o t \in Seq(FrameType) /\ <<f>> \o t # <<>>
         /\ (<<f>> \o t)[1] = f /\ Shape(<<f>> \o t)
         /\ KeepsAll(<<f>> \o t, xs, flags)
<1> DEFINE u == <<f>> \o t
<1>1. /\ u \in Seq(FrameType) /\ u # <<>> /\ Len(u) = Len(t) + 1
      /\ u[1] = f /\ \A i \in 1..Len(t) : u[i + 1] = t[i]
  BY Pushed
<1>2. Shape(u)
  BY PushShape
<1> HIDE DEF u
<1>3. KeepsAll(u, xs, flags)
  <2>1. ASSUME NEW i \in 1..Len(u)
        PROVE  Keeps(u[i], xs, flags)
    <3>1. CASE i = 1
      BY <1>1, <3>1
    <3>2. CASE i # 1
      <4>1. i - 1 \in 1..Len(t) /\ u[i - 1 + 1] = t[i - 1] /\ i - 1 + 1 = i
        BY <1>1, <3>2
      <4>2. Keeps(t[i - 1], xs, flags)
        BY <4>1 DEF KeepsAll
      <4>3. QED BY <4>1, <4>2
    <3>3. QED BY <3>1, <3>2
  <2>2. QED BY <2>1 DEF KeepsAll
<1>4. QED BY <1>1, <1>2, <1>3 DEF u

\* The call on top goes on as f, for the same caller.
LEMMA GoOn ==
  ASSUME CycleInv, stack # <<>>, Top.op # "iteration",
         KeepsAll(Below, valid', init'),
         NEW f \in FrameType, FrameOK(f), f.op # "iteration",
         f.level = Top.level, f.pair = Top.pair, Top.op \in OneVisit => f.op \in OneVisit,
         Keeps(f, valid', init')
  PROVE  /\ <<f>> \o Below \in Seq(FrameType) /\ <<f>> \o Below # <<>>
         /\ (<<f>> \o Below)[1] = f /\ Shape(<<f>> \o Below)
         /\ KeepsAll(<<f>> \o Below, valid', init')
<1>1. /\ Shape(Below) /\ Below # <<>> /\ Returns(Top, Below[1])
  <2>1. stack \in Seq(FrameType) /\ Shape(stack)
    BY DEF CycleInv, TypeOK
  <2>2. QED BY <2>1, PopShape DEF Top, Below
<1>2. Below \in Seq(FrameType)
  BY TheTop
<1>3. Returns(f, Below[1])
  BY <1>1 DEF Returns
<1>4. QED BY <1>1, <1>2, <1>3, PushCall

\* FixedCycle::cycle smooths: x is usable from here on, the flag is reset.
LEMMA SmoothStep ==
  ASSUME CycleInv, PreSmooth
  PROVE  CycleInv'
<1> DEFINE l == Top.level
<1>1. stack # <<>> /\ Top.op = "pre"
  BY DEF PreSmooth, In
<1>2. /\ Top \in FrameType /\ FrameOK(Top) /\ l \in Levels /\ l \in Nat /\ Top.pair \in Pairs
      /\ Below \in Seq(FrameType)
  BY <1>1, TheTop
<1>3. valid \in [Pairs -> BOOLEAN] /\ init \in [Levels -> BOOLEAN]
      /\ visits \in [Levels -> Nat] /\ rounds \in Nat
  BY DEF CycleInv, TypeOK
<1>4. init[l] \in BOOLEAN /\ (valid[Top.pair] \/ init[l])
  BY <1>1, ZeroOrUsable
<1>5. valid' = [valid EXCEPT ![Top.pair] = TRUE]
  <2> DEFINE smoothed == init[l] /\ Presweeps(l) > 0
             filled   == init[l] /\ Presweeps(l) = 0
  <2>1. Presweeps(l) > 0 \/ Presweeps(l) = 0
    BY <1>2, ModeIs, PresweepsNat
  <2>2. (valid[Top.pair] \/ smoothed \/ filled) = TRUE
    BY <1>4, <2>1, Zenon
  <2>3. valid' = [valid EXCEPT ![Top.pair] = valid[Top.pair] \/ smoothed \/ filled]
    BY Zenon DEF PreSmooth
  <2>4. QED BY <2>2, <2>3, Zenon
<1>6. /\ init' = [init EXCEPT ![l] = FALSE] /\ stack' = AfterSmoothing(l)
      /\ visits' = [visits EXCEPT ![l] = @ + 1] /\ mode' = mode /\ rounds' = rounds
  BY DEF PreSmooth
<1>7. /\ valid' \in [Pairs -> BOOLEAN] /\ init' \in [Levels -> BOOLEAN]
      /\ visits' \in [Levels -> Nat] /\ valid'[Top.pair] /\ ~init'[l]
  BY <1>2, <1>3, <1>5, <1>6
<1>8. CASE IsCoarsest(l) /\ ~mode.coarseSolver
  <2>1. stack' = Below
    BY <1>6, <1>8 DEF AfterSmoothing
  <2>2. QED BY <1>1, <1>5, <1>6, <1>7, <2>1, ReturnStep
<1>9. CASE ~(IsCoarsest(l) /\ ~mode.coarseSolver)
  <2> DEFINE f == IF IsCoarsest(l) THEN Become("launch") ELSE Become("restrict")
  <2>1. stack' = <<f>> \o Below
    BY <1>6, <1>9 DEF AfterSmoothing
  <2>2. /\ f \in FrameType /\ f.op \in {"launch", "restrict"}
        /\ f.op = "restrict" => ~IsCoarsest(f.level)
        /\ f.level = l /\ f.pair = Top.pair
    BY <1>2 DEF Become, FrameType, Op
  <2> HIDE DEF f, l
  <2>3. FrameOK(f)
    BY <1>2, <2>2 DEF FrameOK, l
  <2>4. Keeps(f, valid', init')
    BY <1>7, <2>2 DEF Keeps
  <2>5. KeepsAll(Below, valid', init')
    <3>1. \A p \in Pairs : valid[p] => valid'[p]
      BY <1>2, <1>3, <1>5
    <3>2. \A k \in Levels : ~init[k] => ~init'[k]
      BY <1>2, <1>3, <1>6
    <3>3. QED BY <1>1, <1>6, <3>1, <3>2, WaitingKept
  <2>6. /\ stack' \in Seq(FrameType) /\ stack' # <<>>
        /\ stack'[1] = f /\ Shape(stack') /\ KeepsAll(stack', valid', init')
    BY <1>1, <2>1, <2>2, <2>3, <2>4, <2>5, GoOn DEF OneVisit, l
  <2>7. Finds(stack'[1], valid', init')
    BY <2>2, <2>6 DEF Finds
  <2>8. QED BY <1>3, <1>6, <1>7, <2>6, <2>7, Preserved
<1>10. QED BY <1>8, <1>9

\* The coarse solver, called by the visit of the coarsest level or in its place.
LEMMA LaunchStep ==
  ASSUME CycleInv, LaunchInVisit \/ LaunchCoarseSolver
  PROVE  CycleInv'
<1>1. stack # <<>> /\ Top.op \in {"launch", "coarse"}
  BY DEF LaunchInVisit, LaunchCoarseSolver, In
<1>2. Top.level \in Levels /\ Keeps(Top, valid, init)
  BY <1>1, TheTop
<1>3. init \in [Levels -> BOOLEAN] /\ visits \in [Levels -> Nat]
  BY DEF CycleInv, TypeOK
<1>4. valid[Top.pair] \/ init[Top.level]
  BY <1>1, <1>2, ZeroOrUsable DEF Keeps
<1>5. init[Top.level] \in BOOLEAN
  BY <1>2, <1>3
<1>6. valid' = [valid EXCEPT ![Top.pair] = @ \/ init[Top.level]]
  BY DEF LaunchInVisit, LaunchCoarseSolver
<1>7. valid' = [valid EXCEPT ![Top.pair] = TRUE]
  BY <1>1, <1>4, <1>5, <1>6, MadeUsable
<1>8. /\ stack' = Below /\ mode' = mode /\ rounds' = rounds /\ init' = init
      /\ visits' \in [Levels -> Nat]
  BY <1>2, <1>3 DEF LaunchInVisit, LaunchCoarseSolver
<1>9. Top.op \in OneVisit => ~init'[Top.level]
  BY <1>1, <1>2, <1>8 DEF OneVisit, Keeps
<1>10. QED BY <1>1, <1>7, <1>8, <1>9, ReturnStep

\* The correction is prolonged, or CG ends.
LEMMA UpStep ==
  ASSUME CycleInv, Prolongate \/ CGEnd
  PROVE  CycleInv'
<1> DEFINE p == IF Top.op = "prolong" THEN Given(Top.level + 1) ELSE Krylov(Top.level)
<1>1. stack # <<>> /\ Top.op \in {"prolong", "update"}
  BY DEF Prolongate, CGEnd, In
<1>2. /\ Top.level \in Levels /\ Keeps(Top, valid, init) /\ Finds(Top, valid, init)
      /\ FrameOK(Top)
  BY <1>1, TheTop
<1>3. p \in Pairs
  <2>1. Top.op = "prolong" => Top.level + 1 \in Levels
    BY <1>2, ModeIs DEF FrameOK, IsCoarsest, Levels
  <2>2. QED BY <1>2, <2>1, PairsOf
<1>4. valid[Top.pair] /\ valid[p]
  BY <1>1, <1>2 DEF Keeps, Finds
<1>5. valid[p] \in BOOLEAN /\ visits \in [Levels -> Nat]
  BY <1>3 DEF CycleInv, TypeOK
<1>6. valid' = [valid EXCEPT ![Top.pair] = @ /\ valid[p]]
  BY <1>1 DEF Prolongate, CGEnd, In
<1> HIDE DEF p
<1>7. valid' = [valid EXCEPT ![Top.pair] = TRUE]
  BY <1>1, <1>4, <1>5, <1>6, KeptUsable
<1>8. /\ stack' = Below /\ mode' = mode /\ rounds' = rounds /\ init' = init
      /\ visits' = visits
  BY DEF Prolongate, CGEnd
<1>9. Top.op \in OneVisit => ~init'[Top.level]
  BY <1>1, <1>2, <1>8 DEF OneVisit, Keeps
<1>10. QED BY <1>1, <1>5, <1>7, <1>8, <1>9, ReturnStep

\* A visit to come is a call, well-formed, of which nothing is asked yet.
LEMMA VisitFrame ==
  ASSUME NEW op \in {"pre", "coarse", "cg"}, NEW l \in Levels, NEW type \in CycleTypes,
         NEW p \in {Given(l), Krylov(l)}, op # "pre" => p = Given(l)
  PROVE  LET f == Frame(op, l, type, p)
         IN  /\ f \in FrameType /\ FrameOK(f) /\ f.op = op /\ f.level = l /\ f.pair = p
             /\ \A xs, flags : Keeps(f, xs, flags)
<1> DEFINE f == Frame(op, l, type, p)
<1>1. f.op = op /\ f.level = l /\ f.pair = p
  BY DEF Frame
<1>2. f \in FrameType
  BY PairsOf DEF Frame, FrameType, Op
<1> HIDE DEF f
<1>3. FrameOK(f)
  BY <1>1 DEF FrameOK
<1>4. \A xs, flags : Keeps(f, xs, flags)
  BY <1>1 DEF Keeps
<1>5. QED BY <1>1, <1>2, <1>3, <1>4 DEF f

\* Two elements put in front of a sequence, one after the other.
LEMMA PushedTwo ==
  ASSUME NEW S, NEW t \in Seq(S), NEW a \in S, NEW b \in S
  PROVE  <<a, b>> \o t = <<a>> \o (<<b>> \o t)
<1> DEFINE u == <<b>> \o t
<1>1. /\ u \in Seq(S) /\ Len(u) = Len(t) + 1 /\ u[1] = b
      /\ \A i \in 1..Len(t) : u[i + 1] = t[i]
  BY Pushed
<1> HIDE DEF u
<1> DEFINE v == <<a>> \o u
           w == <<a, b>> \o t
<1>2. /\ v \in Seq(S) /\ Len(v) = Len(u) + 1 /\ v[1] = a
      /\ \A i \in 1..Len(u) : v[i + 1] = u[i]
  BY <1>1, Pushed
<1>3. /\ w \in Seq(S) /\ Len(w) = Len(t) + 2 /\ w[1] = a /\ w[2] = b
      /\ \A i \in 1..Len(t) : w[i + 2] = t[i]
  OBVIOUS
<1>4. Len(t) \in Nat
  OBVIOUS
<1> HIDE DEF v, w
<1>5. ASSUME NEW i \in 1..Len(w)
      PROVE  w[i] = v[i]
  <2>1. CASE i = 1
    BY <1>2, <1>3, <2>1
  <2>2. CASE i = 2
    <3>1. v[1 + 1] = u[1]
      BY <1>1, <1>2, <1>4
    <3>2. QED BY <1>1, <1>3, <2>2, <3>1
  <2>3. CASE i > 2
    <3>1. i - 2 \in 1..Len(t) /\ i - 1 \in 1..Len(u)
      BY <1>1, <1>3, <1>4, <2>3
    <3>2. v[i - 1 + 1] = u[i - 1] /\ u[i - 2 + 1] = t[i - 2] /\ w[i - 2 + 2] = t[i - 2]
      BY <1>1, <1>2, <1>3, <3>1
    <3>3. i - 1 + 1 = i /\ i - 2 + 1 = i - 1 /\ i - 2 + 2 = i
      BY <1>3, <1>4
    <3>4. QED BY <3>2, <3>3
  <2>4. QED BY <1>3, <1>4, <2>1, <2>2, <2>3
<1>6. v = w
  BY <1>1, <1>2, <1>3, <1>4, <1>5
<1>7. QED BY <1>6 DEF u, v, w

\* The cycles of the next level are calls.
LEMMA DispatchedType ==
  ASSUME NEW l \in Levels, NEW type \in CycleTypes
  PROVE  Dispatched(l, type) \in Seq(FrameType)
<1> DEFINE One(op, ty) == Frame(op, l, ty, Given(l))
<1>1. \A op \in {"pre", "coarse", "cg"}, ty \in CycleTypes : One(op, ty) \in FrameType
  BY PairsOf DEF Frame, FrameType, Op
<1>2. {"V", "W", "F"} \subseteq CycleTypes
  BY DEF CycleTypes
<1>3. \/ Dispatched(l, type) = <<One("coarse", type)>>
      \/ Dispatched(l, type) = <<One("pre", "V")>>
      \/ Dispatched(l, type) = <<One("pre", "W"), One("pre", "W")>>
      \/ Dispatched(l, type) = <<One("pre", "W"), One("pre", "V")>>
      \/ Dispatched(l, type) = <<One("cg", type)>>
  BY Zenon DEF Dispatched
<1>4. /\ One("coarse", type) \in FrameType /\ One("cg", type) \in FrameType
      /\ One("pre", "V") \in FrameType /\ One("pre", "W") \in FrameType
  BY <1>1, <1>2
<1> HIDE DEF One
<1>5. \A a, b \in FrameType : <<a>> \in Seq(FrameType) /\ <<a, b>> \in Seq(FrameType)
  OBVIOUS
<1>6. QED BY <1>3, <1>4, <1>5, Zenon

\* The cycles of the next level, pushed on the call that waits for them.
LEMMA PushDispatched ==
  ASSUME NEW xs, NEW flags,
         NEW t \in Seq(FrameType), t # <<>>, Shape(t), KeepsAll(t, xs, flags),
         NEW l \in Levels, NEW type \in CycleTypes,
         t[1].op = "prolong", l = t[1].level + 1
  PROVE  LET u == Dispatched(l, type) \o t
         IN  /\ u \in Seq(FrameType) /\ u # <<>> /\ Shape(u) /\ KeepsAll(u, xs, flags)
             /\ u[1].op \in {"pre", "coarse", "cg"}
             /\ u[1].level = l /\ u[1].pair = Given(l)
<1> DEFINE Good(u) == /\ u \in Seq(FrameType) /\ u # <<>> /\ Shape(u) /\ KeepsAll(u, xs, flags)
                      /\ u[1].op \in {"pre", "coarse", "cg"}
                      /\ u[1].level = l /\ u[1].pair = Given(l)
           Visit(f) == /\ f \in FrameType /\ FrameOK(f) /\ f.op \in {"pre", "coarse", "cg"}
                       /\ f.level = l /\ f.pair = Given(l) /\ Keeps(f, xs, flags)
           One(op, ty) == Frame(op, l, ty, Given(l))
<1>1. ASSUME NEW f, Visit(f)
      PROVE  Good(<<f>> \o t) /\ (<<f>> \o t)[1] = f
  <2>1. Returns(f, t[1]) /\ f.op # "iteration"
    BY <1>1 DEF Returns
  <2>2. /\ <<f>> \o t \in Seq(FrameType) /\ <<f>> \o t # <<>>
        /\ (<<f>> \o t)[1] = f /\ Shape(<<f>> \o t)
        /\ KeepsAll(<<f>> \o t, xs, flags)
    BY <1>1, <2>1, PushCall
  <2>3. QED BY <1>1, <2>2
<1>2. ASSUME NEW f, NEW g, Visit(f), Visit(g), f.op = "pre", g.op = "pre"
      PROVE  Good(<<f, g>> \o t)
  <2> DEFINE v == <<g>> \o t
  <2>1. Good(v) /\ v[1] = g
    BY <1>1, <1>2
  <2> HIDE DEF v
  <2>2. Returns(f, v[1]) /\ f.op # "iteration"
    BY <1>2, <2>1 DEF Returns, OneVisit
  <2>3. /\ <<f>> \o v \in Seq(FrameType) /\ <<f>> \o v # <<>>
        /\ (<<f>> \o v)[1] = f /\ Shape(<<f>> \o v)
        /\ KeepsAll(<<f>> \o v, xs, flags)
    BY <1>2, <2>1, <2>2, PushCall
  <2>4. <<f, g>> \o t = <<f>> \o v
    BY <1>2, PushedTwo DEF v
  <2>5. QED BY <1>2, <2>3, <2>4
<1>3. \A op \in {"pre", "coarse", "cg"}, ty \in CycleTypes :
        Visit(One(op, ty)) /\ One(op, ty).op = op
  BY VisitFrame
<1>4. {"V", "W", "F"} \subseteq CycleTypes
  BY DEF CycleTypes
<1>5. \/ Dispatched(l, type) = <<One("coarse", type)>>
      \/ Dispatched(l, type) = <<One("pre", "V")>>
      \/ Dispatched(l, type) = <<One("pre", "W"), One("pre", "W")>>
      \/ Dispatched(l, type) = <<One("pre", "W"), One("pre", "V")>>
      \/ Dispatched(l, type) = <<One("cg", type)>>
  BY Zenon DEF Dispatched
<1> HIDE DEF Good, Visit, One
<1>6. /\ Visit(One("coarse", type)) /\ Visit(One("cg", type))
      /\ Visit(One("pre", "V")) /\ One("pre", "V").op = "pre"
      /\ Visit(One("pre", "W")) /\ One("pre", "W").op = "pre"
  BY <1>3, <1>4
<1>7. Good(Dispatched(l, type) \o t)
  BY <1>1, <1>2, <1>5, <1>6, Zenon
<1>8. QED BY <1>7 DEF Good

\* The way down to the next level.
LEMMA RestrictStep ==
  ASSUME CycleInv, Restrict
  PROVE  CycleInv'
<1> DEFINE l == Top.level + 1
           f == Become("prolong")
<1>1. stack # <<>> /\ Top.op = "restrict"
  BY DEF Restrict, In
<1>2. /\ Top \in FrameType /\ FrameOK(Top) /\ Keeps(Top, valid, init)
      /\ Top.level \in Levels /\ Top.level \in Nat /\ Top.pair \in Pairs
      /\ Below \in Seq(FrameType)
  BY <1>1, TheTop
<1>3. /\ valid \in [Pairs -> BOOLEAN] /\ init \in [Levels -> BOOLEAN]
      /\ visits \in [Levels -> Nat] /\ rounds \in Nat
  BY DEF CycleInv, TypeOK
<1>4. l \in Levels /\ Given(l) \in Pairs
  <2>1. ~IsCoarsest(Top.level)
    BY <1>1, <1>2 DEF FrameOK
  <2>2. l \in Levels
    BY <1>2, <2>1, ModeIs DEF IsCoarsest, Levels
  <2>3. QED BY <2>2, PairsOf
<1>5. /\ valid' = [valid EXCEPT ![Given(l)] = FALSE] /\ init' = [init EXCEPT ![l] = TRUE]
      /\ stack' = Dispatched(l, Top.type) \o <<f>> \o Below
      /\ mode' = mode /\ visits' = visits /\ rounds' = rounds
  BY DEF Restrict
<1>6. /\ valid' \in [Pairs -> BOOLEAN] /\ init' \in [Levels -> BOOLEAN]
      /\ valid'[Given(l)] = FALSE /\ init'[l] = TRUE
  BY <1>3, <1>4, <1>5
<1>7. /\ f \in FrameType /\ f.op = "prolong" /\ f.level = Top.level /\ f.pair = Top.pair
  BY <1>2 DEF Become, FrameType, Op
<1>8. Top.type \in CycleTypes
  BY <1>2 DEF FrameType
<1> HIDE DEF f
<1>9. FrameOK(f)
  BY <1>1, <1>2, <1>7 DEF FrameOK
<1>10. Keeps(f, valid', init')
  <2>1. Top.pair # Given(l) /\ Top.level # l
    BY <1>2 DEF FrameOK, Given, Krylov
  <2>2. valid[Top.pair] /\ ~init[Top.level]
    BY <1>1, <1>2 DEF Keeps
  <2>3. valid'[Top.pair] /\ ~init'[Top.level]
    BY <1>2, <1>3, <1>5, <2>1, <2>2
  <2>4. QED BY <1>7, <2>3 DEF Keeps
<1>11. KeepsAll(Below, valid', init')
  <2>1. \A p \in Pairs : valid[p] /\ p # Given(Top.level + 1) => valid'[p]
    BY <1>3, <1>5
  <2>2. \A k \in Levels : ~init[k] /\ k # Top.level + 1 => ~init'[k]
    BY <1>3, <1>5
  <2>3. QED BY <1>1, <1>5, <2>1, <2>2, WaitingKept
<1> DEFINE t == <<f>> \o Below
<1>12. /\ t \in Seq(FrameType) /\ t # <<>> /\ t[1] = f /\ Shape(t)
       /\ KeepsAll(t, valid', init')
  BY <1>1, <1>7, <1>9, <1>10, <1>11, GoOn DEF OneVisit
<1>13. stack' = Dispatched(l, Top.type) \o t
  <2>1. Dispatched(l, Top.type) \in Seq(FrameType)
    BY <1>4, <1>8, DispatchedType
  <2>2. <<f>> \in Seq(FrameType)
    BY <1>7
  <2>3. QED BY <1>2, <1>5, <2>1, <2>2
<1> HIDE DEF t
<1>14. t[1].op = "prolong" /\ l = t[1].level + 1
  BY <1>7, <1>12
<1> HIDE DEF l
<1>15. /\ stack' \in Seq(FrameType) /\ stack' # <<>> /\ Shape(stack')
       /\ KeepsAll(stack', valid', init')
       /\ stack'[1].op \in {"pre", "coarse", "cg"}
       /\ stack'[1].level = l /\ stack'[1].pair = Given(l)
  BY <1>4, <1>8, <1>12, <1>13, <1>14, PushDispatched
<1>16. Finds(stack'[1], valid', init')
  <2>1. init'[l] = ~valid'[Given(l)]
    BY <1>6, Zenon
  <2>2. QED BY <1>15, <2>1 DEF Finds
<1>17. QED BY <1>3, <1>5, <1>6, <1>15, <1>16, Preserved

\* CG calls its preconditioner: a cycle on vectors of its own.
LEMMA CGStep ==
  ASSUME CycleInv, CGBegin \/ CGContinue
  PROVE  CycleInv'
<1> DEFINE l == Top.level
           f == [Become("update") EXCEPT !.iters = IF Top.op = "cg" THEN 0 ELSE @ + 1]
<1>1. stack # <<>> /\ Top.op \in {"cg", "update"}
  BY DEF CGBegin, CGContinue, In
<1>2. /\ Top \in FrameType /\ FrameOK(Top) /\ Keeps(Top, valid, init) /\ Finds(Top, valid, init)
      /\ l \in Levels /\ l \in Nat /\ Top.pair \in Pairs /\ Below \in Seq(FrameType)
  BY <1>1, TheTop
<1>3. /\ valid \in [Pairs -> BOOLEAN] /\ init \in [Levels -> BOOLEAN]
      /\ visits \in [Levels -> Nat] /\ rounds \in Nat
  BY DEF CycleInv, TypeOK
<1>4. /\ Krylov(l) \in Pairs /\ Top.pair = Given(l) /\ Top.pair # Krylov(l)
  BY <1>1, <1>2, PairsOf DEF FrameOK, Given, Krylov
<1>5. valid' = [valid EXCEPT ![Top.pair] = TRUE, ![Krylov(l)] = FALSE]
  <2>1. CASE CGBegin
    <3>1. valid' = [valid EXCEPT ![Top.pair] = valid[Top.pair] \/ init[l], ![Krylov(l)] = FALSE]
      BY <2>1, Zenon DEF CGBegin
    <3>2. Top.op = "cg"
      BY <2>1 DEF CGBegin, In
    <3>3. (valid[Top.pair] \/ init[l]) = TRUE
      BY <1>1, <3>2, ZeroOrUsable, Zenon
    <3>4. QED BY <3>1, <3>3, Zenon
  <2>2. CASE CGContinue
    <3>1. valid' = [valid EXCEPT ![Top.pair] = valid[Top.pair] /\ valid[Krylov(l)],
                                 ![Krylov(l)] = FALSE]
      BY <2>2, Zenon DEF CGContinue
    <3>2. Top.op = "update"
      BY <2>2 DEF CGContinue, In
    <3>3. valid[Top.pair] /\ valid[Krylov(l)]
      BY <1>2, <3>2 DEF Keeps, Finds
    <3>4. (valid[Top.pair] /\ valid[Krylov(l)]) = TRUE
      BY <3>3, Zenon
    <3>5. QED BY <3>1, <3>4, Zenon
  <2>3. QED BY <2>1, <2>2
<1>6. /\ init' = [init EXCEPT ![l] = TRUE]
      /\ stack' = <<Frame("pre", l, Top.type, Krylov(l)), f>> \o Below
      /\ mode' = mode /\ visits' = visits /\ rounds' = rounds
  BY DEF CGBegin, CGContinue, Precondition
<1>7. /\ valid' \in [Pairs -> BOOLEAN] /\ init' \in [Levels -> BOOLEAN]
      /\ valid'[Krylov(l)] = FALSE /\ init'[l] = TRUE /\ valid'[Top.pair]
  BY <1>2, <1>3, <1>4, <1>5, <1>6
<1>8. Top.iters \in Nat /\ Top.type \in CycleTypes
  BY <1>2 DEF FrameType
<1>9. /\ f \in FrameType /\ f.op = "update" /\ f.level = l /\ f.pair = Top.pair
  <2> DEFINE g == Become("update")
  <2>1. /\ g \in FrameType /\ g.op = "update" /\ g.level = l /\ g.pair = Top.pair
    BY <1>2 DEF Become, FrameType, Op
  <2> HIDE DEF g
  <2>2. g.iters \in Nat
    BY <2>1 DEF FrameType
  <2>3. f = [g EXCEPT !.iters = IF Top.op = "cg" THEN 0 ELSE @ + 1]
    BY DEF g
  <2> HIDE DEF f
  <2>4. QED BY <2>1, <2>2, <2>3 DEF FrameType
<1> HIDE DEF f
<1>10. FrameOK(f)
  BY <1>2, <1>4, <1>9 DEF FrameOK
<1>11. Keeps(f, valid', init')
  BY <1>7, <1>9 DEF Keeps
<1>12. KeepsAll(Below, valid', init')
  <2>1. \A p \in Pairs : valid[p] /\ p # Krylov(l) => valid'[p]
    BY <1>2, <1>3, <1>5
  <2>2. \A k \in Levels : ~init[k] /\ k # l => ~init'[k]
    BY <1>3, <1>6
  <2>3. Top.pair = Given(Top.level)
    BY <1>4
  <2>4. QED BY <1>1, <1>6, <2>1, <2>2, <2>3, WaitingKept
<1> DEFINE t == <<f>> \o Below
<1>13. /\ t \in Seq(FrameType) /\ t # <<>> /\ t[1] = f /\ Shape(t)
       /\ KeepsAll(t, valid', init')
  BY <1>1, <1>9, <1>10, <1>11, <1>12, GoOn DEF OneVisit
<1> DEFINE g == Frame("pre", l, Top.type, Krylov(l))
<1>14. /\ g \in FrameType /\ FrameOK(g) /\ Keeps(g, valid', init')
       /\ g.op = "pre" /\ g.level = l /\ g.pair = Krylov(l)
  BY <1>2, <1>8, VisitFrame
<1>15. stack' = <<g>> \o t
  <2>1. stack' = <<g, f>> \o Below
    BY <1>6
  <2> HIDE DEF g, t
  <2>2. <<g, f>> \o Below = <<g>> \o (<<f>> \o Below)
    BY <1>2, <1>9, <1>14, PushedTwo
  <2>3. QED BY <2>1, <2>2 DEF t
<1> HIDE DEF g, t, l
<1>16. /\ stack' \in Seq(FrameType) /\ stack' # <<>> /\ Shape(stack')
       /\ KeepsAll(stack', valid', init')
       /\ stack'[1].op = "pre" /\ stack'[1].level = l /\ stack'[1].pair = Krylov(l)
  <2>1. Returns(g, t[1])
    BY <1>9, <1>13, <1>14 DEF Returns, OneVisit
  <2>2. g.op # "iteration"
    BY <1>14
  <2>3. QED BY <1>13, <1>14, <1>15, <2>1, <2>2, PushCall
<1>17. Finds(stack'[1], valid', init')
  <2>1. init'[l] = ~valid'[Krylov(l)]
    BY <1>7, Zenon
  <2>2. QED BY <1>16, <2>1 DEF Finds
<1>18. QED BY <1>3, <1>6, <1>7, <1>16, <1>17, Preserved

-----------------------------------------------------------------------------

\* The invariant holds when the solver is set up.
LEMMA InitCycleInv == Init => CycleInv
<1> SUFFICES ASSUME Init PROVE CycleInv
  OBVIOUS
<1>1. mode \in Modes /\ stack = <<>> /\ init = [l \in Levels |-> FALSE] /\ rounds = 0
  BY DEF Init
<1>2. mode \in ModeType /\ 0 \in Levels
  BY <1>1, CycleAssumption DEF ModeType, Levels
<1>3. TypeOK
  BY DEF Init, TypeOK
<1>4. Shape(stack)
  BY <1>1 DEF Shape, Frames, Chain, Deep
<1>5. KeepsAll(stack, valid, init)
  BY <1>1 DEF KeepsAll
<1>6. Idle
  BY <1>1, <1>2 DEF Idle
<1>7. QED BY <1>1, <1>3, <1>4, <1>5, <1>6 DEF CycleInv

\* Every step of the cycle preserves it.
LEMMA NextCycleInv == CycleInv /\ [Next]_vars => CycleInv'
<1> SUFFICES ASSUME CycleInv, [Next]_vars PROVE CycleInv'
  OBVIOUS
<1>1. ASSUME NEW xIsZero \in BOOLEAN, StartSolve(xIsZero)
      PROVE  CycleInv'
  <2>1. /\ stack = <<>> /\ mode' = mode /\ rounds' = rounds + 1
        /\ visits' = [l \in Levels |-> 0]
        /\ init' = [init EXCEPT ![0] = @ \/ xIsZero]
        /\ valid' = [valid EXCEPT ![Given(0)] = ~xIsZero]
    BY <1>1 DEF StartSolve
  <2>2. /\ valid \in [Pairs -> BOOLEAN] /\ init \in [Levels -> BOOLEAN] /\ rounds \in Nat
        /\ ~init[0]
    BY <2>1 DEF CycleInv, TypeOK, Idle
  <2>3. (init[0] \/ xIsZero) = xIsZero
    BY <2>2
  <2>4. init' = [init EXCEPT ![0] = xIsZero]
    BY <2>1, <2>3, Zenon
  <2>5. valid'[Given(0)] = ~xIsZero /\ init'[0] = xIsZero
    BY <2>1, <2>2, <2>4, ModeIs
  <2>6. init'[0] = ~valid'[Given(0)]
    BY <2>5, Zenon
  <2>7. valid' \in [Pairs -> BOOLEAN] /\ init' \in [Levels -> BOOLEAN]
    BY <2>1, <2>2, <2>4
  <2>8. visits' \in [Levels -> Nat] /\ rounds' \in Nat
    BY <2>1, <2>2
  <2>9. QED BY <1>1, <2>1, <2>6, <2>7, <2>8, BeginStep DEF StartSolve
<1>2. CASE Iterate
  <2>1. /\ stack = <<>> /\ mode' = mode /\ rounds' = rounds + 1 /\ rounds > 0
        /\ visits' = [l \in Levels |-> 0] /\ init' = init /\ valid' = valid
    BY <1>2, CycleAssumption DEF Iterate
  <2>2. /\ valid \in [Pairs -> BOOLEAN] /\ init \in [Levels -> BOOLEAN] /\ rounds \in Nat
        /\ ~init[0] /\ valid[Given(0)]
    BY <2>1 DEF CycleInv, TypeOK, Idle
  <2>3. init[0] = FALSE /\ valid[Given(0)] = TRUE
    BY <2>2, ModeIs
  <2>4. init'[0] = ~valid'[Given(0)]
    BY <2>1, <2>3, Zenon
  <2>5. visits' \in [Levels -> Nat] /\ rounds' \in Nat
    BY <2>1, <2>2
  <2>6. QED BY <1>2, <2>1, <2>2, <2>4, <2>5, BeginStep DEF Iterate
<1>3. CASE EndIteration
  BY <1>3, EndStep
<1>4. CASE PreSmooth
  BY <1>4, SmoothStep
<1>5. CASE LaunchInVisit \/ LaunchCoarseSolver
  BY <1>5, LaunchStep
<1>6. CASE Restrict
  BY <1>6, RestrictStep
<1>7. CASE Prolongate \/ CGEnd
  BY <1>7, UpStep
<1>8. CASE CGBegin \/ CGContinue
  BY <1>8, CGStep
<1>9. CASE UNCHANGED vars
  BY <1>9 DEF vars, CycleInv, TypeOK, FrameType, Pairs, Levels, Shape, Frames, Chain, Deep,
              FrameOK, IsCoarsest, Returns, Above, KeepsAll, Keeps, Finds, Top, Idle
<1>10. QED BY <1>1, <1>2, <1>3, <1>4, <1>5, <1>6, <1>7, <1>8, <1>9, Zenon DEF Next

\* In whatever state a cycle is, the calls in progress wait for each other in the
\* order of the hierarchy, and those that have smoothed hold a usable x.
THEOREM CycleInvariant == Spec => []CycleInv
<1>1. QED BY InitCycleInv, NextCycleInv, PTL DEF Spec

-----------------------------------------------------------------------------
(* Theorems. *)

\* However deep the hierarchy and whatever the cycle, a visit starts from
\* zero exactly when its x holds nothing for the right hand side it is given.
THEOREM VisitsStartRight == Spec => []StartsRight
<1>1. CycleInv => StartsRight
  BY DEF CycleInv, StartsRight, Finds
<1>2. QED BY <1>1, CycleInvariant, PTL

\* However deep the hierarchy and whatever the cycle, what a visit passes on
\* was made for the right hand side at hand.
THEOREM VisitsPassOnUsable == Spec => []ResultsUsable
<1>1. CycleInv => ResultsUsable
  <2> SUFFICES ASSUME CycleInv, stack # <<>>
               PROVE  /\ Top.op \in {"restrict", "prolong", "update", "iteration"} => valid[Top.pair]
                      /\ Top.op = "prolong" => valid[Given(Top.level + 1)]
                      /\ Top.op = "update" => valid[Krylov(Top.level)]
    BY DEF ResultsUsable
  <2>1. Keeps(Top, valid, init) /\ Finds(Top, valid, init)
    BY TheTop
  <2>2. QED BY <2>1 DEF Keeps, Finds
<1>2. QED BY <1>1, CycleInvariant, PTL

-----------------------------------------------------------------------------
(* Powers. *)

LEMMA SetInduction ==
  ASSUME NEW S, 0 \in S, \A n \in Nat : n \in S => n + 1 \in S
  PROVE  Nat \subseteq S
<1>1. SUFFICES ASSUME Nat \ S # {}
               PROVE  FALSE
  OBVIOUS
<1>2. PICK n \in Nat \ S : \A m \in Nat \ S : ~ (<<m, n>> \in OpToRel(<, Nat))
  <2>1. Nat \ S \subseteq Nat
    OBVIOUS
  <2>2. QED BY <1>1, <2>1, NatLessThanWellFounded, WFMin
<1>3. \A m \in Nat \ S : ~ (m < n)
  BY <1>2 DEF OpToRel
<1>4. n # 0 /\ n \in Nat
  OBVIOUS
<1>5. n - 1 \in Nat /\ (n - 1) + 1 = n /\ n - 1 < n
  BY <1>4
<1>6. n - 1 \in S
  BY <1>3, <1>5
<1>7. n \in S
  BY <1>5, <1>6
<1>8. QED BY <1>7

\* The powers of b up to the n-th.
ArePowers(p, b, n) == p = [k \in 0..n |-> IF k = 0 THEN 1 ELSE b * p[k - 1]]

LEMMA SomePowers ==
  ASSUME NEW b, NEW n \in Nat
  PROVE  \E p : ArePowers(p, b, n)
<1> DEFINE S == {m \in Nat : \E p : ArePowers(p, b, m)}
<1>1. 0 \in S
  <2> DEFINE p == [k \in 0..0 |-> 1]
  <2>1. \A k \in 0..0 : k = 0
    OBVIOUS
  <2>2. p = [k \in 0..0 |-> IF k = 0 THEN 1 ELSE b * p[k - 1]]
    BY <2>1
  <2> HIDE DEF p
  <2>3. ArePowers(p, b, 0)
    BY <2>2 DEF ArePowers
  <2>4. QED BY <2>3
<1>2. ASSUME NEW m \in Nat, m \in S
      PROVE  m + 1 \in S
  <2>1. PICK p : ArePowers(p, b, m)
    BY <1>2
  <2>2. \A k \in 0..m : p[k] = IF k = 0 THEN 1 ELSE b * p[k - 1]
    BY <2>1 DEF ArePowers
  <2> DEFINE q == [k \in 0..(m+1) |-> IF k <= m THEN p[k] ELSE b * p[m]]
  <2>3. /\ m + 1 \in Nat /\ ~(m + 1 <= m) /\ m + 1 \in 0..(m+1)
        /\ \A k \in 0..(m+1) : k <= m => k \in 0..m
        /\ \A k \in 0..(m+1) : ~(k <= m) => k = m + 1
        /\ \A k \in 0..m : k <= m /\ k \in 0..(m+1)
        /\ \A k \in 0..(m+1) : k # 0 => k - 1 \in 0..m
        /\ (m + 1) - 1 = m /\ m \in 0..m /\ m + 1 # 0
    OBVIOUS
  <2>4. (\A k \in 0..m : q[k] = p[k]) /\ q[m+1] = b * p[m]
    BY <2>3
  <2>5. q = [k \in 0..(m+1) |-> q[k]]
    OBVIOUS
  <2> HIDE DEF q
  <2>6. ASSUME NEW k \in 0..(m+1)
        PROVE  q[k] = IF k = 0 THEN 1 ELSE b * q[k - 1]
    <3>1. CASE k <= m
      <4>1. k \in 0..m /\ (k # 0 => k - 1 \in 0..m)
        BY <2>3, <3>1
      <4>2. QED BY <2>2, <2>4, <4>1
    <3>2. CASE ~(k <= m)
      <4>1. k = m + 1 /\ k # 0 /\ k - 1 = m
        BY <2>3, <3>2
      <4>2. q[k - 1] = p[m]
        BY <2>3, <2>4, <4>1
      <4>3. QED BY <2>4, <4>1, <4>2
    <3>3. QED BY <3>1, <3>2
  <2>7. q = [k \in 0..(m+1) |-> IF k = 0 THEN 1 ELSE b * q[k - 1]]
    BY <2>5, <2>6
  <2>8. ArePowers(q, b, m + 1)
    BY <2>7 DEF ArePowers
  <2>9. QED BY <2>3, <2>8
<1>3. Nat \subseteq S
  <2> HIDE DEF S
  <2>1. QED BY <1>1, <1>2, SetInduction
<1>4. QED BY <1>3

LEMMA SamePowers ==
  ASSUME NEW b, NEW n \in Nat, NEW m \in Nat, n <= m,
         NEW p, ArePowers(p, b, n), NEW q, ArePowers(q, b, m)
  PROVE  \A k \in 0..n : p[k] = q[k]
<1>1. /\ \A k \in 0..n : p[k] = IF k = 0 THEN 1 ELSE b * p[k - 1]
      /\ \A k \in 0..m : q[k] = IF k = 0 THEN 1 ELSE b * q[k - 1]
  BY DEF ArePowers
<1> DEFINE S == {k \in Nat : k <= n => p[k] = q[k]}
<1>2. 0 \in S
  BY <1>1
<1>3. ASSUME NEW k \in Nat, k \in S
      PROVE  k + 1 \in S
  <2>1. SUFFICES ASSUME k + 1 <= n
                 PROVE  p[k+1] = q[k+1]
    OBVIOUS
  <2>2. k + 1 \in 0..n /\ k + 1 \in 0..m /\ k + 1 # 0 /\ (k + 1) - 1 = k /\ k <= n
    BY <2>1
  <2>3. p[k+1] = b * p[k] /\ q[k+1] = b * q[k]
    BY <1>1, <2>2
  <2>4. QED BY <1>3, <2>2, <2>3
<1>4. Nat \subseteq S
  <2> HIDE DEF S
  <2>1. QED BY <1>2, <1>3, SetInduction
<1>5. QED BY <1>4

LEMMA PowerFacts ==
  ASSUME NEW b \in Nat
  PROVE  /\ Power(b, 0) = 1
         /\ \A n \in Nat : Power(b, n + 1) = b * Power(b, n)
         /\ \A n \in Nat : Power(b, n) \in Nat
<1> DEFINE P(n) == CHOOSE p : p = [k \in 0..n |-> IF k = 0 THEN 1 ELSE b * p[k - 1]]
<1>1. ASSUME NEW n \in Nat
      PROVE  Power(b, n) = P(n)[n] /\ ArePowers(P(n), b, n)
  <2>1. Power(b, n) = P(n)[n]
    BY DEF Power
  <2>2. P(n) = CHOOSE p : ArePowers(p, b, n)
    BY DEF ArePowers
  <2>3. ArePowers(P(n), b, n)
    <3> HIDE DEF P
    <3>1. QED BY <2>2, SomePowers
  <2>4. QED BY <2>1, <2>3
<1> HIDE DEF P
<1>2. ASSUME NEW n \in Nat
      PROVE  \A k \in 0..n : P(n)[k] = IF k = 0 THEN 1 ELSE b * P(n)[k - 1]
  <2>1. P(n) = [k \in 0..n |-> IF k = 0 THEN 1 ELSE b * P(n)[k - 1]]
    BY <1>1 DEF ArePowers
  <2>2. QED BY <2>1
<1>3. Power(b, 0) = 1
  BY <1>1, <1>2
<1>4. ASSUME NEW n \in Nat
      PROVE  Power(b, n + 1) = b * Power(b, n)
  <2>1. /\ n + 1 \in Nat /\ n <= n + 1 /\ n \in 0..n /\ n + 1 \in 0..(n+1)
        /\ n + 1 # 0 /\ (n + 1) - 1 = n
    OBVIOUS
  <2>2. P(n + 1)[n + 1] = b * P(n + 1)[n]
    BY <1>2, <2>1
  <2>3. P(n)[n] = P(n + 1)[n]
    BY <1>1, <2>1, SamePowers
  <2>4. Power(b, n + 1) = P(n + 1)[n + 1] /\ Power(b, n) = P(n)[n]
    BY <1>1, <2>1
  <2>5. QED BY <2>2, <2>3, <2>4
<1>5. \A n \in Nat : Power(b, n) \in Nat
  <2> DEFINE S == {n \in Nat : Power(b, n) \in Nat}
  <2>1. 0 \in S
    BY <1>3
  <2>2. ASSUME NEW n \in Nat, n \in S
        PROVE  n + 1 \in S
    <3> DEFINE x == Power(b, n)
    <3>1. x \in Nat /\ Power(b, n + 1) = b * x
      BY <1>4, <2>2
    <3> HIDE DEF x
    <3>2. b * x \in Nat
      BY <3>1
    <3>3. QED BY <3>1, <3>2
  <2>3. Nat \subseteq S
    <3> HIDE DEF S
    <3>1. QED BY <2>1, <2>2, SetInduction
  <2>4. QED BY <2>3
<1>6. QED BY <1>3, <1>4, <1>5

-----------------------------------------------------------------------------
(* Visits.  The calls on the stack say how many visits of every level are  *)
(* still to come; together with those made they are the visits of the      *)
(* whole iteration.                                                        *)

Hit(k, l) == IF k = l THEN 1 ELSE 0

\* The visits of level l made by a visit of level k, those of k included.
Making(m, type, k, l) ==
  IF l < k THEN 0
  ELSE Times(type, m.cycleIters, IF l > k /\ l = m.depth - 1 THEN l - k - 1 ELSE l - k)

\* The visits of level l made by what generateNextCycles starts at level k.
Generated(m, type, k, l) ==
  IF k = m.depth - 1 THEN Hit(k, l)
  ELSE CASE type = "V" -> Making(m, "V", k, l)
         [] type = "W" -> Making(m, "W", k, l) + Making(m, "W", k, l)
         [] type = "F" -> Making(m, "W", k, l) + Making(m, "V", k, l)
         [] OTHER -> m.cycleIters * Making(m, type, k, l)

\* The visits of level l that the call f has not made yet.
Pending(m, f, l) ==
  CASE f.op = "pre" -> Making(m, f.type, f.level, l)
    [] f.op = "restrict" -> Generated(m, f.type, f.level + 1, l)
    [] f.op = "coarse" -> Hit(f.level, l)
    [] f.op = "cg" -> m.cycleIters * Making(m, f.type, f.level, l)
    [] f.op = "update" -> (m.cycleIters - 1 - f.iters) * Making(m, f.type, f.level, l)
    [] OTHER -> 0

\* T sums up, from the bottom of the stack, the visits of level l to come.
Sums(m, s, l, T) ==
  /\ T \in [1..Len(s) + 1 -> Int] /\ T[Len(s) + 1] = 0
  /\ \A i \in 1..Len(s) : T[i] = Pending(m, s[i], l) + T[i + 1]

Owes(m, s, l, n) == \E T : Sums(m, s, l, T) /\ T[1] = n

\* The visits made, in v, and those to come are the visits of an iteration.
Balance(m, s, v) ==
  s # <<>> =>
    \A l \in 0..m.depth - 1 :
      \E n \in Int : Owes(m, s, l, n) /\ v[l] + n = Making(m, m.cycle, 0, l)

VisitInv == CycleInv /\ Balance(mode, stack, visits)

\* One level further down the visits are those of the cycles started there.
LEMMA TimesStep ==
  ASSUME NEW c \in Nat, NEW d \in Nat
  PROVE  /\ \A t \in CycleTypes : Times(t, c, d) \in Nat
         /\ \A t \in CycleTypes : Times(t, c, 0) = 1
         /\ Times("V", c, d + 1) = Times("V", c, d)
         /\ Times("W", c, d + 1) = Times("W", c, d) + Times("W", c, d)
         /\ Times("F", c, d + 1) = Times("W", c, d) + Times("V", c, d)
         /\ \A t \in {"CG", "CGF"} : Times(t, c, d + 1) = c * Times(t, c, d)
<1>1. /\ Power(2, 0) = 1 /\ Power(2, d + 1) = 2 * Power(2, d) /\ Power(2, d) \in Nat
      /\ d # 0 => Power(2, d - 1) \in Nat
  <2>1. 2 \in Nat /\ (d # 0 => d - 1 \in Nat)
    OBVIOUS
  <2>2. QED BY <2>1, PowerFacts
<1>2. Power(c, 0) = 1 /\ Power(c, d + 1) = c * Power(c, d) /\ Power(c, d) \in Nat
  BY PowerFacts
<1>3. d + 1 # 0 /\ (d + 1) - 1 = d
  OBVIOUS
<1>4. \A t \in CycleTypes : Times(t, c, d) \in Nat
  BY <1>1, <1>2 DEF Times, CycleTypes
<1>5. \A t \in CycleTypes : Times(t, c, 0) = 1
  BY DEF Times
<1>6. Times("V", c, d + 1) = Times("V", c, d)
  BY DEF Times
<1>7. Times("W", c, d) = Power(2, d) /\ Times("W", c, d + 1) = Power(2, d + 1)
  BY <1>1, <1>3 DEF Times
<1>8. Times("F", c, d + 1) = Power(2, d) + 1 /\ Times("V", c, d) = 1
  BY <1>3 DEF Times
<1>9. \A t \in {"CG", "CGF"} :
        Times(t, c, d) = Power(c, d) /\ Times(t, c, d + 1) = Power(c, d + 1)
  BY <1>2, <1>3 DEF Times
<1>10. QED BY <1>1, <1>2, <1>4, <1>5, <1>6, <1>7, <1>8, <1>9

LEMMA MakingNat ==
  ASSUME NEW m \in ModeType, NEW t \in CycleTypes, NEW k \in Nat, NEW l \in 0..m.depth - 1
  PROVE  Making(m, t, k, l) \in Nat
<1>1. m.cycleIters \in Nat /\ m.depth \in Nat
  BY DEF ModeType
<1>2. CASE l < k
  BY <1>2 DEF Making
<1>3. CASE ~(l < k)
  <2> DEFINE d == IF l > k /\ l = m.depth - 1 THEN l - k - 1 ELSE l - k
  <2>1. d \in Nat
    BY <1>1, <1>3
  <2>2. Making(m, t, k, l) = Times(t, m.cycleIters, d)
    BY <1>3 DEF Making
  <2> HIDE DEF d
  <2>3. QED BY <1>1, <2>1, <2>2, TimesStep
<1>4. QED BY <1>2, <1>3

\* A visit of the coarsest level makes no other.
LEMMA AtTheEnd ==
  ASSUME NEW m \in ModeType, NEW t \in CycleTypes, NEW l \in 0..m.depth - 1
  PROVE  Making(m, t, m.depth - 1, l) = Hit(m.depth - 1, l)
<1>1. m.cycleIters \in Nat /\ m.depth \in Nat /\ l - l = 0
  BY DEF ModeType
<1>2. Times(t, m.cycleIters, 0) = 1
  BY <1>1, TimesStep
<1>3. QED BY <1>1, <1>2 DEF Making, Hit

\* A visit of another level makes those of the cycles generated below it.
LEMMA Descent ==
  ASSUME NEW m \in ModeType, NEW t \in CycleTypes,
         NEW k \in 0..m.depth - 1, k # m.depth - 1, NEW l \in 0..m.depth - 1
  PROVE  Making(m, t, k, l) = Hit(k, l) + Generated(m, t, k + 1, l)
<1> DEFINE c == m.cycleIters
           M(x) == Making(m, x, k + 1, l)
<1>1. c \in Nat /\ m.depth \in Nat /\ k \in Nat /\ l \in Nat /\ k + 1 \in Nat
  BY DEF ModeType
<1>2. {"V", "W"} \subseteq CycleTypes
      /\ (t = "V" \/ t = "W" \/ t = "F" \/ t \in {"CG", "CGF"})
  BY DEF CycleTypes
<1>3. CASE l < k
  <2>1. l < k + 1 /\ l # k + 1 /\ k # l
    BY <1>1, <1>3
  <2>2. \A x : M(x) = 0
    BY <2>1 DEF Making
  <2>3. Generated(m, t, k + 1, l) = 0
    BY <1>1, <1>2, <2>1, <2>2 DEF Generated, Hit
  <2>4. QED BY <1>3, <2>1, <2>3 DEF Making, Hit
<1>4. CASE l = k
  <2>1. l < k + 1 /\ l # k + 1 /\ ~(l < k) /\ ~(l > k) /\ l - k = 0
    BY <1>1, <1>4
  <2>2. \A x : M(x) = 0
    BY <2>1 DEF Making
  <2>3. Generated(m, t, k + 1, l) = 0
    BY <1>1, <1>2, <2>1, <2>2 DEF Generated, Hit
  <2>4. Making(m, t, k, l) = Times(t, c, 0)
    BY <2>1 DEF Making
  <2>5. Times(t, c, 0) = 1
    BY <1>1, TimesStep
  <2>6. QED BY <1>4, <2>3, <2>4, <2>5 DEF Hit
<1>5. CASE l > k /\ k + 1 = m.depth - 1
  <2>1. l = k + 1 /\ l = m.depth - 1 /\ ~(l < k) /\ l > k /\ l - k - 1 = 0 /\ k # l
    BY <1>1, <1>5
  <2>2. Making(m, t, k, l) = Times(t, c, 0)
    BY <2>1 DEF Making
  <2>3. Times(t, c, 0) = 1
    BY <1>1, TimesStep
  <2>4. Generated(m, t, k + 1, l) = 1
    BY <2>1 DEF Generated, Hit
  <2>5. QED BY <2>1, <2>2, <2>3, <2>4 DEF Hit
<1>6. CASE l > k /\ k + 1 # m.depth - 1
  <2> DEFINE d == IF l > k + 1 /\ l = m.depth - 1 THEN l - (k + 1) - 1 ELSE l - (k + 1)
  <2>1. /\ d \in Nat /\ ~(l < k) /\ ~(l < k + 1) /\ k # l
        /\ d + 1 = IF l > k /\ l = m.depth - 1 THEN l - k - 1 ELSE l - k
    BY <1>1, <1>6
  <2>2. Making(m, t, k, l) = Times(t, c, d + 1)
    BY <2>1 DEF Making
  <2>3. \A x : M(x) = Times(x, c, d)
    BY <2>1 DEF Making
  <2> HIDE DEF d, M
  <2>4. Generated(m, t, k + 1, l) = CASE t = "V" -> M("V")
                                      [] t = "W" -> M("W") + M("W")
                                      [] t = "F" -> M("W") + M("V")
                                      [] OTHER -> c * M(t)
    BY <1>6 DEF Generated, M
  <2> HIDE DEF c
  <2>5. CASE t = "V"
    BY <1>1, <2>1, <2>2, <2>3, <2>4, <2>5, TimesStep DEF Hit, CycleTypes
  <2>6. CASE t = "W"
    BY <1>1, <2>1, <2>2, <2>3, <2>4, <2>6, TimesStep DEF Hit, CycleTypes
  <2>7. CASE t = "F"
    BY <1>1, <2>1, <2>2, <2>3, <2>4, <2>7, TimesStep DEF Hit, CycleTypes
  <2>8. CASE t \in {"CG", "CGF"}
    <3>1. Times(t, c, d + 1) = c * Times(t, c, d)
      BY <1>1, <2>1, <2>8, TimesStep
    <3>2. Generated(m, t, k + 1, l) = c * Times(t, c, d)
      <4>1. t # "V" /\ t # "W" /\ t # "F"
        BY <2>8
      <4>2. Generated(m, t, k + 1, l) = c * M(t)
        BY <2>4, <4>1
      <4>3. QED BY <2>3, <4>2
    <3>3. Times(t, c, d + 1) \in Nat
      <4>1. d + 1 \in Nat
        BY <2>1
      <4>2. QED BY <1>1, <4>1, TimesStep
    <3>4. Hit(k, l) = 0
      BY <2>1 DEF Hit
    <3>5. QED BY <2>2, <3>1, <3>2, <3>3, <3>4
  <2>9. QED BY <1>2, <2>5, <2>6, <2>7, <2>8
<1>7. QED BY <1>1, <1>3, <1>4, <1>5, <1>6

\* An empty stack owes nothing; a call on the stack adds what it has to do.
LEMMA OwesNothing ==
  ASSUME NEW m, NEW l
  PROVE  Owes(m, <<>>, l, 0)
<1> DEFINE T == [i \in 1..Len(<<>>) + 1 |-> 0]
<1>1. Len(<<>>) = 0 /\ \A i \in 1..Len(<<>>) : FALSE
  OBVIOUS
<1>2. T \in [1..Len(<<>>) + 1 -> Int] /\ T[Len(<<>>) + 1] = 0 /\ T[1] = 0
  BY <1>1
<1> HIDE DEF T
<1>3. Sums(m, <<>>, l, T)
  BY <1>1, <1>2 DEF Sums
<1>4. QED BY <1>2, <1>3 DEF Owes

LEMMA OwesPush ==
  ASSUME NEW m, NEW l, NEW t \in Seq(FrameType), NEW f \in FrameType, NEW n \in Int,
         Owes(m, t, l, n), Pending(m, f, l) \in Int
  PROVE  Owes(m, <<f>> \o t, l, Pending(m, f, l) + n)
<1> DEFINE u == <<f>> \o t
           x == Pending(m, f, l)
<1>1. /\ u \in Seq(FrameType) /\ Len(u) = Len(t) + 1 /\ u[1] = f
      /\ \A i \in 1..Len(t) : u[i + 1] = t[i]
  BY Pushed
<1>2. Len(t) \in Nat
  OBVIOUS
<1>3. PICK T : Sums(m, t, l, T) /\ T[1] = n
  BY DEF Owes
<1>4. /\ T \in [1..Len(t) + 1 -> Int] /\ T[Len(t) + 1] = 0
      /\ \A i \in 1..Len(t) : T[i] = Pending(m, t[i], l) + T[i + 1]
  BY <1>3 DEF Sums
<1>5. x \in Int
  OBVIOUS
<1> HIDE DEF u, x
<1> DEFINE U == [i \in 1..Len(u) + 1 |-> IF i = 1 THEN x + n ELSE T[i - 1]]
<1>6. \A i \in 1..Len(u) + 1 : i # 1 => i - 1 \in 1..Len(t) + 1
  BY <1>1, <1>2
<1>7. U \in [1..Len(u) + 1 -> Int]
  BY <1>4, <1>5, <1>6
<1>8. U[1] = x + n /\ U[Len(u) + 1] = 0
  BY <1>1, <1>2, <1>4
<1>9. ASSUME NEW i \in 1..Len(u)
      PROVE  U[i] = Pending(m, u[i], l) + U[i + 1]
  <2>1. CASE i = 1
    <3>1. U[2] = T[1] /\ 1 + 1 = 2
      BY <1>1, <1>2
    <3>2. Pending(m, u[1], l) = x
      BY <1>1 DEF x
    <3> HIDE DEF U
    <3>3. QED BY <1>3, <1>8, <2>1, <3>1, <3>2
  <2>2. CASE i # 1
    <3>1. /\ i - 1 \in 1..Len(t) /\ i \in 1..Len(u) + 1 /\ i + 1 \in 1..Len(u) + 1
          /\ i + 1 # 1 /\ (i - 1) + 1 = i /\ (i + 1) - 1 = i
      BY <1>1, <1>2, <2>2
    <3>2. U[i] = T[i - 1] /\ U[i + 1] = T[i]
      BY <2>2, <3>1
    <3>3. u[i] = t[i - 1]
      BY <1>1, <3>1
    <3>4. T[i - 1] = Pending(m, t[i - 1], l) + T[i]
      BY <1>4, <3>1
    <3>5. QED BY <3>2, <3>3, <3>4
  <2>3. QED BY <2>1, <2>2
<1> HIDE DEF U
<1>10. Sums(m, u, l, U)
  BY <1>7, <1>8, <1>9 DEF Sums
<1>11. Owes(m, u, l, x + n)
  BY <1>8, <1>10 DEF Owes
<1>12. QED BY <1>11 DEF u, x

\* What is owed when the call on top is taken off.
LEMMA OwesPop ==
  ASSUME NEW m, NEW l, NEW s \in Seq(FrameType), s # <<>>, NEW n \in Int, Owes(m, s, l, n)
  PROVE  \E k \in Int : Owes(m, Tail(s), l, k) /\ n = Pending(m, s[1], l) + k
<1> DEFINE t == Tail(s)
<1>1. /\ Len(s) \in Nat \ {0} /\ t \in Seq(FrameType) /\ Len(t) = Len(s) - 1
      /\ \A i \in 1..Len(s) - 1 : t[i] = s[i + 1]
  BY TailOf
<1> HIDE DEF t
<1>2. PICK T : Sums(m, s, l, T) /\ T[1] = n
  BY DEF Owes
<1>3. /\ T \in [1..Len(s) + 1 -> Int] /\ T[Len(s) + 1] = 0
      /\ \A i \in 1..Len(s) : T[i] = Pending(m, s[i], l) + T[i + 1]
  BY <1>2 DEF Sums
<1> DEFINE U == [i \in 1..Len(t) + 1 |-> T[i + 1]]
<1>4. \A i \in 1..Len(t) + 1 : i + 1 \in 1..Len(s) + 1
  BY <1>1
<1>5. U \in [1..Len(t) + 1 -> Int]
  BY <1>3, <1>4
<1>6. U[Len(t) + 1] = 0 /\ U[1] = T[2]
  <2>1. /\ Len(t) + 1 \in 1..Len(t) + 1 /\ (Len(t) + 1) + 1 = Len(s) + 1
        /\ 1 \in 1..Len(t) + 1 /\ 1 + 1 = 2
    BY <1>1
  <2>2. QED BY <1>3, <2>1
<1>7. ASSUME NEW i \in 1..Len(t)
      PROVE  U[i] = Pending(m, t[i], l) + U[i + 1]
  <2>1. /\ i + 1 \in 1..Len(s) /\ i \in 1..Len(s) - 1
        /\ i \in 1..Len(t) + 1 /\ i + 1 \in 1..Len(t) + 1
    BY <1>1
  <2>2. U[i] = T[i + 1] /\ U[i + 1] = T[(i + 1) + 1]
    BY <2>1
  <2>3. T[i + 1] = Pending(m, s[i + 1], l) + T[(i + 1) + 1]
    BY <1>3, <2>1
  <2>4. t[i] = s[i + 1]
    BY <1>1, <2>1
  <2>5. QED BY <2>2, <2>3, <2>4
<1> HIDE DEF U
<1>8. Sums(m, t, l, U)
  BY <1>5, <1>6, <1>7 DEF Sums
<1>9. T[2] \in Int /\ n = Pending(m, s[1], l) + T[2]
  <2>1. 1 \in 1..Len(s) /\ 2 \in 1..Len(s) + 1 /\ 1 + 1 = 2
    BY <1>1
  <2>2. QED BY <1>2, <1>3, <2>1
<1>10. Owes(m, t, l, T[2])
  BY <1>6, <1>8 DEF Owes
<1>11. QED BY <1>9, <1>10 DEF t

\* What is pending is a number.
LEMMA GeneratedNat ==
  ASSUME NEW m \in ModeType, NEW t \in CycleTypes, NEW k \in Nat, NEW l \in 0..m.depth - 1
  PROVE  Generated(m, t, k, l) \in Nat
<1> DEFINE c == m.cycleIters
           M(x) == Making(m, x, k, l)
<1>1. Hit(k, l) \in Nat
  BY DEF Hit
<1>2. c \in Nat
  BY DEF ModeType
<1>3. \A x \in CycleTypes : M(x) \in Nat
  BY MakingNat
<1>4. Generated(m, t, k, l) = IF k = m.depth - 1 THEN Hit(k, l)
                              ELSE CASE t = "V" -> M("V")
                                     [] t = "W" -> M("W") + M("W")
                                     [] t = "F" -> M("W") + M("V")
                                     [] OTHER -> c * M(t)
  BY DEF Generated
<1> HIDE DEF c, M
<1>5. M("V") \in Nat /\ M("W") \in Nat /\ M(t) \in Nat
  BY <1>3 DEF CycleTypes
<1>6. c * M(t) \in Nat
  BY <1>2, <1>5
<1>7. QED BY <1>1, <1>4, <1>5, <1>6

LEMMA PendingInt ==
  ASSUME NEW m \in ModeType, NEW f \in FrameType, NEW l \in 0..m.depth - 1
  PROVE  Pending(m, f, l) \in Int
<1> DEFINE c == m.cycleIters
           x == Making(m, f.type, f.level, l)
<1>1. f.type \in CycleTypes /\ f.level \in Nat /\ f.level + 1 \in Nat /\ f.iters \in Nat
  BY DEF FrameType, Levels
<1>2. x \in Nat /\ c \in Nat
  BY <1>1, MakingNat DEF ModeType
<1>3. Generated(m, f.type, f.level + 1, l) \in Nat
  BY <1>1, GeneratedNat
<1>4. Hit(f.level, l) \in Nat
  BY DEF Hit
<1> HIDE DEF c, x
<1>5. c * x \in Nat /\ (c - 1 - f.iters) * x \in Int
  BY <1>1, <1>2
<1>6. QED BY <1>2, <1>3, <1>4, <1>5 DEF Pending, c, x

\* What u has pending for level l instead of the call on top of s, and what was
\* counted in the step from v to w, is what that call had pending.
Replaces(m, s, u, v, w, l) ==
  \E x \in Int : /\ w[l] + x = v[l] + Pending(m, s[1], l)
                 /\ \A k \in Int : Owes(m, Tail(s), l, k) => Owes(m, u, l, x + k)

\* The call on top is replaced, in a step that makes the stack u of s.
LEMMA Rebalance ==
  ASSUME NEW m \in ModeType, NEW s \in Seq(FrameType), s # <<>>, NEW u,
         NEW v \in [0..m.depth - 1 -> Nat], NEW w \in [0..m.depth - 1 -> Nat],
         Balance(m, s, v), \A l \in 0..m.depth - 1 : Replaces(m, s, u, v, w, l)
  PROVE  Balance(m, u, w)
<1>1. ASSUME NEW l \in 0..m.depth - 1
      PROVE  \E n \in Int : Owes(m, u, l, n) /\ w[l] + n = Making(m, m.cycle, 0, l)
  <2>1. PICK n \in Int : Owes(m, s, l, n) /\ v[l] + n = Making(m, m.cycle, 0, l)
    BY DEF Balance
  <2>2. PICK k \in Int : Owes(m, Tail(s), l, k) /\ n = Pending(m, s[1], l) + k
    BY <2>1, OwesPop
  <2>3. PICK x \in Int : /\ w[l] + x = v[l] + Pending(m, s[1], l)
                         /\ \A j \in Int : Owes(m, Tail(s), l, j) => Owes(m, u, l, x + j)
    BY DEF Replaces
  <2>4. Owes(m, u, l, x + k)
    BY <2>2, <2>3
  <2>5. s[1] \in FrameType
    BY TailOf
  <2>6. Pending(m, s[1], l) \in Int /\ v[l] \in Int /\ w[l] \in Int
    <3>1. Pending(m, s[1], l) \in Int
      BY <2>5, PendingInt
    <3>2. v[l] \in Nat /\ w[l] \in Nat
      OBVIOUS
    <3>3. QED BY <3>1, <3>2
  <2>7. w[l] + (x + k) = Making(m, m.cycle, 0, l)
    BY <2>1, <2>2, <2>3, <2>6
  <2>8. x + k \in Int
    BY <2>2, <2>3
  <2>9. QED BY <2>4, <2>7, <2>8
<1>2. QED BY <1>1 DEF Balance

\* The cycles generated at a level owe what they generate.
LEMMA OwesDispatched ==
  ASSUME mode \in ModeType, NEW t \in Seq(FrameType), NEW k \in Levels,
         NEW type \in CycleTypes, NEW l \in Levels, NEW n \in Int, Owes(mode, t, l, n)
  PROVE  Owes(mode, Dispatched(k, type) \o t, l, Generated(mode, type, k, l) + n)
<1> DEFINE One(op, ty) == Frame(op, k, ty, Given(k))
           M(x) == Making(mode, x, k, l)
           C == mode.cycleIters
<1>1. Levels = 0..mode.depth - 1 /\ k \in Nat /\ mode.depth \in Nat /\ C \in Nat
  BY DEF Levels, ModeType
<1>2. {"V", "W", "F"} \subseteq CycleTypes
  BY DEF CycleTypes
<1>3. \A op \in {"pre", "coarse", "cg"}, ty \in CycleTypes : One(op, ty) \in FrameType
  BY PairsOf DEF Frame, FrameType, Op
<1>4. /\ \A ty : Pending(mode, One("pre", ty), l) = M(ty)
      /\ \A ty : Pending(mode, One("coarse", ty), l) = Hit(k, l)
      /\ \A ty : Pending(mode, One("cg", ty), l) = C * M(ty)
  BY DEF Frame, Pending
<1>5. \A ty \in CycleTypes : M(ty) \in Nat
  BY <1>1, MakingNat
<1>6. Hit(k, l) \in Int
  BY DEF Hit
<1>7. IsCoarsest(k) => M("V") = Hit(k, l)
  BY <1>1, <1>2, AtTheEnd DEF IsCoarsest
<1>8. Dispatched(k, type) = IF IsCoarsest(k) /\ mode.coarseSolver THEN <<One("coarse", type)>>
                            ELSE IF IsCoarsest(k) \/ type = "V" THEN <<One("pre", "V")>>
                            ELSE IF type = "W" THEN <<One("pre", "W"), One("pre", "W")>>
                            ELSE IF type = "F" THEN <<One("pre", "W"), One("pre", "V")>>
                            ELSE <<One("cg", type)>>
  BY Zenon DEF Dispatched
<1>9. Generated(mode, type, k, l) = IF IsCoarsest(k) THEN Hit(k, l)
                                    ELSE CASE type = "V" -> M("V")
                                           [] type = "W" -> M("W") + M("W")
                                           [] type = "F" -> M("W") + M("V")
                                           [] OTHER -> C * M(type)
  BY DEF Generated, IsCoarsest
<1> HIDE DEF One, M, C
<1>10. /\ M("V") \in Int /\ M("W") \in Int /\ M(type) \in Int
       /\ One("pre", "V") \in FrameType /\ One("pre", "W") \in FrameType
       /\ One("coarse", type) \in FrameType /\ One("cg", type) \in FrameType
  BY <1>2, <1>3, <1>5
<1>11. C * M(type) \in Int
  BY <1>1, <1>10
<1>12. CASE IsCoarsest(k) /\ mode.coarseSolver
  BY <1>4, <1>6, <1>8, <1>9, <1>10, <1>12, OwesPush
<1>13. CASE ~(IsCoarsest(k) /\ mode.coarseSolver) /\ (IsCoarsest(k) \/ type = "V")
  <2>1. Dispatched(k, type) = <<One("pre", "V")>>
    BY <1>8, <1>13
  <2>2. Generated(mode, type, k, l) = M("V")
    BY <1>7, <1>9, <1>13
  <2>3. QED BY <1>4, <1>10, <2>1, <2>2, OwesPush
<1>14. CASE ~IsCoarsest(k) /\ type \in {"W", "F"}
  <2> DEFINE y == IF type = "W" THEN "W" ELSE "V"
             u == <<One("pre", y)>> \o t
  <2>1. y \in {"V", "W"} /\ y \in CycleTypes /\ One("pre", y) \in FrameType /\ M(y) \in Int
    BY <1>2, <1>10
  <2>2. Dispatched(k, type) = <<One("pre", "W"), One("pre", y)>>
    BY <1>8, <1>14
  <2>3. Generated(mode, type, k, l) = M("W") + M(y)
    BY <1>9, <1>14
  <2> HIDE DEF y
  <2>4. Owes(mode, u, l, M(y) + n)
    BY <1>4, <2>1, OwesPush
  <2>5. u \in Seq(FrameType)
    BY <2>1, Pushed
  <2>6. <<One("pre", "W"), One("pre", y)>> \o t = <<One("pre", "W")>> \o u
    BY <1>10, <2>1, PushedTwo
  <2> HIDE DEF u
  <2>7. M(y) + n \in Int
    BY <2>1
  <2>8. Pending(mode, One("pre", "W"), l) = M("W")
    BY <1>4
  <2>9. Owes(mode, <<One("pre", "W")>> \o u, l, M("W") + (M(y) + n))
    BY <1>10, <2>4, <2>5, <2>7, <2>8, OwesPush
  <2>10. M("W") + (M(y) + n) = (M("W") + M(y)) + n
    BY <1>10, <2>1
  <2>11. QED BY <2>2, <2>3, <2>6, <2>9, <2>10
<1>15. CASE ~IsCoarsest(k) /\ type \notin {"V", "W", "F"}
  <2>1. Dispatched(k, type) = <<One("cg", type)>>
    BY <1>8, <1>15
  <2>2. Generated(mode, type, k, l) = C * M(type)
    BY <1>9, <1>15
  <2>3. QED BY <1>4, <1>10, <1>11, <2>1, <2>2, OwesPush
<1>16. QED BY <1>12, <1>13, <1>14, <1>15

-----------------------------------------------------------------------------
(* The balance of visits, step by step. *)

\* The facts every step needs.
LEMMA BalanceTypes ==
  ASSUME CycleInv, stack # <<>>
  PROVE  /\ mode \in ModeType /\ stack \in Seq(FrameType) /\ stack[1] = Top
         /\ Tail(stack) = Below /\ Below \in Seq(FrameType) /\ Levels = 0..mode.depth - 1
         /\ visits \in [0..mode.depth - 1 -> Nat]
         /\ Top \in FrameType /\ Top.level \in Levels /\ Top.type \in CycleTypes
         /\ Top.iters \in Nat
<1>1. Top \in FrameType /\ Top.level \in Levels /\ Below \in Seq(FrameType)
  BY TheTop
<1>2. Top.type \in CycleTypes /\ Top.iters \in Nat
  BY <1>1 DEF FrameType
<1>3. mode \in ModeType
  BY ModeIs
<1>4. stack \in Seq(FrameType) /\ visits \in [0..mode.depth - 1 -> Nat]
  BY DEF CycleInv, TypeOK, Levels
<1>5. QED BY <1>1, <1>2, <1>3, <1>4 DEF Top, Below, Levels

\* A call returns, after as many visits as it still had to make.
LEMMA BalanceReturn ==
  ASSUME CycleInv, stack # <<>>, Balance(mode, stack, visits), stack' = Below,
         visits' \in [0..mode.depth - 1 -> Nat],
         \A l \in Levels : visits'[l] = visits[l] + Pending(mode, Top, l)
  PROVE  Balance(mode, stack', visits')
<1>1. ASSUME NEW l \in 0..mode.depth - 1
      PROVE  Replaces(mode, stack, stack', visits, visits', l)
  <2>1. visits'[l] + 0 = visits[l] + Pending(mode, stack[1], l)
    <3>1. visits'[l] \in Nat
      OBVIOUS
    <3>2. visits'[l] = visits[l] + Pending(mode, stack[1], l)
      BY BalanceTypes
    <3>3. QED BY <3>1, <3>2
  <2>2. \A k \in Int : Owes(mode, Tail(stack), l, k) => Owes(mode, stack', l, 0 + k)
    <3>1. \A k \in Int : 0 + k = k
      OBVIOUS
    <3>2. Tail(stack) = stack'
      BY BalanceTypes
    <3>3. QED BY <3>1, <3>2
  <2>3. QED BY <2>1, <2>2 DEF Replaces
<1> DEFINE u == stack'
           w == visits'
<1>2. /\ w \in [0..mode.depth - 1 -> Nat]
      /\ \A l \in 0..mode.depth - 1 : Replaces(mode, stack, u, visits, w, l)
  BY <1>1
<1> HIDE DEF u, w
<1>3. Balance(mode, u, w)
  BY <1>2, BalanceTypes, Rebalance
<1>4. QED BY <1>3 DEF u, w

\* A call goes on as f, having made the visits that f does not owe.
LEMMA BalanceGoOn ==
  ASSUME CycleInv, stack # <<>>, Balance(mode, stack, visits),
         NEW f \in FrameType, stack' = <<f>> \o Below,
         visits' \in [0..mode.depth - 1 -> Nat],
         \A l \in Levels : visits'[l] + Pending(mode, f, l) = visits[l] + Pending(mode, Top, l)
  PROVE  Balance(mode, stack', visits')
<1>1. ASSUME NEW l \in 0..mode.depth - 1
      PROVE  Replaces(mode, stack, stack', visits, visits', l)
  <2>1. Pending(mode, f, l) \in Int
    BY BalanceTypes, PendingInt
  <2>2. visits'[l] + Pending(mode, f, l) = visits[l] + Pending(mode, stack[1], l)
    BY BalanceTypes
  <2>3. ASSUME NEW k \in Int, Owes(mode, Tail(stack), l, k)
        PROVE  Owes(mode, stack', l, Pending(mode, f, l) + k)
    BY <2>1, <2>3, BalanceTypes, OwesPush
  <2>4. QED BY <2>1, <2>2, <2>3 DEF Replaces
<1> DEFINE u == stack'
           w == visits'
<1>2. /\ w \in [0..mode.depth - 1 -> Nat]
      /\ \A l \in 0..mode.depth - 1 : Replaces(mode, stack, u, visits, w, l)
  BY <1>1
<1> HIDE DEF u, w
<1>3. Balance(mode, u, w)
  BY <1>2, BalanceTypes, Rebalance
<1>4. QED BY <1>3 DEF u, w

\* A visit counted.
LEMMA CountVisit ==
  ASSUME CycleInv, stack # <<>>, visits' = [visits EXCEPT ![Top.level] = @ + 1]
  PROVE  /\ visits' \in [0..mode.depth - 1 -> Nat]
         /\ \A l \in Levels : visits'[l] = visits[l] + Hit(Top.level, l)
<1>1. /\ visits \in [Levels -> Nat] /\ Top.level \in Levels
      /\ Levels = 0..mode.depth - 1
  BY BalanceTypes
<1>2. visits' \in [Levels -> Nat]
  BY <1>1
<1>3. \A l \in Levels : visits'[l] = visits[l] + Hit(Top.level, l)
  BY <1>1 DEF Hit
<1>4. QED BY <1>1, <1>2, <1>3

\* An iteration begins: it owes what one visit of the finest level makes.
LEMMA BalanceBegin ==
  ASSUME CycleInv, visits' = [l \in Levels |-> 0],
         stack' = <<Frame("pre", 0, mode.cycle, Given(0)),
                    Frame("iteration", 0, mode.cycle, Given(0))>>
  PROVE  Balance(mode, stack', visits')
<1> DEFINE f == Frame("pre", 0, mode.cycle, Given(0))
           g == Frame("iteration", 0, mode.cycle, Given(0))
<1>1. f \in FrameType /\ g \in FrameType
  BY ModeIs DEF Frame, FrameType, Op
<1>2. /\ \A l : Pending(mode, f, l) = Making(mode, mode.cycle, 0, l)
      /\ \A l : Pending(mode, g, l) = 0
  BY DEF Frame, Pending
<1> HIDE DEF f, g
<1>3. stack' = <<f>> \o (<<g>> \o <<>>)
  <2>1. stack' = <<f, g>> \o <<>>
    BY <1>1 DEF f, g
  <2>2. <<>> \in Seq(FrameType)
    OBVIOUS
  <2>3. QED BY <1>1, <2>1, <2>2, PushedTwo
<1>4. ASSUME NEW l \in 0..mode.depth - 1
      PROVE  \E n \in Int : Owes(mode, stack', l, n)
                              /\ visits'[l] + n = Making(mode, mode.cycle, 0, l)
  <2> DEFINE x == Making(mode, mode.cycle, 0, l)
  <2>1. x \in Nat
    BY ModeIs, MakingNat
  <2>2. visits'[l] = 0
    BY DEF Levels
  <2>3. Owes(mode, <<>>, l, 0) /\ <<>> \in Seq(FrameType)
    BY OwesNothing
  <2>4. Pending(mode, g, l) = 0 /\ Pending(mode, f, l) = x
    BY <1>2
  <2>5. Owes(mode, <<g>> \o <<>>, l, 0 + 0)
    <3>1. ASSUME NEW t \in Seq(FrameType), Owes(mode, t, l, 0)
          PROVE  Owes(mode, <<g>> \o t, l, Pending(mode, g, l) + 0)
      <4>1. Pending(mode, g, l) \in Int /\ 0 \in Int
        BY <2>4
      <4>2. QED BY <1>1, <3>1, <4>1, OwesPush
    <3>2. QED BY <2>3, <2>4, <3>1
  <2>6. <<g>> \o <<>> \in Seq(FrameType)
    BY <1>1
  <2>7. Owes(mode, stack', l, x + 0)
    <3> DEFINE t == <<g>> \o <<>>
    <3>1. Owes(mode, t, l, 0) /\ t \in Seq(FrameType) /\ stack' = <<f>> \o t
      BY <1>3, <2>5, <2>6
    <3> HIDE DEF t, x
    <3>2. Pending(mode, f, l) \in Int /\ 0 \in Int
      BY <2>1, <2>4
    <3>3. Owes(mode, <<f>> \o t, l, Pending(mode, f, l) + 0)
      BY <1>1, <3>1, <3>2, OwesPush
    <3>4. QED BY <2>4, <3>1, <3>3
  <2>8. x + 0 = x /\ 0 + x = x /\ x \in Int
    BY <2>1
  <2> HIDE DEF x
  <2>9. QED BY <2>2, <2>7, <2>8 DEF x
<1>5. QED BY <1>4 DEF Balance

\* A visit smooths: it is counted, and owes the cycles below.
LEMMA BalanceSmooth ==
  ASSUME CycleInv, Balance(mode, stack, visits), PreSmooth
  PROVE  Balance(mode, stack', visits')
<1> DEFINE k == Top.level
<1>1. stack # <<>> /\ Top.op = "pre"
  BY DEF PreSmooth, In
<1>2. /\ mode \in ModeType /\ Levels = 0..mode.depth - 1 /\ Top \in FrameType
      /\ k \in Levels /\ k \in Nat /\ Top.type \in CycleTypes /\ visits \in [Levels -> Nat]
  BY <1>1, BalanceTypes DEF Levels
<1>3. /\ visits' \in [0..mode.depth - 1 -> Nat]
      /\ \A l \in Levels : visits'[l] = visits[l] + Hit(k, l)
  BY <1>1, CountVisit DEF PreSmooth
<1>4. stack' = AfterSmoothing(k)
  BY DEF PreSmooth
<1>5. \A l : Pending(mode, Top, l) = Making(mode, Top.type, k, l)
  BY <1>1 DEF Pending
<1>6. CASE IsCoarsest(k)
  <2>1. \A l \in Levels : Pending(mode, Top, l) = Hit(k, l)
    BY <1>2, <1>5, <1>6, AtTheEnd DEF IsCoarsest
  <2>2. CASE mode.coarseSolver
    <3> DEFINE f == Become("launch")
    <3>1. f \in FrameType /\ f.op = "launch"
      BY <1>2 DEF Become, FrameType, Op
    <3>2. stack' = <<f>> \o Below
      BY <1>4, <1>6, <2>2 DEF AfterSmoothing
    <3> HIDE DEF f
    <3>3. \A l : Pending(mode, f, l) = 0
      BY <3>1 DEF Pending
    <3>4. ASSUME NEW l \in Levels
          PROVE  visits'[l] + Pending(mode, f, l) = visits[l] + Pending(mode, Top, l)
      <4>1. visits'[l] \in Nat
        BY <1>2, <1>3
      <4>2. visits'[l] + 0 = visits'[l]
        BY <4>1
      <4>3. QED BY <1>3, <2>1, <3>3, <4>2
    <3>5. QED BY <1>1, <1>3, <3>1, <3>2, <3>4, BalanceGoOn
  <2>3. CASE ~mode.coarseSolver
    <3>1. stack' = Below
      BY <1>4, <1>6, <2>3 DEF AfterSmoothing
    <3>2. QED BY <1>1, <1>3, <2>1, <3>1, BalanceReturn
  <2>4. QED BY <2>2, <2>3
<1>7. CASE ~IsCoarsest(k)
  <2> DEFINE f == Become("restrict")
  <2>1. f \in FrameType /\ f.op = "restrict" /\ f.type = Top.type /\ f.level = k
    BY <1>2 DEF Become, FrameType, Op
  <2>2. stack' = <<f>> \o Below
    BY <1>4, <1>7 DEF AfterSmoothing
  <2> HIDE DEF f
  <2>3. \A l : Pending(mode, f, l) = Generated(mode, Top.type, k + 1, l)
    BY <2>1 DEF Pending
  <2>4. \A l \in Levels : Pending(mode, Top, l) = Hit(k, l) + Pending(mode, f, l)
    BY <1>2, <1>5, <1>7, <2>3, Descent DEF IsCoarsest
  <2>5. ASSUME NEW l \in Levels
        PROVE  visits'[l] + Pending(mode, f, l) = visits[l] + Pending(mode, Top, l)
    <3>1. Pending(mode, f, l) \in Int
      BY <1>2, <2>1, PendingInt
    <3>2. visits[l] \in Nat /\ Hit(k, l) \in Nat
      BY <1>2 DEF Hit
    <3>3. visits'[l] = visits[l] + Hit(k, l)
      BY <1>3
    <3>4. Pending(mode, Top, l) = Hit(k, l) + Pending(mode, f, l)
      BY <2>4
    <3>5. QED BY <3>1, <3>2, <3>3, <3>4
  <2>6. QED BY <1>1, <1>3, <2>1, <2>2, <2>5, BalanceGoOn
<1>8. QED BY <1>6, <1>7

\* A visit generates the cycles below it.
LEMMA BalanceRestrict ==
  ASSUME CycleInv, Balance(mode, stack, visits), Restrict
  PROVE  Balance(mode, stack', visits')
<1> DEFINE k == Top.level + 1
           f == Become("prolong")
           D == Dispatched(k, Top.type)
<1>1. stack # <<>> /\ Top.op = "restrict"
  BY DEF Restrict, In
<1>2. /\ mode \in ModeType /\ Levels = 0..mode.depth - 1 /\ Top \in FrameType
      /\ Top.type \in CycleTypes /\ Below \in Seq(FrameType)
      /\ visits \in [0..mode.depth - 1 -> Nat]
      /\ Tail(stack) = Below /\ stack[1] = Top /\ stack \in Seq(FrameType)
  BY <1>1, BalanceTypes
<1>3. k \in Levels
  <2>1. FrameOK(Top) /\ Top.level \in Levels
    BY <1>1, TheTop
  <2>2. ~IsCoarsest(Top.level)
    BY <1>1, <2>1 DEF FrameOK
  <2>3. QED BY <2>1, <2>2, ModeIs DEF IsCoarsest, Levels
<1>4. stack' = D \o <<f>> \o Below /\ visits' = visits
  BY DEF Restrict
<1>5. f \in FrameType /\ f.op = "prolong"
  BY <1>2 DEF Become, FrameType, Op
<1>6. \A l : Pending(mode, Top, l) = Generated(mode, Top.type, k, l)
  BY <1>1 DEF Pending
<1>7. D \in Seq(FrameType)
  BY <1>2, <1>3, DispatchedType
<1> HIDE DEF f, k
<1>8. stack' = D \o (<<f>> \o Below)
  <2>1. <<f>> \in Seq(FrameType)
    BY <1>5
  <2> HIDE DEF D
  <2>2. QED BY <1>2, <1>4, <1>7, <2>1
<1>9. ASSUME NEW l \in 0..mode.depth - 1
      PROVE  Replaces(mode, stack, stack', visits, visits', l)
  <2> DEFINE x == Generated(mode, Top.type, k, l)
  <2>1. x \in Int
    BY <1>2, <1>3, GeneratedNat DEF Levels
  <2>2. visits'[l] + x = visits[l] + Pending(mode, stack[1], l)
    BY <1>2, <1>4, <1>6
  <2>3. ASSUME NEW n \in Int, Owes(mode, Tail(stack), l, n)
        PROVE  Owes(mode, stack', l, x + n)
    <3> DEFINE t == <<f>> \o Below
    <3>1. Owes(mode, Below, l, n)
      BY <1>2, <2>3
    <3>2. Pending(mode, f, l) = 0
      BY <1>5 DEF Pending
    <3>3. Owes(mode, t, l, n)
      <4>1. Pending(mode, f, l) \in Int /\ 0 + n = n
        BY <3>2
      <4>2. Owes(mode, <<f>> \o Below, l, Pending(mode, f, l) + n)
        BY <1>2, <1>5, <3>1, <4>1, OwesPush
      <4>3. QED BY <3>2, <4>1, <4>2
    <3>4. t \in Seq(FrameType)
      BY <1>2, <1>5, Pushed
    <3>5. stack' = D \o t
      BY <1>8
    <3> HIDE DEF t
    <3>6. QED BY <1>2, <1>3, <3>3, <3>4, <3>5, OwesDispatched
  <2> HIDE DEF x
  <2>4. QED BY <2>1, <2>2, <2>3 DEF Replaces
<1> DEFINE u == stack'
<1>10. \A l \in 0..mode.depth - 1 : Replaces(mode, stack, u, visits, visits, l)
  BY <1>4, <1>9
<1> HIDE DEF u
<1>11. Balance(mode, u, visits)
  BY <1>1, <1>2, <1>10, Rebalance
<1>12. QED BY <1>4, <1>11 DEF u

\* Calls that return without a visit of their own, and the coarse solver.
LEMMA BalanceUp ==
  ASSUME CycleInv, Balance(mode, stack, visits),
         Prolongate \/ CGEnd \/ LaunchInVisit \/ LaunchCoarseSolver
  PROVE  Balance(mode, stack', visits')
<1>1. stack # <<>> /\ stack' = Below
  BY DEF Prolongate, CGEnd, LaunchInVisit, LaunchCoarseSolver, In
<1>2. /\ mode \in ModeType /\ Levels = 0..mode.depth - 1 /\ Top \in FrameType
      /\ visits \in [0..mode.depth - 1 -> Nat]
  BY <1>1, BalanceTypes
<1>3. CASE LaunchCoarseSolver
  <2>1. Top.op = "coarse" /\ visits' = [visits EXCEPT ![Top.level] = @ + 1]
    BY <1>3 DEF LaunchCoarseSolver, In
  <2>2. \A l : Pending(mode, Top, l) = Hit(Top.level, l)
    BY <2>1 DEF Pending
  <2>3. /\ visits' \in [0..mode.depth - 1 -> Nat]
        /\ \A l \in Levels : visits'[l] = visits[l] + Pending(mode, Top, l)
    BY <1>1, <2>1, <2>2, CountVisit
  <2>4. QED BY <1>1, <2>3, BalanceReturn
<1>4. CASE Prolongate \/ CGEnd \/ LaunchInVisit
  <2>1. visits' = visits
    BY <1>4 DEF Prolongate, CGEnd, LaunchInVisit
  <2>2. \A l \in Levels : Pending(mode, Top, l) = 0
    <3>1. CASE Top.op \in {"prolong", "launch"}
      BY <3>1 DEF Pending
    <3>2. CASE CGEnd
      <4>1. Top.op = "update" /\ Top.iters + 1 = mode.cycleIters
        BY <3>2 DEF CGEnd, In
      <4>2. mode.cycleIters \in Nat /\ Top.iters \in Nat
        BY <1>1, BalanceTypes DEF ModeType
      <4>3. mode.cycleIters - 1 - Top.iters = 0
        BY <4>1, <4>2
      <4>4. ASSUME NEW l \in Levels
            PROVE  Pending(mode, Top, l) = 0
        <5> DEFINE x == Making(mode, Top.type, Top.level, l)
        <5>1. Pending(mode, Top, l) = (mode.cycleIters - 1 - Top.iters) * x
          BY <4>1 DEF Pending
        <5>2. Top.type \in CycleTypes /\ Top.level \in Nat
          BY <1>1, BalanceTypes DEF Levels
        <5>3. x \in Nat
          BY <1>2, <5>2, MakingNat
        <5> HIDE DEF x
        <5>4. 0 * x = 0
          BY <5>3
        <5>5. QED BY <4>3, <5>1, <5>4
      <4>5. QED BY <4>4
    <3>3. Top.op \in {"prolong", "launch"} \/ CGEnd
      BY <1>4 DEF Prolongate, LaunchInVisit, In
    <3>4. QED BY <3>1, <3>2, <3>3
  <2>3. \A l \in Levels : visits'[l] = visits[l] + Pending(mode, Top, l)
    <3>1. \A l \in Levels : visits[l] \in Nat
      BY <1>2
    <3>2. \A l \in Levels : visits[l] = visits[l] + 0
      BY <3>1
    <3>3. QED BY <2>1, <2>2, <3>2
  <2>4. visits' \in [0..mode.depth - 1 -> Nat]
    BY <1>2, <2>1
  <2>5. QED BY <1>1, <2>3, <2>4, BalanceReturn
<1>5. QED BY <1>3, <1>4

\* CG calls its preconditioner, one of cycle_iters times.
LEMMA BalanceCG ==
  ASSUME CycleInv, Balance(mode, stack, visits), CGBegin \/ CGContinue
  PROVE  Balance(mode, stack', visits')
<1> DEFINE k == Top.level
           f == [Become("update") EXCEPT !.iters = IF Top.op = "cg" THEN 0 ELSE @ + 1]
           g == Frame("pre", k, Top.type, Krylov(k))
           c == mode.cycleIters
<1>1. stack # <<>> /\ Top.op \in {"cg", "update"}
  BY DEF CGBegin, CGContinue, In
<1>2. /\ mode \in ModeType /\ Levels = 0..mode.depth - 1 /\ Top \in FrameType
      /\ Top.type \in CycleTypes /\ Below \in Seq(FrameType) /\ Top.iters \in Nat
      /\ visits \in [0..mode.depth - 1 -> Nat] /\ k \in Levels /\ k \in Nat
      /\ Tail(stack) = Below /\ stack[1] = Top /\ stack \in Seq(FrameType)
      /\ c \in Nat
  BY <1>1, BalanceTypes DEF Levels, ModeType
<1>3. stack' = <<g, f>> \o Below /\ visits' = visits
  BY DEF CGBegin, CGContinue, Precondition
<1> DEFINE i == IF Top.op = "cg" THEN 0 ELSE Top.iters + 1
<1>4. /\ f \in FrameType /\ f.op = "update" /\ f.level = k /\ f.type = Top.type
      /\ f.iters = i /\ i \in Nat
  <2> DEFINE h == Become("update")
  <2>1. /\ h \in FrameType /\ h.op = "update" /\ h.level = k /\ h.type = Top.type
        /\ h.iters = Top.iters
    BY <1>2 DEF Become, FrameType, Op
  <2> HIDE DEF h
  <2>2. f = [h EXCEPT !.iters = i]
    BY <2>1 DEF h
  <2> HIDE DEF f
  <2>3. i \in Nat
    BY <1>2
  <2> HIDE DEF i
  <2>4. QED BY <2>1, <2>2, <2>3 DEF FrameType
<1>5. g \in FrameType /\ g.op = "pre" /\ g.level = k /\ g.type = Top.type
  BY <1>2, PairsOf DEF Frame, FrameType, Op
<1> HIDE DEF f, g
<1>6. stack' = <<g>> \o (<<f>> \o Below)
  BY <1>2, <1>3, <1>4, <1>5, PushedTwo
<1>7. ASSUME NEW l \in 0..mode.depth - 1
      PROVE  Replaces(mode, stack, stack', visits, visits', l)
  <2> DEFINE x == Making(mode, Top.type, k, l)
             y == (c - 1 - i) * x
  <2>1. x \in Int /\ y \in Int
    <3>1. x \in Nat
      BY <1>2, MakingNat
    <3> HIDE DEF x, c, i
    <3>2. QED BY <1>2, <1>4, <3>1
  <2>2. Pending(mode, g, l) = x /\ Pending(mode, f, l) = y
    BY <1>4, <1>5 DEF Pending
  <2>3. Pending(mode, Top, l) = x + y
    <3>1. CASE Top.op = "cg"
      <4>1. Pending(mode, Top, l) = c * x /\ i = 0
        BY <3>1 DEF Pending
      <4>2. c \in Int /\ x \in Int
        BY <1>2, <2>1
      <4>3. y = (c - 1 - 0) * x
        BY <4>1
      <4> HIDE DEF c, x, y
      <4>4. (c - 1 - 0) * x = c * x - x
        BY <4>2
      <4>5. c * x \in Int
        BY <4>2
      <4>6. QED BY <4>1, <4>2, <4>3, <4>4, <4>5
    <3>2. CASE Top.op = "update"
      <4> DEFINE j == Top.iters
      <4>1. Pending(mode, Top, l) = (c - 1 - j) * x /\ i = j + 1
        BY <3>2 DEF Pending
      <4>2. c \in Int /\ x \in Int /\ j \in Int
        BY <1>2, <2>1
      <4>3. y = (c - 1 - (j + 1)) * x
        BY <4>1
      <4> HIDE DEF c, x, y, j
      <4>4. (c - 1 - (j + 1)) * x = (c - 1 - j) * x - x
        BY <4>2
      <4>5. (c - 1 - j) * x \in Int
        BY <4>2
      <4>6. QED BY <4>1, <4>2, <4>3, <4>4, <4>5
    <3>3. QED BY <1>1, <3>1, <3>2
  <2> HIDE DEF x, y
  <2>4. visits'[l] + (x + y) = visits[l] + Pending(mode, stack[1], l)
    BY <1>2, <1>3, <2>3
  <2>5. ASSUME NEW n \in Int, Owes(mode, Tail(stack), l, n)
        PROVE  Owes(mode, stack', l, (x + y) + n)
    <3> DEFINE t == <<f>> \o Below
    <3>1. Owes(mode, Below, l, n)
      BY <1>2, <2>5
    <3>2. Owes(mode, t, l, y + n)
      <4>1. Pending(mode, f, l) \in Int
        BY <2>1, <2>2
      <4>2. Owes(mode, <<f>> \o Below, l, Pending(mode, f, l) + n)
        BY <1>2, <1>4, <3>1, <4>1, OwesPush
      <4>3. QED BY <2>2, <4>2
    <3>3. t \in Seq(FrameType) /\ stack' = <<g>> \o t
      BY <1>2, <1>4, <1>6, Pushed
    <3> HIDE DEF t
    <3>4. y + n \in Int /\ Pending(mode, g, l) \in Int
      BY <2>1, <2>2
    <3>5. Owes(mode, <<g>> \o t, l, Pending(mode, g, l) + (y + n))
      BY <1>5, <3>2, <3>3, <3>4, OwesPush
    <3>6. x + (y + n) = (x + y) + n
      BY <2>1
    <3>7. QED BY <2>2, <3>3, <3>5, <3>6
  <2>6. x + y \in Int
    BY <2>1
  <2>7. QED BY <2>4, <2>5, <2>6 DEF Replaces
<1> DEFINE u == stack'
<1>8. \A l \in 0..mode.depth - 1 : Replaces(mode, stack, u, visits, visits, l)
  BY <1>3, <1>7
<1> HIDE DEF u
<1>9. Balance(mode, u, visits)
  BY <1>1, <1>2, <1>8, Rebalance
<1>10. QED BY <1>3, <1>9 DEF u

\* The visits made and those to come are always those of an iteration.
LEMMA NextBalance == CycleInv /\ Balance(mode, stack, visits) /\ [Next]_vars
                       => Balance(mode, stack, visits)'
<1> SUFFICES ASSUME CycleInv, Balance(mode, stack, visits), [Next]_vars
             PROVE  Balance(mode, stack, visits)'
  OBVIOUS
<1>1. mode' = mode
  BY DEF Next, vars, StartSolve, Iterate, EndIteration, PreSmooth, LaunchInVisit,
         LaunchCoarseSolver, Restrict, Prolongate, CGBegin, CGContinue, CGEnd
<1>2. SUFFICES Balance(mode, stack', visits')
  BY <1>1
<1>3. CASE \E xIsZero \in BOOLEAN : StartSolve(xIsZero)
  BY <1>3, BalanceBegin DEF StartSolve
<1>4. CASE Iterate
  BY <1>4, BalanceBegin DEF Iterate
<1>5. CASE EndIteration
  <2>1. stack # <<>> /\ Top.op = "iteration" /\ stack' = Below
    BY <1>5 DEF EndIteration, In
  <2>2. stack \in Seq(FrameType) /\ Len(stack) \in Nat \ {0}
    BY <2>1 DEF CycleInv, TypeOK
  <2>3. 1 = Len(stack)
    <3>1. 1 \in 1..Len(stack)
      BY <2>2
    <3>2. QED BY <2>1, <3>1 DEF CycleInv, Shape, Frames, Top
  <2>4. stack' = <<>>
    BY <2>1, <2>2, <2>3, TailOf DEF Below
  <2>5. QED BY <2>4 DEF Balance
<1>6. CASE PreSmooth
  BY <1>6, BalanceSmooth
<1>7. CASE Restrict
  BY <1>7, BalanceRestrict
<1>8. CASE Prolongate \/ CGEnd \/ LaunchInVisit \/ LaunchCoarseSolver
  BY <1>8, BalanceUp
<1>9. CASE CGBegin \/ CGContinue
  BY <1>9, BalanceCG
<1>10. CASE UNCHANGED vars
  BY <1>10 DEF vars
<1>11. QED BY <1>3, <1>4, <1>5, <1>6, <1>7, <1>8, <1>9, <1>10, Zenon DEF Next

\* However deep the hierarchy and whatever the cycle, an iteration visits each
\* level as often as the cycle type says, the coarsest once for each visit of
\* its parent.
THEOREM VisitsAreCounted == Spec => []VisitsCounted
<1>1. Init => VisitInv
  <2>1. Init => Balance(mode, stack, visits)
    BY DEF Init, Balance
  <2>2. QED BY <2>1, InitCycleInv DEF VisitInv
<1>2. VisitInv /\ [Next]_vars => VisitInv'
  BY NextCycleInv, NextBalance, Zenon DEF VisitInv
<1>3. VisitInv => VisitsCounted
  <2>1. SUFFICES ASSUME VisitInv, In("iteration"), Len(stack) = 1, NEW l \in Levels
                 PROVE  visits[l] = Times(mode.cycle, mode.cycleIters,
                                          IF l > 0 /\ IsCoarsest(l) THEN l - 1 ELSE l)
    BY DEF VisitsCounted
  <2>2. CycleInv /\ Balance(mode, stack, visits) /\ stack # <<>> /\ Top.op = "iteration"
    BY <2>1 DEF VisitInv, In
  <2>3. /\ mode \in ModeType /\ stack \in Seq(FrameType) /\ stack[1] = Top
        /\ Tail(stack) \in Seq(FrameType) /\ Levels = 0..mode.depth - 1 /\ visits[l] \in Nat
    BY <2>2, BalanceTypes
  <2>4. PICK n \in Int : /\ Owes(mode, stack, l, n)
                         /\ visits[l] + n = Making(mode, mode.cycle, 0, l)
    BY <2>2, <2>3 DEF Balance
  <2>5. PICK k \in Int : Owes(mode, Tail(stack), l, k) /\ n = Pending(mode, stack[1], l) + k
    BY <2>2, <2>3, <2>4, OwesPop
  <2>6. Pending(mode, stack[1], l) = 0
    BY <2>2, <2>3 DEF Pending
  <2>7. k = 0
    <3>1. Len(Tail(stack)) = 0
      BY <2>1, <2>2, <2>3, TailOf
    <3>2. QED BY <2>5, <3>1 DEF Owes, Sums
  <2>8. n = 0
    BY <2>5, <2>6, <2>7
  <2>9. visits[l] = Making(mode, mode.cycle, 0, l)
    BY <2>3, <2>4, <2>8
  <2>10. l \in Nat /\ ~(l < 0) /\ l - 0 = l /\ l - 0 - 1 = l - 1
    BY <2>3 DEF ModeType
  <2>11. QED BY <2>9, <2>10 DEF Making, IsCoarsest
<1>4. QED BY <1>1, <1>2, <1>3, PTL DEF Spec

=============================================================================
