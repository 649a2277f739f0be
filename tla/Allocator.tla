------------------------------ MODULE Allocator ------------------------------
(***************************************************************************)
(* What a memory pool promises its clients, whatever its lists look like:  *)
(* it lends out pieces of the regions it owns, a piece lies inside one     *)
(* region, and no byte is lent twice.  MemoryPool implements this.         *)
(***************************************************************************)
EXTENDS Integers

VARIABLES
  memory,   \* the regions the pool owns, as [begin, size]
  lent      \* the pieces its clients hold, as [begin, size]

allocVars == <<memory, lent>>

Piece == [begin : Nat, size : Nat \ {0}]

Apart(a, b) == a.begin + a.size <= b.begin \/ b.begin + b.size <= a.begin

Inside(p, r) == r.begin <= p.begin /\ p.begin + p.size <= r.begin + r.size

Grow ==
  \E r \in memory' \ memory :
    /\ r \in Piece
    /\ \A m \in memory : Apart(m, r)
    /\ memory' = memory \union {r}
    /\ lent' = lent

Lend ==
  \E p \in lent' \ lent :
    /\ p \in Piece
    /\ \E r \in memory : Inside(p, r)
    /\ \A q \in lent : Apart(p, q)
    /\ lent' = lent \union {p}
    /\ memory' = memory

TakeBack ==
  \E p \in lent :
    /\ lent' = lent \ {p}
    /\ memory' = memory

AllocInit ==
  /\ lent = {}
  /\ \E r \in memory : r \in Piece /\ memory = {r}

AllocNext == Grow \/ Lend \/ TakeBack

AllocSpec == AllocInit /\ [][AllocNext]_allocVars
=============================================================================
