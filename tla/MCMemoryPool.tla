---------------------------- MODULE MCMemoryPool ----------------------------
(***************************************************************************)
(* A small instance of MemoryPool: pages of two bytes, four regions.  The  *)
(* first two are adjacent (the driver packs allocations), the third starts *)
(* between pages and the last one ends between pages, below all others.    *)
(***************************************************************************)
EXTENDS MemoryPool

MCRegions == {[begin |-> 8,  size |-> 6], [begin |-> 14, size |-> 4],
              [begin |-> 19, size |-> 5], [begin |-> 2,  size |-> 5]}

MCRequests == {0, 1, 3, 4}
=============================================================================
