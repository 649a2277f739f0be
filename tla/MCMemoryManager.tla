--------------------------- MODULE MCMemoryManager ---------------------------
(***************************************************************************)
(* Two threads, pages of 100 bytes.  A request of 250 bytes is scaled to   *)
(* 350 and rounded to 400, one of 150 is rounded to 200.  Regions of both  *)
(* sizes: two at one address, of which the driver returns one at a time,   *)
(* two adjacent, one starting between pages.  The limit of 450 bytes fits  *)
(* any one of them.                                                        *)
(***************************************************************************)
EXTENDS MemoryManager

MCRegions == {[begin |-> 100, size |-> 400], [begin |-> 100, size |-> 200],
              [begin |-> 500, size |-> 200], [begin |-> 750, size |-> 400]}
MCRequests == {0, 150, 250}
MCExpandSizes == {200}
=============================================================================
