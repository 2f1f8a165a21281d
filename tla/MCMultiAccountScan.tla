------------------------- MODULE MCMultiAccountScan -------------------------
(***************************************************************************)
(* Small instances of MultiAccountScan for TLC. In the "pool" instance      *)
(* three accounts share two threads, so that one of them waits in the      *)
(* pool's queue; in the "regions" instance two accounts have two regions.  *)
(***************************************************************************)
EXTENDS MultiAccountScan, TLC

CONSTANTS r1, r2

OneRegion == {r1}
TwoRegions == {r1, r2}
=============================================================================
