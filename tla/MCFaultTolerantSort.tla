------------------------- MODULE MCFaultTolerantSort -------------------------
(* Small instances of FaultTolerantSort for TLC.                           *)
EXTENDS FaultTolerantSortInv
=============================================================================
