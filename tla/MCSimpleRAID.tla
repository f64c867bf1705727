---------------------------- MODULE MCSimpleRAID ----------------------------
(* Small instances of SimpleRAID for TLC.                                  *)
EXTENDS SimpleRAID

(* Contents with CRCs of their own.                                        *)
DistinctCRC == [v \in Data |-> 10 + v]
=============================================================================
