--------------------------- MODULE MCUsageReports ---------------------------
(* Instances of UsageReports for TLC.                                      *)
EXTENDS UsageReports, TLC

Sym == Permutations(Grant)
=============================================================================
