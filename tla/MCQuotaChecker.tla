--------------------------- MODULE MCQuotaChecker ---------------------------
(* Instances of QuotaChecker for TLC. *)
EXTENDS QuotaChecker, TLC

RequestSymmetry == Permutations(Requests)
=============================================================================
