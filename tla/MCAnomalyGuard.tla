--------------------------- MODULE MCAnomalyGuard ---------------------------
(* Two queries of one client in flight; the limit is two queries per       *)
(* window of three units, a call takes up to one unit, the six moments     *)
(* hold two windows, or a window and the quarantine after it, and one      *)
(* window is dropped and followed by another.                              *)
EXTENDS AnomalyGuard, TLC

QuerySymmetry == Permutations(Query)
=============================================================================
