----------------------------- MODULE MCAdmission ----------------------------
(* Two clients; each kind of permit suffices for one share of each. *)
EXTENDS Admission

CONSTANTS c1, c2
MCClient == {c1, c2}
MCTask == 1..4
=============================================================================
