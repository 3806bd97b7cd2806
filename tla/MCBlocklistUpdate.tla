-------------------------- MODULE MCBlocklistUpdate --------------------------
(* Instances of BlocklistUpdate for TLC. *)
EXTENDS BlocklistUpdate

HandlerSymmetry == Permutations(Handler)
=============================================================================
