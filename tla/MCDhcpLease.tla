---------------------------- MODULE MCDhcpLease ----------------------------
(* Two clients that compete for the addresses, two ticks in a second and   *)
(* leases of five ticks, so that deadlines fall inside a second; a restart.*)
EXTENDS DhcpLease, TLC

ClientSymmetry == Permutations(Client)
=============================================================================
