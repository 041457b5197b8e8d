---------------------------- MODULE MCResolvConf -----------------------------
(* Instances of ResolvConf for TLC. *)
EXTENDS ResolvConf, TLC

CONSTANTS d1, d2

ServerSymmetry == Permutations(Servers)

=============================================================================
