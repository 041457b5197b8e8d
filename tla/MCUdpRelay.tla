----------------------------- MODULE MCUdpRelay ------------------------------
(* Instances of UdpRelay for TLC. *)
EXTENDS UdpRelay

CONSTANTS c1, c2, c3, k1

=============================================================================
