------------------------------ MODULE MCDnsPool ------------------------------
(* Instances of DnsPool for TLC. *)
EXTENDS DnsPool, TLC

CONSTANTS q1, q2, s1

(* All queries go to one server, and their clients chose the same id. *)
OneTarget == [q \in Queries |-> s1]
SameId == [q \in Queries |-> 0]

QuerySymmetry == Permutations(Queries)

=============================================================================
