----------------------------- MODULE MCTcpRelay -----------------------------
(* An instance of TcpRelay for TLC, with addresses of 2 and 3 bits. *)
EXTENDS TcpRelay

MCWidth == [f \in {"v4", "v6"} |-> IF f = "v4" THEN 2 ELSE 3]
Ones(n) == {i \in 0 .. 2 : (n \div 2 ^ i) % 2 = 1}
Addr(f, n) == [family |-> f, bits |-> Ones(n)]
Cidr(f, n, p) == [family |-> f, bits |-> Ones(n), prefix |-> p]

MCAddrs == {Addr("v4", 1), Addr("v4", 2), Addr("v6", 5)}

(* Everything, single addresses, and prefixes between with host bits set. *)
MCRouteLists ==
  {{Cidr("v4", 3, 0), Cidr("v6", 5, 3)}, {Cidr("v4", 3, 1), Cidr("v6", 6, 2)},
   {Cidr("v4", 1, 2), Cidr("v6", 2, 0)}}

=============================================================================
