------------------------------ MODULE MCSocks -------------------------------
(* An instance of Socks for TLC. *)
EXTENDS Socks

Bytes(n) == [i \in 1 .. n |-> 97]

(* None, one without the other, and the lengths around the limits. *)
MCCredentials ==
  {<<None, None>>, <<Bytes(1), None>>, <<None, Bytes(1)>>} \cup
  {<<Bytes(n), Bytes(1)>> : n \in {0, 255, 256}} \cup
  {<<Bytes(1), Bytes(n)>> : n \in {0, 255, 256}}

V6(last) == [i \in 1 .. 16 |-> IF i = 16 THEN last ELSE 0]
MCProxyIp == <<10, 0, 0, 5>>

(* Concrete and unspecified addresses of both families. *)
MCBinds == {[ip |-> <<10, 0, 0, 6>>, port |-> 513],
            [ip |-> <<0, 0, 0, 0>>, port |-> 513],
            [ip |-> V6(1), port |-> 7],
            [ip |-> V6(0), port |-> 7]}

MCTargets == {[ip |-> <<1, 2, 3, 4>>, port |-> 258], [ip |-> V6(1), port |-> 53]}
MCPayloads == {<<>>, <<1, 4>>}

=============================================================================
