------------------------------- MODULE MCTunnel ------------------------------
(* Instances of Tunnel for TLC: a proxy, a bypass destination and a split
   route of each family.                                                   *)
EXTENDS Tunnel

CONSTANTS p1, p6, b4, b6, s4, s6, d1

MCFamily == [d \in Dsts |-> IF d \in {p6, b6, s6} THEN "v6" ELSE "v4"]

Config(proxy, auth, bypass, dns) ==
  [proxy |-> proxy, auth |-> auth, bypass |-> bypass, dns |-> dns]

(* A move of the proxy to the other family, a change of its credentials, of the
   bypass routes and of the DNS override.                                  *)
Moves == {Config(p1, 1, {b4}, d1), Config(p1, 1, {}, d1),
          Config(p1, 2, {b4, b6}, None), Config(p6, 1, {b6}, None)}

V4Only == {{"v4"}}
V4OrBoth == {{"v4"}, {"v4", "v6"}}

=============================================================================
