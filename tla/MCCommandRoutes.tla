-------------------------- MODULE MCCommandRoutes ---------------------------
(* An instance of CommandRoutes for TLC. *)
EXTENDS CommandRoutes, TLC

CONSTANTS p1, p2, p6, b1, b6, h1, i1, d1, d6

MCFamily == [x \in {p1, p2, b1, h1, d1} |-> "v4"] @@
            [x \in {p6, b6, i1, d6} |-> "v6"]
MCV4 == <<h1>>
MCV6 == <<i1>>

Config(proxy, bypass, server) ==
  [proxy |-> proxy, bypass |-> bypass, dns |-> server]

MCConfigs == {Config(p1, <<b1>>, d1), Config(p2, <<b1, b6>>, None),
              Config(p6, <<b6>>, d6)}
MCHostGateways == {{}, {"v4"}, {"v4", "v6"}}

(* Around the smallest limit that allows for TCP_CONN_MIN connections. *)
Limit(c, m) == [current |-> c, maximum |-> m]
MCFdLimits == {Limit(319, 320)}
MCLinkMtus == {None}

=============================================================================
