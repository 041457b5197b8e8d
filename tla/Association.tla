---------------------------- MODULE Association -----------------------------
(***************************************************************************)
(* What a session of the UDP relay is promised by udp_associate of         *)
(* src/socks.rs: it fails, or it yields an address at which the relay that *)
(* the proxy has bound can be reached; and it does not take for ever.      *)
(***************************************************************************)
CONSTANTS
  Binds,     \* addresses at which the proxy may bind a relay
  ProxyIp,   \* the address at which the proxy itself is reached
  None

VARIABLES
  status,   \* "pending", "relay" or "over"
  bound,    \* where the proxy has bound a relay, or None
  relay     \* where the session sends its datagrams, or None

vars == <<status, bound, relay>>

Init == status = "pending" /\ bound = None /\ relay = None

(* What is bound to every address is reached at the proxy's own. *)
Reachable(a) ==
  IF \A i \in DOMAIN a.ip : a.ip[i] = 0 THEN [ip |-> ProxyIp, port |-> a.port] ELSE a

(* The proxy may do so also when nobody waits for it any longer. *)
Bind(a) ==
  /\ status # "relay" /\ bound = None
  /\ bound' = a
  /\ UNCHANGED <<status, relay>>

Establish ==
  /\ status = "pending" /\ bound # None
  /\ status' = "relay"
  /\ relay' = Reachable(bound)
  /\ UNCHANGED bound

Fail ==
  /\ status = "pending"
  /\ status' = "over"
  /\ UNCHANGED <<bound, relay>>

End ==
  /\ status = "relay"
  /\ status' = "over"
  /\ UNCHANGED <<bound, relay>>

Next == (\E a \in Binds : Bind(a)) \/ Establish \/ Fail \/ End

Spec == Init /\ [][Next]_vars
FairSpec == Spec /\ WF_vars(Establish \/ Fail)

=============================================================================
