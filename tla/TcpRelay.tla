------------------------------ MODULE TcpRelay ------------------------------
(***************************************************************************)
(* The TCP side of run() in src/lib.rs: the accept loop with its semaphore,*)
(* the relay task of each connection with its counters, and the reloads    *)
(* that replace the proxy and the routes these tasks take from Shared.     *)
(* Tasks and reloads run on several threads.                               *)
(***************************************************************************)
EXTENDS RouteTable, FiniteSets

CONSTANTS
  MaxConns,             \* bound: number of connections from the stack
  Addrs,                \* destinations: [family, bits]
  RouteLists,           \* sets of CIDRs a configuration may have as bypass
  max_tcp_connections,
  MaxReloads,           \* bound: number of reloads
  None

Conns == 1 .. MaxConns  \* in the order in which they come

ASSUME TcpRelayAssumption ==
  /\ MaxConns \in Nat
  /\ max_tcp_connections \in Nat \ {0}
  /\ MaxReloads \in Nat
  /\ Width \in [{"v4", "v6"} -> Nat]
  /\ \A list \in RouteLists : \A c \in list :
       c.family \in {"v4", "v6"} /\ c.prefix \in 0 .. Width[c.family]
  /\ None \notin RouteLists /\ None \notin Conns

VARIABLES
  proxy,     \* Shared.proxy: the number of the reload that stored it
  routes,    \* Shared.routes: its number and the table
  storing,   \* the list a reload has still to store, or None
  permits,   \* of tcp_semaphore
  acceptor,  \* where the accept loop is
  held,      \* the connection it has in hand, or None
  asOf,      \* history: numbers of proxy and routes when it got its permit
  relay,     \* the state of each connection
  dst,       \* its destination
  taken,     \* the proxy and routes its task was given
  stats

sharedVars == <<proxy, routes, storing>>
vars == <<sharedVars, permits, acceptor, held, asOf, relay, dst, taken, stats>>

Counters == {"opened", "closed", "active", "errors", "failures", "direct",
             "proxied"}

Init ==
  /\ proxy = 0
  /\ \E list \in RouteLists : routes = [number |-> 0, list |-> list,
                                        table |-> new(list)]
  /\ storing = None
  /\ permits = max_tcp_connections
  /\ acceptor = "next" /\ held = None /\ asOf = None
  /\ relay = [c \in Conns |-> "new"]
  /\ dst = [c \in Conns |-> None]
  /\ taken = [c \in Conns |-> None]
  /\ stats = [k \in Counters |-> 0]

-----------------------------------------------------------------------------
(* apply_reload: store_proxy, then store_routes *)

StoreProxy(list) ==
  /\ storing = None /\ proxy < MaxReloads
  /\ proxy' = proxy + 1
  /\ storing' = list
  /\ UNCHANGED <<routes, permits, acceptor, held, asOf, relay, dst, taken, stats>>

StoreRoutes ==
  /\ storing # None
  /\ routes' = [number |-> proxy, list |-> storing, table |-> new(storing)]
  /\ storing' = None
  /\ UNCHANGED <<proxy, permits, acceptor, held, asOf, relay, dst, taken, stats>>

-----------------------------------------------------------------------------
(* The accept loop *)

Accept(c, a) ==
  /\ acceptor = "next"
  /\ relay[c] = "new" /\ \A b \in 1 .. c - 1 : relay[b] # "new"
  /\ relay' = [relay EXCEPT ![c] = "held"]
  /\ dst' = [dst EXCEPT ![c] = a]
  /\ held' = c
  /\ acceptor' = "acquire"
  /\ UNCHANGED <<sharedVars, permits, asOf, taken, stats>>

(* Mutant: the proxy is taken before the permit. *)
AcquireLate ==
  /\ acceptor = "acquire"
  /\ \/ /\ taken[held] = None
        /\ taken' = [taken EXCEPT ![held] = [proxy |-> proxy, routes |-> None]]
        /\ UNCHANGED <<permits, acceptor, asOf>>
     \/ /\ taken[held] # None /\ permits > 0
        /\ permits' = permits - 1
        /\ asOf' = [proxy |-> proxy, routes |-> routes.number]
        /\ acceptor' = "loadRoutes"
        /\ UNCHANGED taken
  /\ UNCHANGED <<sharedVars, held, relay, dst, stats>>

Acquire ==
  /\ acceptor = "acquire"
  /\ permits > 0
  /\ permits' = permits - 1
  /\ asOf' = [proxy |-> proxy, routes |-> routes.number]
  /\ acceptor' = "loadProxy"
  /\ UNCHANGED <<sharedVars, held, relay, dst, taken, stats>>

LoadProxy ==
  /\ acceptor = "loadProxy"
  /\ taken' = [taken EXCEPT ![held] = [proxy |-> proxy, routes |-> None]]
  /\ acceptor' = "loadRoutes"
  /\ UNCHANGED <<sharedVars, permits, held, asOf, relay, dst, stats>>

(* Mutant: the permit is dropped by the loop, not moved into the task. *)
LoadRoutesDropsPermit ==
  /\ acceptor = "loadRoutes"
  /\ taken' = [taken EXCEPT ![held].routes = routes]
  /\ relay' = [relay EXCEPT ![held] = "spawned"]
  /\ permits' = permits + 1
  /\ acceptor' = "next"
  /\ held' = None /\ asOf' = None
  /\ UNCHANGED <<sharedVars, dst, stats>>

(* ... and the task is spawned. *)
LoadRoutes ==
  /\ acceptor = "loadRoutes"
  /\ taken' = [taken EXCEPT ![held].routes = routes]
  /\ relay' = [relay EXCEPT ![held] = "spawned"]
  /\ acceptor' = "next"
  /\ held' = None /\ asOf' = None
  /\ UNCHANGED <<sharedVars, permits, dst, stats>>

(* The listener ends, or run() aborts the loop where it waits; a connection
   in hand is dropped. Tasks already spawned go on.                        *)
EndLoop ==
  /\ acceptor \in {"next", "acquire"}
  /\ acceptor' = "ended"
  /\ relay' = [c \in Conns |-> IF c = held THEN "dropped" ELSE relay[c]]
  /\ dst' = [c \in Conns |-> IF c = held THEN None ELSE dst[c]]
  /\ held' = None
  /\ UNCHANGED <<sharedVars, permits, asOf, taken, stats>>

-----------------------------------------------------------------------------
(* relay_tcp_connection *)

(* The increments of a task between two awaits are one step: nothing in the
   code decides by a counter, so only a report of the statistics that comes
   between two of them could tell.                                         *)
Count(d) == [k \in Counters |->
              stats[k] + (IF k \in DOMAIN d THEN d[k] ELSE 0)]

(* Mutant: the gauge is not raised. *)
StartNoGauge(c) ==
  /\ relay[c] = "spawned"
  /\ relay' = [relay EXCEPT ![c] = "connecting"]
  /\ stats' = Count([k \in {"opened", "proxied"} |-> 1])
  /\ UNCHANGED <<sharedVars, permits, acceptor, held, asOf, dst, taken>>

Start(c) ==
  /\ relay[c] = "spawned"
  /\ relay' = [relay EXCEPT ![c] = "connecting"]
  /\ stats' = LET flow == decide(taken[c].routes.table, dst[c])
              IN  Count([k \in {"opened", "active",
                                IF flow = "direct" THEN "direct" ELSE "proxied"}
                           |-> 1])
  /\ UNCHANGED <<sharedVars, permits, acceptor, held, asOf, dst, taken>>

(* tcp_connect returns a stream. A flow classified as direct goes through the
   proxy as well, once it is in the tunnel.                                *)
Connected(c) ==
  /\ relay[c] = "connecting"
  /\ relay' = [relay EXCEPT ![c] = "copying"]
  /\ UNCHANGED <<sharedVars, permits, acceptor, held, asOf, dst, taken, stats>>

(* The task ends: GaugeGuard and the permit are dropped. *)
Finish(c, increments) ==
  /\ relay' = [relay EXCEPT ![c] = "done"]
  /\ permits' = permits + 1
  /\ stats' = [Count(increments) EXCEPT !["active"] = @ - 1]
  /\ dst' = [dst EXCEPT ![c] = None]
  /\ taken' = [taken EXCEPT ![c] = None]
  /\ UNCHANGED <<sharedVars, acceptor, held, asOf>>

(* Mutant: an early return that does not count the end. *)
ConnectFailsUncounted(c) ==
  /\ relay[c] = "connecting"
  /\ Finish(c, [k \in {"errors", "failures"} |-> 1])

(* Mutant: the permit is forgotten. *)
ConnectFailsKeepsPermit(c) ==
  /\ relay[c] = "connecting"
  /\ relay' = [relay EXCEPT ![c] = "done"]
  /\ stats' = [Count([k \in {"closed", "errors", "failures"} |-> 1])
                 EXCEPT !["active"] = @ - 1]
  /\ UNCHANGED <<sharedVars, permits, acceptor, held, asOf, dst, taken>>

(* tcp_connect fails, or takes longer than connect_timeout. *)
ConnectFails(c) ==
  /\ relay[c] = "connecting"
  /\ Finish(c, [k \in {"closed", "errors", "failures"} |-> 1])

(* Both directions have ended, or one has failed. *)
CopyEnds(c) ==
  /\ relay[c] = "copying"
  /\ \/ Finish(c, [k \in {"closed"} |-> 1])
     \/ Finish(c, [k \in {"closed", "errors"} |-> 1])

-----------------------------------------------------------------------------
Loop == Acquire \/ LoadProxy \/ LoadRoutes

Relay(c) == Start(c) \/ Connected(c) \/ ConnectFails(c)

Next ==
  \/ \E list \in RouteLists : StoreProxy(list)
  \/ StoreRoutes
  \/ \E c \in Conns, a \in Addrs : Accept(c, a)
  \/ Loop \/ EndLoop
  \/ \E c \in Conns : Relay(c) \/ CopyEnds(c)

Spec == Init /\ [][Next]_vars

(* Tasks that can run do, and tcp_connect ends within its timeout. Nothing
   ends a copy but its peers: copy_bidirectional has no timeout.           *)
FairSpec == Spec /\ WF_vars(Loop) /\ \A c \in Conns : WF_vars(Relay(c))

-----------------------------------------------------------------------------
(* Properties *)

Spawned == {"spawned", "connecting", "copying"}
Live == {c \in Conns : relay[c] \in Spawned}

(* The types of the variables; the gauge never goes below 0, where it would
   wrap around.                                                            *)
TypeOK ==
  /\ proxy \in Nat /\ routes.number \in 0 .. proxy
  /\ permits \in 0 .. max_tcp_connections
  /\ acceptor \in {"next", "acquire", "loadProxy", "loadRoutes", "ended"}
  /\ held \in Conns \cup {None}
  /\ relay \in [Conns -> Spawned \cup {"new", "held", "dropped", "done"}]
  /\ stats \in [Counters -> Nat]

(* At most max_tcp_connections relays are alive at any time, and a permit that
   no relay and no accepted connection has is free again: none is lost.    *)
PermitsConserved ==
  permits + Cardinality(Live) +
    (IF acceptor \in {"loadProxy", "loadRoutes"} THEN 1 ELSE 0)
  = max_tcp_connections

(* A connection that waits for its permit while the configuration is reloaded
   is relayed by what is current when it gets the permit, or by what a reload
   has stored since; proxy and routes may be of two reloads.               *)
NotStalerThanPermit ==
  [][\A c \in Conns : relay[c] = "held" /\ relay'[c] = "spawned" =>
       /\ taken'[c].proxy >= asOf.proxy
       /\ taken'[c].routes.number >= asOf.routes]_vars

(* A destination is classified as direct if and only if it agrees with one of
   the bypass CIDRs in its leading bits, for every prefix length from 0 to
   the width of an address.                                                *)
DecidesByPrefix ==
  \A a \in Addrs : decide(routes.table, a) =
    IF \E c \in routes.list : Covers(c, a) THEN "direct" ELSE "proxy"

(* The counters add up whenever no task is between two increments of one
   step: what was opened is closed or active, every flow is classified, and a
   failure to connect is an error and an end.                              *)
CountersBalance ==
  /\ stats["opened"] = stats["closed"] + stats["active"]
  /\ stats["opened"] = stats["direct"] + stats["proxied"]
  /\ stats["failures"] <= stats["errors"] /\ stats["errors"] <= stats["closed"]
  /\ stats["active"] <= Cardinality(Live)

(* An accepted connection gets its turn if no relay copies for ever: the
   relays that cannot reach the proxy give their permits back.             *)
AcceptedServed ==
  (\A c \in Conns : []<>(relay[c] # "copying")) =>
    (acceptor = "acquire" ~> acceptor # "acquire")

=============================================================================
