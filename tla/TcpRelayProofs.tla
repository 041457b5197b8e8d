--------------------------- MODULE TcpRelayProofs ---------------------------
(***************************************************************************)
(* Proofs about TcpRelay, for any number of connections, permits and       *)
(* reloads and for addresses of any width.                                 *)
(***************************************************************************)
EXTENDS TcpRelay, TLAPS, FiniteSetTheorems

USE DEF sharedVars

(* The connections in one of some states. *)
Among(r, states) == {c \in Conns : r[c] \in states}

Counted == {"connecting", "copying"}
Holding == {"acquire", "loadProxy", "loadRoutes"}

(* The accept loop has one connection in hand, or none. *)
AcceptorInv ==
  /\ acceptor \in Holding <=> held # None
  /\ \A c \in Conns : relay[c] = "held" <=> held = c

(* A table in Shared is made from a list of bypass CIDRs. *)
SharedInv ==
  /\ routes = [number |-> routes.number, list |-> routes.list,
               table |-> new(routes.list)]
  /\ routes.list \in RouteLists
  /\ storing \in RouteLists \cup {None}

(* What the loop has loaded is not older than asOf, nor newer than Shared. *)
TakenInv ==
  /\ DOMAIN taken = Conns
  /\ acceptor \in {"loadProxy", "loadRoutes"} =>
       asOf.proxy \in 0 .. proxy /\ asOf.routes \in 0 .. routes.number
  /\ acceptor = "loadRoutes" =>
       /\ taken[held] = [proxy |-> taken[held].proxy, routes |-> None]
       /\ taken[held].proxy \in asOf.proxy .. proxy

(* The gauge is the number of relays that have counted their start and not
   their end.                                                              *)
GaugeExact == stats["active"] = Cardinality(Among(relay, Counted))

CountersAdd ==
  /\ stats["opened"] = stats["closed"] + stats["active"]
  /\ stats["opened"] = stats["direct"] + stats["proxied"]
  /\ stats["failures"] <= stats["errors"] /\ stats["errors"] <= stats["closed"]

RelayInv == /\ TypeOK /\ AcceptorInv /\ SharedInv /\ TakenInv
            /\ PermitsConserved /\ GaugeExact /\ CountersAdd

-----------------------------------------------------------------------------
(* Lemmas about the connections in some states *)

(* The number of connections in some states is a number. *)
LEMMA AmongFinite ==
  ASSUME NEW r, NEW states
  PROVE  /\ IsFiniteSet(Among(r, states))
         /\ Cardinality(Among(r, states)) \in Nat
<1>1. IsFiniteSet(Conns)
  BY FS_Interval, TcpRelayAssumption DEF Conns
<1>2. Among(r, states) \subseteq Conns
  BY DEF Among
<1>3. IsFiniteSet(Among(r, states))
  BY <1>1, <1>2, FS_Subset
<1> QED
  BY <1>3, FS_CardinalityType

(* One connection enters the states, ... *)
LEMMA AmongEnters ==
  ASSUME NEW r, NEW c \in Conns, NEW s, NEW states,
         NEW q, \A x \in Conns : q[x] = IF x = c THEN s ELSE r[x],
         s \in states, r[c] \notin states
  PROVE  Cardinality(Among(q, states)) = Cardinality(Among(r, states)) + 1
<1>1. IsFiniteSet(Among(r, states)) /\ c \notin Among(r, states)
  BY AmongFinite DEF Among
<1>2. Among(q, states) = Among(r, states) \cup {c}
  BY DEF Among
<1> QED
  BY <1>1, <1>2, FS_AddElement

(* ... leaves them, ... *)
LEMMA AmongLeaves ==
  ASSUME NEW r, NEW c \in Conns, NEW s, NEW states,
         NEW q, \A x \in Conns : q[x] = IF x = c THEN s ELSE r[x],
         s \notin states, r[c] \in states
  PROVE  Cardinality(Among(q, states)) = Cardinality(Among(r, states)) - 1
<1>1. IsFiniteSet(Among(r, states)) /\ c \in Among(r, states)
  BY AmongFinite DEF Among
<1>2. Among(q, states) = Among(r, states) \ {c}
  BY DEF Among
<1> QED
  BY <1>1, <1>2, FS_RemoveElement

(* ... or stays in or out of them. *)
LEMMA AmongStays ==
  ASSUME NEW r, NEW c \in Conns, NEW s, NEW states,
         NEW q, \A x \in Conns : q[x] = IF x = c THEN s ELSE r[x],
         s \in states <=> r[c] \in states
  PROVE  Cardinality(Among(q, states)) = Cardinality(Among(r, states))
<1>1. Among(q, states) = Among(r, states)
  BY DEF Among
<1> QED
  BY <1>1

(* With no connection in some states there are 0 of them. *)
LEMMA AmongNone ==
  ASSUME NEW r, NEW states, \A c \in Conns : r[c] \notin states
  PROVE  Cardinality(Among(r, states)) = 0
<1>1. Among(r, states) = {}
  BY DEF Among
<1> QED
  BY <1>1, FS_EmptySet

(* The relays alive, as a set of states. *)
LEMMA LiveAmong == Live = Among(relay, Spawned) /\ Live' = Among(relay', Spawned)
  BY DEF Live, Among

(* The relays that have counted are among those alive. *)
LEMMA CountedAlive ==
  Cardinality(Among(relay, Counted)) <= Cardinality(Live)
<1>1. Among(relay, Counted) \subseteq Live
  BY DEF Among, Counted, Live, Spawned
<1>2. Live = Among(relay, Spawned)
  BY DEF Among, Live
<1> QED
  BY <1>1, <1>2, AmongFinite, FS_Subset

-----------------------------------------------------------------------------
(* The invariant *)

(* run() starts with all permits free and no relay. *)
LEMMA RelayInit == Init => RelayInv
<1> SUFFICES ASSUME Init
             PROVE  RelayInv
  OBVIOUS
<1>1. \A c \in Conns : relay[c] \notin Spawned /\ relay[c] \notin Counted
  BY DEF Init, Spawned, Counted
<1>2. Cardinality(Live) = 0 /\ Cardinality(Among(relay, Counted)) = 0
  <2>1. Live = Among(relay, Spawned)
    BY DEF Live, Among
  <2> QED
    BY <1>1, <2>1, AmongNone
<1>3. TypeOK
  BY TcpRelayAssumption DEF Init, TypeOK, Spawned, Counters
<1>4. AcceptorInv
  BY TcpRelayAssumption DEF Init, AcceptorInv, Holding
<1>5. SharedInv /\ TakenInv
  BY DEF Init, SharedInv, TakenInv
<1>6. PermitsConserved
  BY <1>2, TcpRelayAssumption DEF Init, PermitsConserved
<1>7. GaugeExact /\ CountersAdd
  BY <1>2 DEF Init, GaugeExact, CountersAdd, Counters
<1> QED
  BY <1>3, <1>4, <1>5, <1>6, <1>7 DEF RelayInv

(* apply_reload touches neither the relays nor the permits, and makes the
   table of the list it stores.                                            *)
LEMMA StorePreserves ==
  ASSUME RelayInv, (\E list \in RouteLists : StoreProxy(list)) \/ StoreRoutes
  PROVE  RelayInv'
<1>1. UNCHANGED <<permits, acceptor, held, asOf, relay, dst, taken, stats>>
  BY DEF StoreProxy, StoreRoutes
<1>2. /\ proxy' \in Nat /\ proxy' >= proxy
      /\ routes'.number \in routes.number .. proxy'
      /\ SharedInv'
  <2>1. CASE \E list \in RouteLists : StoreProxy(list)
    BY <2>1 DEF StoreProxy, RelayInv, TypeOK, SharedInv
  <2>2. CASE StoreRoutes
    BY <2>2 DEF StoreRoutes, RelayInv, TypeOK, SharedInv
  <2> QED
    BY <2>1, <2>2
<1>3. TypeOK'
  BY <1>1, <1>2 DEF RelayInv, TypeOK
<1>4. TakenInv'
  BY <1>1, <1>2 DEF RelayInv, TakenInv, TypeOK
<1>5. AcceptorInv' /\ PermitsConserved' /\ GaugeExact' /\ CountersAdd'
  BY <1>1 DEF RelayInv, AcceptorInv, PermitsConserved, Live, GaugeExact,
              CountersAdd, Among
<1> QED
  BY <1>2, <1>3, <1>4, <1>5 DEF RelayInv

(* The accept loop takes the next connection in hand. *)
LEMMA AcceptPreserves ==
  ASSUME RelayInv, NEW c \in Conns, NEW a \in Addrs, Accept(c, a)
  PROVE  RelayInv'
<1>1. \A x \in Conns : relay'[x] = IF x = c THEN "held" ELSE relay[x]
  BY DEF RelayInv, TypeOK, Accept
<1>2. relay[c] = "new"
  BY DEF Accept
<1>3. /\ Cardinality(Among(relay', Spawned)) = Cardinality(Among(relay, Spawned))
      /\ Cardinality(Among(relay', Counted)) = Cardinality(Among(relay, Counted))
  BY <1>1, <1>2, AmongStays DEF Spawned, Counted
<1>4. TypeOK'
  BY DEF RelayInv, TypeOK, Accept
<1>5. AcceptorInv'
  BY <1>1, TcpRelayAssumption DEF RelayInv, AcceptorInv, Accept, Holding
<1>6. SharedInv' /\ TakenInv' /\ CountersAdd'
  BY DEF RelayInv, SharedInv, TakenInv, CountersAdd, Accept
<1>7. PermitsConserved' /\ GaugeExact'
  BY <1>3, LiveAmong DEF RelayInv, PermitsConserved, GaugeExact, Accept
<1> QED
  BY <1>4, <1>5, <1>6, <1>7 DEF RelayInv

(* acquire_owned takes one permit and notes what Shared holds. *)
LEMMA AcquirePreserves == ASSUME RelayInv, Acquire PROVE RelayInv'
<1>1. Live' = Live /\ Cardinality(Live) \in Nat
  BY LiveAmong, AmongFinite DEF Live, Acquire
<1>2. TypeOK'
  BY TcpRelayAssumption DEF RelayInv, TypeOK, Acquire
<1>3. AcceptorInv' /\ SharedInv' /\ CountersAdd' /\ GaugeExact'
  BY DEF RelayInv, AcceptorInv, SharedInv, CountersAdd, GaugeExact, Acquire,
         Holding, Among
<1>4. TakenInv'
  BY DEF RelayInv, TypeOK, TakenInv, Acquire
<1>5. PermitsConserved'
  BY <1>1, TcpRelayAssumption DEF RelayInv, TypeOK, PermitsConserved, Acquire
<1> QED
  BY <1>2, <1>3, <1>4, <1>5 DEF RelayInv

(* The proxy that is loaded is the one in Shared, so not older than asOf. *)
LEMMA LoadProxyPreserves == ASSUME RelayInv, LoadProxy PROVE RelayInv'
<1>1. held \in Conns
  BY DEF RelayInv, TypeOK, AcceptorInv, Holding, LoadProxy
<1>2. TypeOK'
  BY DEF RelayInv, TypeOK, LoadProxy
<1>3. AcceptorInv' /\ SharedInv' /\ CountersAdd' /\ GaugeExact'
  BY DEF RelayInv, AcceptorInv, SharedInv, CountersAdd, GaugeExact, LoadProxy,
         Holding, Among
<1>4. TakenInv'
  BY <1>1 DEF RelayInv, TypeOK, TakenInv, LoadProxy
<1>5. PermitsConserved'
  BY DEF RelayInv, PermitsConserved, LoadProxy, Live
<1> QED
  BY <1>2, <1>3, <1>4, <1>5 DEF RelayInv

(* The permit in hand becomes the one of the task that is spawned. *)
LEMMA LoadRoutesPreserves == ASSUME RelayInv, LoadRoutes PROVE RelayInv'
<1>1. held \in Conns /\ relay[held] = "held"
  BY DEF RelayInv, TypeOK, AcceptorInv, Holding, LoadRoutes
<1>2. \A x \in Conns : relay'[x] = IF x = held THEN "spawned" ELSE relay[x]
  BY DEF RelayInv, TypeOK, LoadRoutes
<1>3. Cardinality(Among(relay', Spawned)) = Cardinality(Among(relay, Spawned)) + 1
  BY <1>1, <1>2, AmongEnters DEF Spawned
<1>4. Cardinality(Among(relay', Counted)) = Cardinality(Among(relay, Counted))
  BY <1>1, <1>2, AmongStays DEF Counted
<1>5. Cardinality(Among(relay, Spawned)) \in Nat
  BY AmongFinite
<1>6. TypeOK'
  BY <1>1 DEF RelayInv, TypeOK, LoadRoutes, Spawned
<1>7. AcceptorInv'
  BY <1>1, <1>2, TcpRelayAssumption DEF RelayInv, AcceptorInv, LoadRoutes, Holding
<1>8. SharedInv' /\ TakenInv' /\ CountersAdd'
  BY DEF RelayInv, SharedInv, TakenInv, CountersAdd, LoadRoutes
<1>9. PermitsConserved'
  BY <1>3, <1>5, LiveAmong, TcpRelayAssumption
  DEF RelayInv, TypeOK, PermitsConserved, LoadRoutes
<1>10. GaugeExact'
  BY <1>4 DEF RelayInv, GaugeExact, LoadRoutes
<1> QED
  BY <1>6, <1>7, <1>8, <1>9, <1>10 DEF RelayInv

(* run() aborts the loop only where it waits, and there it has no permit. *)
LEMMA EndLoopPreserves == ASSUME RelayInv, EndLoop PROVE RelayInv'
<1>1. TypeOK'
  BY DEF RelayInv, TypeOK, EndLoop
<1>2. Among(relay', Spawned) = Among(relay, Spawned)
  BY DEF RelayInv, AcceptorInv, EndLoop, Among, Spawned
<1>3. Among(relay', Counted) = Among(relay, Counted)
  BY DEF RelayInv, AcceptorInv, EndLoop, Among, Counted
<1>4. AcceptorInv'
  BY TcpRelayAssumption DEF RelayInv, AcceptorInv, EndLoop, Holding
<1>5. SharedInv' /\ TakenInv' /\ CountersAdd'
  BY DEF RelayInv, SharedInv, TakenInv, CountersAdd, EndLoop
<1>6. PermitsConserved' /\ GaugeExact'
  BY <1>2, <1>3, LiveAmong DEF RelayInv, PermitsConserved, GaugeExact, EndLoop
<1> QED
  BY <1>1, <1>4, <1>5, <1>6 DEF RelayInv

(* A relay task counts when it starts, ... *)
LEMMA StartPreserves ==
  ASSUME RelayInv, NEW c \in Conns, Start(c)
  PROVE  RelayInv'
<1>1. \A x \in Conns : relay'[x] = IF x = c THEN "connecting" ELSE relay[x]
  BY DEF RelayInv, TypeOK, Start
<1>2. relay[c] = "spawned"
  BY DEF Start
<1>3. Cardinality(Among(relay', Spawned)) = Cardinality(Among(relay, Spawned))
  BY <1>1, <1>2, AmongStays DEF Spawned
<1>4. Cardinality(Among(relay', Counted)) = Cardinality(Among(relay, Counted)) + 1
  BY <1>1, <1>2, AmongEnters DEF Counted
<1>5. PICK flow \in {"direct", "proxied"} :
        stats' = Count([k \in {"opened", "active", flow} |-> 1])
  BY DEF Start
<1>6. /\ stats' \in [Counters -> Nat]
      /\ stats'["active"] = stats["active"] + 1
      /\ CountersAdd'
  BY <1>5 DEF Count, RelayInv, TypeOK, Counters, CountersAdd
<1>7. TypeOK'
  BY <1>6 DEF RelayInv, TypeOK, Start, Spawned
<1>8. AcceptorInv'
  BY <1>1, <1>2 DEF RelayInv, AcceptorInv, Start
<1>9. SharedInv' /\ TakenInv'
  BY DEF RelayInv, SharedInv, TakenInv, Start
<1>10. PermitsConserved'
  BY <1>3, LiveAmong DEF RelayInv, PermitsConserved, Start
<1>11. GaugeExact'
  BY <1>4, <1>6 DEF RelayInv, GaugeExact
<1> QED
  BY <1>6, <1>7, <1>8, <1>9, <1>10, <1>11 DEF RelayInv

(* ... copies under the same permit and gauge once it is connected, ... *)
LEMMA ConnectedPreserves ==
  ASSUME RelayInv, NEW c \in Conns, Connected(c)
  PROVE  RelayInv'
<1>1. \A x \in Conns : relay'[x] = IF x = c THEN "copying" ELSE relay[x]
  BY DEF RelayInv, TypeOK, Connected
<1>2. relay[c] = "connecting"
  BY DEF Connected
<1>3. /\ Cardinality(Among(relay', Spawned)) = Cardinality(Among(relay, Spawned))
      /\ Cardinality(Among(relay', Counted)) = Cardinality(Among(relay, Counted))
  BY <1>1, <1>2, AmongStays DEF Spawned, Counted
<1>4. TypeOK'
  BY DEF RelayInv, TypeOK, Connected, Spawned
<1>5. AcceptorInv'
  BY <1>1, <1>2 DEF RelayInv, AcceptorInv, Connected
<1>6. SharedInv' /\ TakenInv' /\ CountersAdd'
  BY DEF RelayInv, SharedInv, TakenInv, CountersAdd, Connected
<1>7. PermitsConserved' /\ GaugeExact'
  BY <1>3, LiveAmong DEF RelayInv, PermitsConserved, GaugeExact, Connected
<1> QED
  BY <1>4, <1>5, <1>6, <1>7 DEF RelayInv

(* ... and when it ends, on each of its ways out, which give back one permit
   and lower the gauge once.                                               *)
LEMMA FinishPreserves ==
  ASSUME RelayInv, NEW c \in Conns, relay[c] \in Counted,
         NEW kinds \in {{"closed", "errors", "failures"}, {"closed", "errors"},
                         {"closed"}},
         Finish(c, [k \in kinds |-> 1])
  PROVE  RelayInv'
<1>1. \A x \in Conns : relay'[x] = IF x = c THEN "done" ELSE relay[x]
  BY DEF RelayInv, TypeOK, Finish
<1>2. Cardinality(Among(relay', Spawned)) = Cardinality(Among(relay, Spawned)) - 1
  <2>1. "done" \notin Spawned /\ relay[c] \in Spawned
    BY DEF Spawned, Counted
  <2> QED
    BY <1>1, <2>1, AmongLeaves
<1>3. Cardinality(Among(relay', Counted)) = Cardinality(Among(relay, Counted)) - 1
  <2>1. "done" \notin Counted
    BY DEF Counted
  <2> QED
    BY <1>1, <2>1, AmongLeaves
<1>4. /\ Cardinality(Among(relay', Spawned)) \in Nat
      /\ Cardinality(Among(relay', Counted)) \in Nat
      /\ Cardinality(Among(relay, Spawned)) \in Nat
      /\ Cardinality(Among(relay, Counted)) \in Nat
  BY AmongFinite
<1>5. stats["active"] >= 1
  BY <1>3, <1>4 DEF RelayInv, GaugeExact
<1>6. /\ stats' \in [Counters -> Nat]
      /\ stats'["active"] = stats["active"] - 1
      /\ CountersAdd'
  BY <1>5 DEF Finish, Count, RelayInv, TypeOK, Counters, CountersAdd
<1>7. PermitsConserved'
  BY <1>2, <1>4, LiveAmong DEF RelayInv, TypeOK, PermitsConserved, Finish
<1>8. permits' \in 0 .. max_tcp_connections
  BY <1>4, <1>7, LiveAmong, TcpRelayAssumption
  DEF RelayInv, TypeOK, PermitsConserved, Finish
<1>9. TypeOK'
  BY <1>6, <1>8 DEF RelayInv, TypeOK, Finish, Spawned
<1>10. AcceptorInv'
  BY <1>1 DEF RelayInv, AcceptorInv, Finish, Counted
<1>11. SharedInv'
  BY DEF RelayInv, SharedInv, Finish
<1>12. TakenInv'
  BY DEF RelayInv, TakenInv, TypeOK, AcceptorInv, Holding, Finish, Counted
<1>13. GaugeExact'
  BY <1>3, <1>6 DEF RelayInv, GaugeExact
<1> QED
  BY <1>6, <1>7, <1>9, <1>10, <1>11, <1>12, <1>13 DEF RelayInv

(* Every step preserves the invariant. *)
LEMMA RelayStep == RelayInv /\ [Next]_vars => RelayInv'
<1> SUFFICES ASSUME RelayInv, [Next]_vars
             PROVE  RelayInv'
  OBVIOUS
<1>1. CASE UNCHANGED vars
  BY <1>1 DEF vars, RelayInv, TypeOK, AcceptorInv, SharedInv, TakenInv,
              PermitsConserved, GaugeExact, CountersAdd, Live, Among
<1>2. CASE (\E list \in RouteLists : StoreProxy(list)) \/ StoreRoutes
  BY <1>2, StorePreserves
<1>3. CASE \E c \in Conns, a \in Addrs : Accept(c, a)
  BY <1>3, AcceptPreserves
<1>4. CASE Loop \/ EndLoop
  BY <1>4, AcquirePreserves, LoadProxyPreserves, LoadRoutesPreserves,
     EndLoopPreserves DEF Loop
<1>5. ASSUME NEW c \in Conns, Relay(c)
      PROVE  RelayInv'
  <2>1. CASE Start(c) \/ Connected(c)
    BY <2>1, StartPreserves, ConnectedPreserves
  <2>2. CASE ConnectFails(c)
    <3>1. relay[c] \in Counted
      BY <2>2 DEF ConnectFails, Counted
    <3> QED
      BY <2>2, <3>1, FinishPreserves DEF ConnectFails
  <2> QED
    BY <1>5, <2>1, <2>2 DEF Relay
<1>6. ASSUME NEW c \in Conns, CopyEnds(c)
      PROVE  RelayInv'
  <2>1. relay[c] \in Counted
    BY <1>6 DEF CopyEnds, Counted
  <2> QED
    BY <1>6, <2>1, FinishPreserves DEF CopyEnds
<1> QED
  BY <1>1, <1>2, <1>3, <1>4, <1>5, <1>6 DEF Next

(* The invariant holds in every reachable state. *)
LEMMA RelayInvariant == Spec => []RelayInv
  BY RelayInit, RelayStep, PTL DEF Spec

-----------------------------------------------------------------------------
(* Theorems *)

(* The types of the accept loop's and the relays' state, for any number of
   connections; TCP_ACTIVE never goes below 0, where it would wrap around.  *)
THEOREM TypeCorrect == Spec => []TypeOK
<1>1. RelayInv => TypeOK
  BY DEF RelayInv
<1> QED
  BY <1>1, RelayInvariant, PTL

(* tcp_semaphore: no permit is lost or given back twice on any way out of a
   relay, so that at most max_tcp_connections relays are alive.            *)
THEOREM NoPermitLost == Spec => []PermitsConserved
<1>1. RelayInv => PermitsConserved
  BY DEF RelayInv
<1> QED
  BY <1>1, RelayInvariant, PTL

(* The counters of src/stats.rs add up whenever no task is between two
   increments of one step.                                                 *)
THEOREM CountersAddUp == Spec => []CountersBalance
<1>1. RelayInv => CountersBalance
  BY CountedAlive DEF RelayInv, GaugeExact, CountersAdd, CountersBalance
<1> QED
  BY <1>1, RelayInvariant, PTL

(* A connection is not relayed by a proxy or by routes that were replaced
   before it got its permit, however long it waited for it.                *)
THEOREM NeverStale == Spec => NotStalerThanPermit
<1>1. ASSUME RelayInv, [Next]_vars, NEW c \in Conns,
             relay[c] = "held", relay'[c] = "spawned"
      PROVE  /\ taken'[c].proxy >= asOf.proxy
             /\ taken'[c].routes.number >= asOf.routes
  <2>1. LoadRoutes
    BY <1>1 DEF RelayInv, TypeOK, Next, vars, StoreProxy, StoreRoutes, Accept, Loop,
       Acquire, LoadProxy, EndLoop, Relay, Start, Connected, ConnectFails,
       CopyEnds, Finish
  <2>2. held = c
    BY <1>1 DEF RelayInv, AcceptorInv
  <2>3. /\ taken'[c].proxy = taken[c].proxy
        /\ taken'[c].routes = routes
    BY <2>1, <2>2, <1>1 DEF LoadRoutes, RelayInv, TakenInv
  <2> QED
    BY <1>1, <2>1, <2>2, <2>3 DEF LoadRoutes, RelayInv, TakenInv, TypeOK
<1>2. RelayInv /\ [Next]_vars =>
        [\A c \in Conns : relay[c] = "held" /\ relay'[c] = "spawned" =>
           /\ taken'[c].proxy >= asOf.proxy
           /\ taken'[c].routes.number >= asOf.routes]_vars
  BY <1>1
<1> QED
  BY <1>2, RelayInvariant, PTL DEF Spec, NotStalerThanPermit

-----------------------------------------------------------------------------
(* RouteTable *)

(* prefix_mask, for every prefix length from 0 to the width: the ones are the
   leading positions. The cases of 0 and of the whole width, which a shift
   alone would not cover, fall in with the others.                         *)
LEMMA MaskLeads ==
  ASSUME NEW w \in Nat, NEW prefix \in 0 .. w
  PROVE  prefix_mask(w, prefix) = {i \in MAX(w) : i >= w - prefix}
  BY DEF prefix_mask, Shl, MAX

(* Comparing under the mask is comparing the leading bits. *)
LEMMA MaskedEqual ==
  ASSUME NEW w \in Nat, NEW prefix \in 0 .. w, NEW bits, NEW base
  PROVE  bits \cap prefix_mask(w, prefix) = base \cap prefix_mask(w, prefix) <=>
           \A i \in MAX(w) : i >= w - prefix => (i \in base <=> i \in bits)
  BY MaskLeads

(* RouteTable::new and RouteTable::decide together decide by the CIDRs, for
   addresses of any width.                                                 *)
LEMMA DecideCovers ==
  ASSUME NEW list \in RouteLists, NEW a
  PROVE  (\E e \in new(list) : e.family = a.family /\ a.bits \cap e.mask = e.base)
           <=> \E c \in list : Covers(c, a)
<1> DEFINE Entry(c) == LET mask == prefix_mask(Width[c.family], c.prefix)
                       IN  [family |-> c.family, base |-> c.bits \cap mask,
                            mask |-> mask]
<1>1. ASSUME NEW c \in list
      PROVE  /\ Entry(c).family = a.family
             /\ a.bits \cap Entry(c).mask = Entry(c).base
             <=> Covers(c, a)
  <2> DEFINE w == Width[c.family]
             p == c.prefix
             x == a.bits
             y == c.bits
  <2>1. w \in Nat /\ p \in 0 .. w
    BY TcpRelayAssumption
  <2> HIDE DEF w, p, x, y
  <2>2. x \cap prefix_mask(w, p) = y \cap prefix_mask(w, p) <=>
          \A i \in MAX(w) : i >= w - p => (i \in y <=> i \in x)
    BY <2>1, MaskedEqual
  <2> QED
    BY <2>2 DEF Covers, w, p, x, y
<1>2. new(list) = {Entry(c) : c \in list}
  BY DEF new
<1> HIDE DEF Entry
<1> QED
  BY <1>1, <1>2

(* A destination is classified by the bypass CIDRs of the routes in Shared. *)
THEOREM ClassifiedByPrefix == Spec => []DecidesByPrefix
<1>1. RelayInv => DecidesByPrefix
  <2> SUFFICES ASSUME RelayInv, NEW a \in Addrs
               PROVE  decide(routes.table, a) =
                        IF \E c \in routes.list : Covers(c, a)
                          THEN "direct" ELSE "proxy"
    BY DEF DecidesByPrefix
  <2>1. routes.list \in RouteLists /\ routes.table = new(routes.list)
    BY DEF RelayInv, SharedInv
  <2> QED
    BY <2>1, DecideCovers DEF decide
<1> QED
  BY <1>1, RelayInvariant, PTL

=============================================================================
