--------------------------- MODULE UdpRelayProofs ----------------------------
(***************************************************************************)
(* Proofs about UdpRelay: for any number of clients, sessions and queries  *)
(* and any depth of the channels, a client's live session is the one in    *)
(* the map, and live sessions stay within max_sessions.                    *)
(***************************************************************************)
EXTENDS UdpRelay, TLAPS, FiniteSetTheorems

LiveTasks == {t \in Tasks : Live(t)}

(* Sessions not yet spawned have no task. *)
SpawnedInOrder ==
  \A t \in Tasks : task[t] # "none" => t[2] <= spawned[Client(t)]

IInv == /\ TypeOK
        /\ SpawnedInOrder
        /\ LiveSessionKept
        /\ LiveWithinLimit

LEMMA TaskParts ==
  ASSUME NEW t \in Tasks
  PROVE  t[1] \in Clients /\ t[2] \in 1 .. MaxGeneration /\ t = <<t[1], t[2]>>
BY DEF Tasks

LEMMA TasksFinite == IsFiniteSet(Tasks)
<1>1. IsFiniteSet(1 .. MaxGeneration)
      BY FS_Interval, UdpRelayAssumption
<1>2. IsFiniteSet(Clients \X (1 .. MaxGeneration))
      BY <1>1, FS_Product, UdpRelayAssumption
<1> QED
    BY <1>2, FS_Subset DEF Tasks

(* A set of tasks with fewer members is within the limit if this one is. *)
LEMMA FewerLive ==
  ASSUME NEW S, NEW T, S \subseteq T, T \subseteq Tasks,
         Cardinality(T) <= max_sessions
  PROVE  Cardinality(S) <= max_sessions
<1>1. IsFiniteSet(T)
      BY TasksFinite, FS_Subset
<1>2. /\ IsFiniteSet(S) /\ Cardinality(S) <= Cardinality(T)
      BY <1>1, FS_Subset
<1>3. Cardinality(S) \in Nat /\ Cardinality(T) \in Nat
      BY <1>1, <1>2, FS_CardinalityType
<1> QED
    BY <1>2, <1>3, UdpRelayAssumption

-----------------------------------------------------------------------------
LEMMA TypeInit == Init => TypeOK
BY UdpRelayAssumption DEF Init, TypeOK

LEMMA TypeNext == TypeOK /\ [Next]_vars => TypeOK'
<1> SUFFICES ASSUME TypeOK, [Next]_vars PROVE TypeOK'
    OBVIOUS
<1> USE UdpRelayAssumption DEF TypeOK, taskVars, chanVars, Becomes
<1>1. CASE HandleDone
  <2>1. Head(done) \in Clients /\ Tail(done) \in Seq(Clients)
        /\ Len(Tail(done)) <= DONE_CHANNEL_DEPTH
        BY <1>1 DEF HandleDone
  <2> QED
      BY <1>1, <2>1 DEF HandleDone
<1>2. CASE Close
      BY <1>2 DEF Close
<1>3. CASE Return
      BY <1>3 DEF Return
<1>4. CASE Abort
      BY <1>4 DEF Abort
<1>5. ASSUME NEW c \in Clients, PacketToSession(c) PROVE TypeOK'
      BY <1>5 DEF PacketToSession, HasLiveSession, Offered
<1>6. ASSUME NEW c \in Clients, PacketSpawns(c) PROVE TypeOK'
  <2>1. <<c, spawned[c] + 1>> \in Tasks /\ spawned[c] + 1 \in 0 .. MaxGeneration
        BY <1>6 DEF PacketSpawns, Tasks
  <2> QED
      BY <1>6, <2>1 DEF PacketSpawns, Offered
<1>7. ASSUME NEW t \in Tasks, SessionRuns(t) PROVE TypeOK'
  <2>1. CASE Associated(t) \/ ReceiveDatagram(t)
        BY <2>1 DEF Associated, ReceiveDatagram
  <2>2. CASE AssociateFails(t) \/ SessionEnds(t)
    <3>1. /\ task' = [task EXCEPT ![t] = "done"]
          /\ outbound' = [outbound EXCEPT ![t] = 0]
          /\ UNCHANGED <<sessions, spawned, chanVars, pc>>
          BY <2>2 DEF AssociateFails, SessionEnds
    <3>2. outbound' \in [Tasks -> 0 .. SESSION_CHANNEL_DEPTH]
          BY <3>1
    <3> QED
        BY <3>1, <3>2
  <2>3. CASE SendDatagram(t)
        BY <2>3 DEF SendDatagram
  <2> QED
      BY <1>7, <2>1, <2>2, <2>3 DEF SessionRuns
<1>8. ASSUME NEW t \in Tasks, Reply(t) PROVE TypeOK'
  <2>1. /\ task' \in [Tasks -> {"none", "associate", "relay", "reply", "done",
                               "gone"}]
        /\ UNCHANGED <<sessions, spawned, done, writer, dns, reply_tx, pc>>
        BY <1>8 DEF Reply
  <2>2. outbound' \in [Tasks -> 0 .. SESSION_CHANNEL_DEPTH]
        BY <1>8 DEF Reply
  <2>3. replies' \in 0 .. REPLY_CHANNEL_DEPTH
        BY <1>8 DEF Reply
  <2> QED
      BY <2>1, <2>2, <2>3
<1>9. ASSUME NEW t \in Tasks, SendDone(t) PROVE TypeOK'
  <2>1. Client(t) \in Clients
        BY TaskParts DEF Client
  <2>2. done' \in Seq(Clients) /\ Len(done') <= DONE_CHANNEL_DEPTH
    <3>1. CASE pc = "returned"
          BY <1>9, <3>1 DEF SendDone
    <3>2. CASE pc # "returned"
      <4>1. Len(done) < DONE_CHANNEL_DEPTH /\ done' = Append(done, Client(t))
            BY <1>9, <3>2 DEF SendDone
      <4>2. done' \in Seq(Clients) /\ Len(done') = Len(done) + 1
            BY <2>1, <4>1
      <4> QED
          BY <4>1, <4>2
    <3> QED
        BY <3>1, <3>2
  <2> QED
      BY <1>9, <2>2 DEF SendDone
<1>10. ASSUME NEW k \in DnsTasks, DnsPacket(k) \/ DnsRuns(k) \/ DnsReplies(k)
       PROVE  TypeOK'
  <2>1. CASE DnsPacket(k)
        BY <2>1 DEF DnsPacket
  <2>2. CASE DnsRuns(k)
        BY <2>2 DEF DnsRuns, DnsAnswered, DnsFails
  <2>3. CASE DnsReplies(k)
        BY <2>3 DEF DnsReplies
  <2> QED
      BY <1>10, <2>1, <2>2, <2>3
<1>11. CASE WriteReply \/ WriteFails \/ WriterEnds
      BY <1>11 DEF WriteReply, WriteFails, WriterEnds
<1>12. CASE UNCHANGED vars
      BY <1>12 DEF vars
<1> QED
    BY <1>1, <1>2, <1>3, <1>4, <1>5, <1>6, <1>7, <1>8, <1>9, <1>10, <1>11,
       <1>12 DEF Next

-----------------------------------------------------------------------------
(* Steps that make no task live and keep the entries of live sessions. *)
QuietStep ==
  /\ spawned' = spawned
  /\ \A t \in Tasks : task'[t] = "none" <=> task[t] = "none"
  /\ \A t \in Tasks : Live(t)' => Live(t)
  /\ pc' = "loop" =>
       /\ pc = "loop"
       /\ \A t \in Tasks : Live(t) /\ sessions[Client(t)] = t =>
                             sessions'[Client(t)] = t

LEMMA QuietKeeps ==
  TypeOK /\ IInv /\ QuietStep => SpawnedInOrder' /\ LiveSessionKept' /\ LiveWithinLimit'
<1> SUFFICES ASSUME IInv, QuietStep
             PROVE  SpawnedInOrder' /\ LiveSessionKept' /\ LiveWithinLimit'
    OBVIOUS
<1>1. SpawnedInOrder'
      BY DEF IInv, SpawnedInOrder, QuietStep
<1>2. LiveSessionKept'
      BY DEF IInv, LiveSessionKept, QuietStep
<1>3. LiveTasks' \subseteq LiveTasks /\ LiveTasks \subseteq Tasks
      BY DEF QuietStep, LiveTasks
<1>4. Cardinality(LiveTasks) <= max_sessions
      BY DEF IInv, LiveWithinLimit, LiveTasks
<1>5. Cardinality(LiveTasks') <= max_sessions
      BY <1>3, <1>4, FewerLive
<1> QED
    BY <1>1, <1>2, <1>5 DEF LiveWithinLimit, LiveTasks

LEMMA SpawnKeeps ==
  ASSUME IInv, NEW c \in Clients, PacketSpawns(c)
  PROVE  SpawnedInOrder' /\ LiveSessionKept' /\ LiveWithinLimit'
<1> DEFINE new == <<c, spawned[c] + 1>>
<1>1. /\ new \in Tasks
      /\ sessions' = [sessions EXCEPT ![c] = new]
      /\ task' = [task EXCEPT ![new] = "associate"]
      /\ spawned' = [spawned EXCEPT ![c] = @ + 1]
      /\ pc = "loop" /\ pc' = "loop"
      /\ ~HasLiveSession(c)
      /\ Cardinality(Entries) < max_sessions
      BY DEF PacketSpawns, InLoop
<1>2. new[1] = c /\ new[2] = spawned[c] + 1
      OBVIOUS
<1>types. /\ task \in [Tasks -> {"none", "associate", "relay", "reply", "done", "gone"}]
          /\ sessions \in [Clients -> Tasks \cup {None}]
          /\ spawned \in [Clients -> 0 .. MaxGeneration]
          BY DEF IInv, TypeOK
<1> HIDE DEF new
<1>3. SpawnedInOrder'
  <2> SUFFICES ASSUME NEW t \in Tasks, task'[t] # "none"
               PROVE  t[2] <= spawned'[t[1]]
      BY DEF SpawnedInOrder, Client
  <2>1. t[1] \in Clients /\ t[2] \in 1 .. MaxGeneration
        BY TaskParts
  <2>2. CASE t = new
        BY <1>1, <1>2, <1>types, <2>1, <2>2, UdpRelayAssumption
  <2>3. CASE t # new
    <3>1. t[2] <= spawned[t[1]]
          BY <1>1, <1>types, <2>3 DEF IInv, SpawnedInOrder, Client
    <3> QED
        BY <1>1, <1>types, <2>1, <3>1, UdpRelayAssumption
  <2> QED
      BY <2>2, <2>3
<1>4. \A t \in Tasks : Live(t) => sessions[Client(t)] = t /\ Client(t) # c
  <2> SUFFICES ASSUME NEW t \in Tasks, Live(t)
               PROVE  sessions[Client(t)] = t /\ Client(t) # c
      OBVIOUS
  <2>1. sessions[Client(t)] = t
        BY <1>1 DEF IInv, LiveSessionKept
  <2>2. t # None
        BY UdpRelayAssumption DEF Tasks
  <2> QED
      BY <1>1, <2>1, <2>2 DEF HasLiveSession, is_closed
<1>5. \A t \in Tasks : Live(t)' => t = new \/ Live(t)
      BY <1>1, <1>types DEF Live
<1>6. LiveSessionKept'
  <2> SUFFICES ASSUME NEW t \in Tasks, Live(t)'
               PROVE  sessions'[Client(t)] = t
      BY DEF LiveSessionKept
  <2>1. CASE t = new
        BY <1>1, <1>2, <1>types, <2>1 DEF Client
  <2>2. CASE t # new
    <3>1. sessions[Client(t)] = t /\ Client(t) # c /\ Client(t) \in Clients
          BY <1>4, <1>5, <2>2, TaskParts DEF Client
    <3> QED
        BY <1>1, <1>types, <3>1
  <2> QED
      BY <2>1, <2>2
<1>7. LiveTasks' \subseteq LiveTasks \cup {new}
      BY <1>5 DEF LiveTasks
<1>8. IsFiniteSet(LiveTasks) /\ IsFiniteSet(Entries)
      BY TasksFinite, FS_Subset, UdpRelayAssumption DEF LiveTasks, Entries
<1>9. Cardinality(LiveTasks) <= Cardinality(Entries)
  <2> DEFINE f == [e \in Entries |-> sessions[e]]
             Image == {f[e] : e \in Entries}
  <2>1. LiveTasks \subseteq Image
    <3> SUFFICES ASSUME NEW t \in Tasks, Live(t) PROVE t \in Image
        BY DEF LiveTasks
    <3>1. Client(t) \in Clients /\ sessions[Client(t)] = t /\ t # None
          BY <1>4, TaskParts, UdpRelayAssumption DEF Client, Tasks
    <3>2. Client(t) \in Entries
          BY <3>1 DEF Entries
    <3> QED
        BY <3>1, <3>2
  <2>2. f \in Surjection(Entries, Image)
        BY DEF Surjection
  <2> HIDE DEF f, Image
  <2>3. IsFiniteSet(Image) /\ Cardinality(Image) <= Cardinality(Entries)
        BY <1>8, <2>2, FS_Surjection
  <2>4. Cardinality(LiveTasks) <= Cardinality(Image)
        BY <2>1, <2>3, FS_Subset
  <2>5. /\ Cardinality(LiveTasks) \in Nat /\ Cardinality(Image) \in Nat
        /\ Cardinality(Entries) \in Nat
        BY <1>8, <2>3, FS_CardinalityType
  <2> QED
      BY <2>3, <2>4, <2>5
<1>10. /\ IsFiniteSet(LiveTasks \cup {new})
       /\ Cardinality(LiveTasks \cup {new}) <= Cardinality(LiveTasks) + 1
  <2>1. Cardinality(LiveTasks) \in Nat
        BY <1>8, FS_CardinalityType
  <2>2. /\ IsFiniteSet(LiveTasks \cup {new})
        /\ Cardinality(LiveTasks \cup {new}) =
             IF new \in LiveTasks THEN Cardinality(LiveTasks)
                                  ELSE Cardinality(LiveTasks) + 1
        BY <1>8, FS_AddElement
  <2> QED
      BY <2>1, <2>2
<1>11. Cardinality(LiveTasks \cup {new}) <= max_sessions
  <2>1. /\ Cardinality(LiveTasks) \in Nat /\ Cardinality(Entries) \in Nat
        /\ Cardinality(LiveTasks \cup {new}) \in Nat
        BY <1>8, <1>10, FS_CardinalityType
  <2> QED
      BY <1>1, <1>9, <1>10, <2>1, UdpRelayAssumption
<1>12. Cardinality(LiveTasks') <= max_sessions
  <2>1. LiveTasks \cup {new} \subseteq Tasks
        BY <1>1 DEF LiveTasks
  <2> QED
      BY <1>7, <1>11, <2>1, FewerLive
<1> QED
    BY <1>3, <1>6, <1>12 DEF LiveWithinLimit, LiveTasks

LEMMA InvNext == IInv /\ [Next]_vars => IInv'
<1> SUFFICES ASSUME IInv, [Next]_vars PROVE IInv'
    OBVIOUS
<1>type. TypeOK /\ TypeOK'
         BY TypeNext DEF IInv
<1>types. /\ task \in [Tasks -> {"none", "associate", "relay", "reply", "done", "gone"}]
          /\ sessions \in [Clients -> Tasks \cup {None}]
          /\ done \in Seq(Clients)
          BY <1>type DEF TypeOK
<1> DEFINE Kept == SpawnedInOrder' /\ LiveSessionKept' /\ LiveWithinLimit'
<1>q. ASSUME QuietStep PROVE Kept
      BY <1>q, <1>type, QuietKeeps
<1> HIDE DEF Kept
<1>1. ASSUME HandleDone PROVE Kept
  <2>1. Head(done) \in Clients
        BY <1>1, <1>types DEF HandleDone
  <2>2. \A t \in Tasks : Live(t) /\ sessions[Client(t)] = t =>
                           sessions'[Client(t)] = t
        BY <1>1, <1>types, <2>1, TaskParts DEF HandleDone, is_closed, Client
  <2> QED
      BY <1>1, <1>q, <2>2 DEF HandleDone, QuietStep, Live, taskVars
<1>2. ASSUME Close \/ Return \/ Abort PROVE Kept
      BY <1>2, <1>q DEF Close, Return, Abort, QuietStep, Live, taskVars
<1>3. ASSUME NEW c \in Clients, PacketToSession(c) PROVE Kept
      BY <1>3, <1>q DEF PacketToSession, QuietStep, Live
<1>4. ASSUME NEW c \in Clients, PacketSpawns(c) PROVE Kept
      BY <1>4, SpawnKeeps DEF Kept
<1>5. ASSUME NEW t \in Tasks, SessionRuns(t) \/ Reply(t) \/ SendDone(t)
      PROVE  Kept
  <2>1. PICK label \in {"relay", "reply", "done", "gone"} :
          /\ task' = [task EXCEPT ![t] = label]
             \/ task' = task
          /\ label \in {"relay", "reply"} => Live(t)
          /\ task[t] # "none"
          /\ UNCHANGED <<sessions, spawned, pc>>
        BY <1>5 DEF SessionRuns, Associated, AssociateFails, SendDatagram,
                    ReceiveDatagram, SessionEnds, Reply, SendDone, Becomes, Live
  <2> QED
      BY <1>q, <1>types, <2>1 DEF QuietStep, Live
<1>6. ASSUME NEW k \in DnsTasks, DnsPacket(k) \/ DnsRuns(k) \/ DnsReplies(k)
      PROVE  Kept
      BY <1>6, <1>q DEF DnsPacket, DnsRuns, DnsAnswered, DnsFails, DnsReplies,
                        QuietStep, Live, taskVars
<1>7. ASSUME WriteReply \/ WriteFails \/ WriterEnds PROVE Kept
      BY <1>7, <1>q DEF WriteReply, WriteFails, WriterEnds, QuietStep, Live,
                        taskVars
<1>8. ASSUME UNCHANGED vars PROVE Kept
      BY <1>8, <1>q DEF vars, QuietStep, Live, taskVars
<1> QED
  <2>1. Kept
        BY <1>1, <1>2, <1>3, <1>4, <1>5, <1>6, <1>7, <1>8 DEF Next
  <2> QED
      BY <1>type, <2>1 DEF Kept, IInv

LEMMA InvInit == Init => IInv
<1> SUFFICES ASSUME Init PROVE IInv
    OBVIOUS
<1>1. LiveTasks = {}
      BY DEF Init, LiveTasks, Live
<1>2. Cardinality(LiveTasks) <= max_sessions
      BY <1>1, FS_EmptySet, UdpRelayAssumption
<1> QED
    BY <1>1, <1>2, TypeInit
    DEF Init, IInv, SpawnedInOrder, LiveSessionKept, LiveWithinLimit, LiveTasks

(* The channels of the relay stay within their depths. *)
THEOREM TypeCorrect == Spec => []TypeOK
<1>1. Init => IInv
      BY InvInit
<1>2. IInv /\ [Next]_vars => IInv'
      BY InvNext
<1>3. IInv => TypeOK
      BY DEF IInv
<1> QED
    BY <1>1, <1>2, <1>3, PTL DEF Spec

(* No done message removes the entry of a live session: while run_udp's loop
   runs, a client's live session is the one in its map.                    *)
THEOREM SessionKept == Spec => []LiveSessionKept
<1>1. Init => IInv
      BY InvInit
<1>2. IInv /\ [Next]_vars => IInv'
      BY InvNext
<1>3. IInv => LiveSessionKept
      BY DEF IInv
<1> QED
    BY <1>1, <1>2, <1>3, PTL DEF Spec

(* The session tasks that hold an association with the proxy are at most
   max_sessions, in the loop and after it.                                 *)
THEOREM SessionsLimited == Spec => []LiveWithinLimit
<1>1. Init => IInv
      BY InvInit
<1>2. IInv /\ [Next]_vars => IInv'
      BY InvNext
<1>3. IInv => LiveWithinLimit
      BY DEF IInv
<1> QED
    BY <1>1, <1>2, <1>3, PTL DEF Spec

=============================================================================
