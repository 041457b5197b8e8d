------------------------------ MODULE UdpRelay -------------------------------
(***************************************************************************)
(* The UDP relay of src/udp.rs: run_udp's loop hands the datagrams of each *)
(* client to a session task, or to a DNS query task; the tasks hand        *)
(* replies to a writer task, and a session that ends says so on the done   *)
(* channel. Datagrams are abstract: a channel is its length, except done,  *)
(* whose messages name their client.                                       *)
(***************************************************************************)
EXTENDS Naturals, Sequences, FiniteSets

CONSTANTS
  Clients,        \* source addresses: the keys of sessions
  MaxGeneration,  \* bound: number of sessions spawned for a client
  Returning,      \* bound: the clients that have more than one session
  DnsTasks,       \* names for the DNS query tasks
  max_sessions,
  SESSION_CHANNEL_DEPTH,
  REPLY_CHANNEL_DEPTH,
  DONE_CHANNEL_DEPTH,
  None

ASSUME UdpRelayAssumption ==
  /\ MaxGeneration \in Nat
  /\ IsFiniteSet(Clients) /\ IsFiniteSet(DnsTasks)
  /\ max_sessions \in Nat
  /\ SESSION_CHANNEL_DEPTH \in Nat \ {0}
  /\ REPLY_CHANNEL_DEPTH \in Nat \ {0}
  /\ DONE_CHANNEL_DEPTH \in Nat \ {0}
  /\ None \notin Clients \X (1 .. MaxGeneration)

(* A session task, named by its client and its number among the client's. *)
Tasks == {t \in Clients \X (1 .. MaxGeneration) :
            t[2] = 1 \/ t[1] \in Returning}
Client(t) == t[1]

VARIABLES
  sessions,   \* the map: the session task of each client, or None
  task,       \* where each session task is; "none": not spawned
  outbound,   \* datagrams in the channel to the session task
  spawned,    \* number of sessions spawned for a client
  done,       \* the done channel
  replies,    \* messages in the reply channel
  writer,     \* the writer task: "running" or "ended"
  dns,        \* where each DNS query task is; "none": its permit is free
  reply_tx,   \* run_udp holds its own sender of the reply channel
  pc          \* run_udp: "loop", "closing" or "returned"

taskVars == <<task, outbound, spawned>>
chanVars == <<done, replies, writer, dns, reply_tx>>
vars == <<sessions, taskVars, chanVars, pc>>

(* The receiver of a session's channel lives as long as session_task. *)
Live(t) == task[t] \in {"associate", "relay", "reply"}
is_closed(t) == ~Live(t)

Init ==
  /\ sessions = [c \in Clients |-> None]
  /\ task = [t \in Tasks |-> "none"]
  /\ outbound = [t \in Tasks |-> 0]
  /\ spawned = [c \in Clients |-> 0]
  /\ done = <<>>
  /\ replies = 0
  /\ writer = "running"
  /\ dns = [k \in DnsTasks |-> "none"]
  /\ reply_tx = TRUE
  /\ pc = "loop"

-----------------------------------------------------------------------------
(* The loop of run_udp. The select is biased: the done channel comes first. *)

(* Mutant: the entry is removed whatever its session does. *)
HandleDoneAlways ==
  /\ pc = "loop"
  /\ done # <<>>
  /\ done' = Tail(done)
  /\ sessions' = [sessions EXCEPT ![Head(done)] = None]
  /\ UNCHANGED <<taskVars, replies, writer, dns, reply_tx, pc>>

(* The session that ended may have been replaced by a live one meanwhile. *)
HandleDone ==
  /\ pc = "loop"
  /\ done # <<>>
  /\ done' = Tail(done)
  /\ LET dead == Head(done) IN
       sessions' = IF sessions[dead] # None /\ is_closed(sessions[dead])
                     THEN [sessions EXCEPT ![dead] = None] ELSE sessions
  /\ UNCHANGED <<taskVars, replies, writer, dns, reply_tx, pc>>

InLoop == pc = "loop" /\ done = <<>>

DnsPermits == max_sessions - Cardinality({k \in DnsTasks : dns[k] # "none"})

(* A datagram for port 53, with dns_over_tcp; without a permit it is dropped. *)
DnsPacket(k) ==
  /\ InLoop
  /\ dns[k] = "none"
  /\ DnsPermits > 0
  /\ dns' = [dns EXCEPT ![k] = "resolve"]
  /\ UNCHANGED <<sessions, taskVars, done, replies, writer, reply_tx, pc>>

HasLiveSession(c) == sessions[c] # None /\ ~is_closed(sessions[c])

(* try_send: a datagram for a full channel is dropped. *)
Offered(n) == IF n < SESSION_CHANNEL_DEPTH THEN n + 1 ELSE n

(* A datagram of a client with a live session; it may close at any time
   between the test and the try_send, which then drops the datagram.       *)
PacketToSession(c) ==
  /\ InLoop
  /\ HasLiveSession(c)
  /\ outbound' = [outbound EXCEPT ![sessions[c]] = Offered(@)]
  /\ UNCHANGED <<sessions, task, spawned, chanVars, pc>>

Entries == {c \in Clients : sessions[c] # None}

(* Mutant: > for >= in the test of the limit. *)
PacketSpawnsOneMore(c) ==
  /\ InLoop
  /\ ~HasLiveSession(c)
  /\ Cardinality(Entries) <= max_sessions
  /\ <<c, spawned[c] + 1>> \in Tasks
  /\ LET t == <<c, spawned[c] + 1>> IN
       /\ sessions' = [sessions EXCEPT ![c] = t]
       /\ task' = [task EXCEPT ![t] = "associate"]
       /\ outbound' = [outbound EXCEPT ![t] = Offered(@)]
  /\ spawned' = [spawned EXCEPT ![c] = @ + 1]
  /\ UNCHANGED <<chanVars, pc>>

(* A datagram of a client without one; at the limit it is dropped, entries
   of sessions that have ended included.                                   *)
PacketSpawns(c) ==
  /\ InLoop
  /\ ~HasLiveSession(c)
  /\ Cardinality(Entries) < max_sessions
  /\ <<c, spawned[c] + 1>> \in Tasks
  /\ LET t == <<c, spawned[c] + 1>> IN
       /\ sessions' = [sessions EXCEPT ![c] = t]
       /\ task' = [task EXCEPT ![t] = "associate"]
       /\ outbound' = [outbound EXCEPT ![t] = Offered(@)]
  /\ spawned' = [spawned EXCEPT ![c] = @ + 1]
  /\ UNCHANGED <<chanVars, pc>>

(* Mutant: the relay's own sender of replies outlives the loop. *)
CloseKeepsSender ==
  /\ InLoop
  /\ pc' = "closing"
  /\ sessions' = [c \in Clients |-> None]
  /\ UNCHANGED <<taskVars, chanVars>>

(* The stack is gone. reply_tx and the senders to the sessions are dropped;
   the writer is awaited, and nobody receives from the done channel.       *)
Close ==
  /\ InLoop
  /\ pc' = "closing"
  /\ reply_tx' = FALSE
  /\ sessions' = [c \in Clients |-> None]
  /\ UNCHANGED <<taskVars, done, replies, writer, dns>>

Return ==
  /\ pc = "closing"
  /\ writer = "ended"
  /\ pc' = "returned"
  /\ UNCHANGED <<sessions, taskVars, chanVars>>

(* run() aborts the task at shutdown: all it owns is dropped. *)
Abort ==
  /\ pc \in {"loop", "closing"}
  /\ pc' = "returned"
  /\ reply_tx' = FALSE
  /\ sessions' = [c \in Clients |-> None]
  /\ UNCHANGED <<taskVars, done, replies, writer, dns>>

-----------------------------------------------------------------------------
(* A session task *)

Becomes(t, label) == task' = [task EXCEPT ![t] = label]

(* udp_associate and the local socket. *)
Associated(t) ==
  /\ task[t] = "associate"
  /\ Becomes(t, "relay")
  /\ UNCHANGED <<sessions, outbound, spawned, chanVars, pc>>

AssociateFails(t) ==
  /\ task[t] = "associate"
  /\ Becomes(t, "done")
  /\ outbound' = [outbound EXCEPT ![t] = 0]
  /\ UNCHANGED <<sessions, spawned, chanVars, pc>>

SendDatagram(t) ==
  /\ task[t] = "relay"
  /\ outbound[t] > 0
  /\ outbound' = [outbound EXCEPT ![t] = @ - 1]
  /\ UNCHANGED <<sessions, task, spawned, chanVars, pc>>

(* A datagram from the relay, to be sent on the reply channel. *)
ReceiveDatagram(t) ==
  /\ task[t] = "relay"
  /\ Becomes(t, "reply")
  /\ UNCHANGED <<sessions, outbound, spawned, chanVars, pc>>

(* The send waits for room; it fails once the writer is gone, and then the
   session ends. Other arms of the select are not polled meanwhile.        *)
Reply(t) ==
  /\ task[t] = "reply"
  /\ IF writer = "ended"
       THEN /\ Becomes(t, "done")
            /\ outbound' = [outbound EXCEPT ![t] = 0]
            /\ UNCHANGED replies
       ELSE /\ replies < REPLY_CHANNEL_DEPTH
            /\ replies' = replies + 1
            /\ Becomes(t, "relay")
            /\ UNCHANGED outbound
  /\ UNCHANGED <<sessions, spawned, done, writer, dns, reply_tx, pc>>

(* session_task returns: the idle time has passed, the control connection
   is closed, a socket fails, or no sender of its channel is left.         *)
SessionEnds(t) ==
  /\ task[t] = "relay"
  /\ Becomes(t, "done")
  /\ outbound' = [outbound EXCEPT ![t] = 0]
  /\ UNCHANGED <<sessions, spawned, chanVars, pc>>

(* Mutant: the loop is not told. *)
SendDoneSilent(t) ==
  /\ task[t] = "done"
  /\ Becomes(t, "gone")
  /\ UNCHANGED <<sessions, outbound, spawned, chanVars, pc>>

(* Mutant: one message more than the channel holds. *)
SendDoneOverfull(t) ==
  /\ task[t] = "done"
  /\ Len(done) <= DONE_CHANNEL_DEPTH
  /\ done' = Append(done, Client(t))
  /\ Becomes(t, "gone")
  /\ UNCHANGED <<sessions, outbound, spawned, replies, writer, dns, reply_tx,
                 pc>>

(* done_tx.send waits for room, or fails once run_udp has returned. The
   task keeps its sender of the reply channel until then.                  *)
SendDone(t) ==
  /\ task[t] = "done"
  /\ IF pc = "returned"
       THEN UNCHANGED done
       ELSE Len(done) < DONE_CHANNEL_DEPTH /\ done' = Append(done, Client(t))
  /\ Becomes(t, "gone")
  /\ UNCHANGED <<sessions, outbound, spawned, replies, writer, dns, reply_tx,
                 pc>>

-----------------------------------------------------------------------------
(* A DNS query task, and the writer task *)

DnsAnswered(k) ==
  /\ dns[k] = "resolve"
  /\ dns' = [dns EXCEPT ![k] = "reply"]
  /\ UNCHANGED <<sessions, taskVars, done, replies, writer, reply_tx, pc>>

DnsFails(k) ==
  /\ dns[k] = "resolve"
  /\ dns' = [dns EXCEPT ![k] = "none"]
  /\ UNCHANGED <<sessions, taskVars, done, replies, writer, reply_tx, pc>>

DnsReplies(k) ==
  /\ dns[k] = "reply"
  /\ IF writer = "ended"
       THEN UNCHANGED replies
       ELSE replies < REPLY_CHANNEL_DEPTH /\ replies' = replies + 1
  /\ dns' = [dns EXCEPT ![k] = "none"]
  /\ UNCHANGED <<sessions, taskVars, done, writer, reply_tx, pc>>

WriteReply ==
  /\ writer = "running"
  /\ replies > 0
  /\ replies' = replies - 1
  /\ UNCHANGED <<sessions, taskVars, done, writer, dns, reply_tx, pc>>

(* The stack no longer takes datagrams. *)
WriteFails ==
  /\ writer = "running"
  /\ replies > 0
  /\ replies' = 0
  /\ writer' = "ended"
  /\ UNCHANGED <<sessions, taskVars, done, dns, reply_tx, pc>>

(* The senders of the reply channel other than run_udp's own. *)
Repliers == {t \in Tasks : task[t] \notin {"none", "gone"}}
DnsRepliers == {k \in DnsTasks : dns[k] # "none"}

WriterEnds ==
  /\ writer = "running"
  /\ replies = 0
  /\ ~reply_tx /\ Repliers = {} /\ DnsRepliers = {}
  /\ writer' = "ended"
  /\ UNCHANGED <<sessions, taskVars, done, replies, dns, reply_tx, pc>>

-----------------------------------------------------------------------------
SessionRuns(t) ==
  \/ Associated(t) \/ AssociateFails(t)
  \/ SendDatagram(t) \/ ReceiveDatagram(t) \/ SessionEnds(t)

DnsRuns(k) == DnsAnswered(k) \/ DnsFails(k)

Next ==
  \/ HandleDone \/ Close \/ Return \/ Abort
  \/ \E c \in Clients : PacketToSession(c) \/ PacketSpawns(c)
  \/ \E t \in Tasks : SessionRuns(t) \/ Reply(t) \/ SendDone(t)
  \/ \E k \in DnsTasks : DnsPacket(k) \/ DnsRuns(k) \/ DnsReplies(k)
  \/ WriteReply \/ WriteFails \/ WriterEnds

(* Each task that can run does: an association ends (connect_timeout), a
   query is resolved or fails (DnsPool), the writer's datagrams are taken by
   the stack. A session whose channel has no sender is polled and returns, so
   it ends whatever datagrams still come. The channels of tokio hand out room
   in FIFO order. Of the clients, and of when sessions go idle, nothing is
   assumed.                                                                *)
Fairness ==
  /\ WF_vars(HandleDone \/ Return)
  /\ \A t \in Tasks :
       /\ SF_vars(Associated(t) \/ AssociateFails(t) \/ Reply(t) \/ SendDone(t))
       /\ SF_vars(pc # "loop" /\ SessionEnds(t))
  /\ \A k \in DnsTasks : SF_vars(DnsRuns(k) \/ DnsReplies(k))
  /\ WF_vars(WriteReply \/ WriterEnds)

Spec == Init /\ [][Next]_vars
FairSpec == Spec /\ Fairness

-----------------------------------------------------------------------------
(* Properties *)

(* The types of the channels, within their depths, and of the tasks. *)
TypeOK ==
  /\ sessions \in [Clients -> Tasks \cup {None}]
  /\ task \in [Tasks -> {"none", "associate", "relay", "reply", "done", "gone"}]
  /\ outbound \in [Tasks -> 0 .. SESSION_CHANNEL_DEPTH]
  /\ spawned \in [Clients -> 0 .. MaxGeneration]
  /\ done \in Seq(Clients) /\ Len(done) <= DONE_CHANNEL_DEPTH
  /\ replies \in 0 .. REPLY_CHANNEL_DEPTH
  /\ writer \in {"running", "ended"}
  /\ dns \in [DnsTasks -> {"none", "resolve", "reply"}]
  /\ reply_tx \in BOOLEAN
  /\ pc \in {"loop", "closing", "returned"}

(* A done message of an ended session never takes away the entry of a live
   one: while the loop runs, a client's live session is the one in the map,
   so a client never has two.                                              *)
LiveSessionKept ==
  pc = "loop" => \A t \in Tasks : Live(t) => sessions[Client(t)] = t

(* The sessions that hold a socket and an association with the proxy stay
   within max_sessions, although entries are removed and replaced out of
   step with the tasks.                                                    *)
LiveWithinLimit ==
  Cardinality({t \in Tasks : Live(t)}) <= max_sessions

(* An entry whose session has ended does not stay, and so does not count
   toward max_sessions for ever, however full the done channel was.        *)
DeadEntriesGo ==
  \A c \in Clients :
    (pc = "loop" /\ sessions[c] # None /\ ~HasLiveSession(c)) ~>
      (pc # "loop" \/ sessions[c] = None \/ HasLiveSession(c))

(* run_udp returns after its loop has ended, if the messages of the session
   tasks that are left fit into the done channel, which nobody reads then. *)
RelayReturns ==
  (pc = "closing" /\ Len(done) + Cardinality(Repliers) <= DONE_CHANNEL_DEPTH)
    ~> pc = "returned"

=============================================================================
