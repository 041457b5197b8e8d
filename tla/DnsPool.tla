------------------------------- MODULE DnsPool -------------------------------
(***************************************************************************)
(* The pooled DNS-over-TCP resolver of src/dns.rs: resolve() calls share   *)
(* TCP connections to a DNS server (through the SOCKS proxy), each query   *)
(* under an id of its own on the connection; a reader task per connection  *)
(* hands replies back; prune() and set_proxy() drop connections meanwhile. *)
(*                                                                         *)
(* A step is the code between two awaits that another task can observe.    *)
(* Time is abstract: a timeout, or the idle period, may elapse whenever    *)
(* its timer runs.                                                         *)
(***************************************************************************)
EXTENDS Naturals, FiniteSets

CONSTANTS
  Queries,      \* the resolve() calls
  Servers,      \* DNS servers: the keys of the pool's map
  Target,       \* [Queries -> Servers]: the server a query is sent to
  OriginalId,   \* [Queries -> Ids]: the DNS id the client put in its query
  Malformed,    \* the queries resolve() rejects for their length
  IdSpace,      \* number of DNS message ids (2^16)
  MAX_INFLIGHT_PER_CONN,
  MAX_CONNS_PER_TARGET,
  MaxReloads,   \* bound: number of set_proxy calls
  PrunerRuns,   \* whether the pool's user runs the pruner task of udp.rs
  ConnsBreak,   \* whether established connections may break
  None,         \* no lock holder, no message, a vacant key of inflight
  Placeholder,  \* the sender allocate_id stores: its receiver is dropped
  Pruner        \* the pruner task, as a lock holder

Ids == 0 .. IdSpace - 1

ASSUME ConstantsAssumption ==
  /\ Target \in [Queries -> Servers]
  /\ OriginalId \in [Queries -> Ids]
  /\ Malformed \subseteq Queries
  /\ IdSpace \in Nat \ {0}
  /\ MAX_INFLIGHT_PER_CONN \in 1 .. IdSpace
  /\ MAX_CONNS_PER_TARGET \in Nat \ {0}
  /\ MaxReloads \in Nat
  /\ PrunerRuns \in BOOLEAN /\ ConnsBreak \in BOOLEAN
  /\ None \notin Queries /\ Placeholder \notin Queries /\ Pruner \notin Queries
  /\ None # Placeholder /\ None # Pruner
  /\ None \notin [id : Ids, about : Queries]

(* A query opens at most one connection per attempt, which names it.       *)
Conns == Queries \X {1, 2}
OpenedBy(c) == c[1]
Attempt(c) == c[2]

(* A DNS message on a connection: its id there, and the query it is about. *)
Messages == [id : Ids, about : Queries]

VARIABLES
  pc,         \* where each resolve() call is
  attempt,    \* 1, or 2 for the retry (force_new)
  scan,       \* connections try_reuse has still to try
  conn,       \* the connection a query uses ...
  id,         \* ... and its id on it
  answer,     \* the message in the query's oneshot channel, then its result
  openLock,   \* holder of open_lock
  connsLock,  \* holder of the lock on conns, across awaits
  pool,       \* the connections in the map conns
  alive,      \* Conn.alive
  reader,     \* the reader task of a connection
  inflight,   \* Conn.inflight: a sender is named by the query receiving
  nextId,     \* Conn.next_id
  via,        \* the proxy a connection was opened through
  wire,       \* requests whose reply has not been read and still can be
  proxy,      \* the pool's proxy, numbered by set_proxy call
  reloader,   \* the set_proxy call: "idle" or "clearing"
  todo        \* connections the prune() pass has still to visit

queryVars == <<pc, attempt, scan, conn, id, answer>>
connVars == <<alive, reader, inflight, nextId, via, wire>>
poolVars == <<openLock, connsLock, pool, proxy, reloader, todo>>
vars == <<queryVars, connVars, poolVars>>

(* A query between a successful acquire and the end of its attempt.        *)
Using(q) == pc[q] \in {"insert", "write", "wait", "dropRetry", "dropFatal"}
(* A query inside the part of acquire / open_and_register under open_lock. *)
Opening(q) == pc[q] \in {"open", "connect", "alloc", "push"}
Finished(q) == pc[q] \in {"answered", "failed"}

Bucket(s) == {c \in pool : Target[OpenedBy(c)] = s}
Occupied(c) == {i \in Ids : inflight[c][i] # None}

Init ==
  /\ pc = [q \in Queries |-> "new"]
  /\ attempt = [q \in Queries |-> 1]
  /\ scan = [q \in Queries |-> {}]
  /\ conn = [q \in Queries |-> <<q, 1>>]
  /\ id = [q \in Queries |-> 0]
  /\ answer = [q \in Queries |-> None]
  /\ openLock = None
  /\ connsLock = None
  /\ pool = {}
  /\ alive = [c \in Conns |-> FALSE]
  /\ reader = [c \in Conns |-> "none"]
  /\ inflight = [c \in Conns |-> [i \in Ids |-> None]]
  /\ nextId = [c \in Conns |-> 0]
  /\ via = [c \in Conns |-> 0]
  /\ wire = [c \in Conns |-> {}]
  /\ proxy = 0
  /\ reloader = "idle"
  /\ todo = {}

Goto(q, label) == pc' = [pc EXCEPT ![q] = label]
ReleaseOpenLock(q) == openLock' = IF openLock = q THEN None ELSE openLock

(* Mutant of Retry: the guard of open_lock outlives the failed attempt. *)
RetryKeepsOpenLock(q) ==
  /\ attempt' = [attempt EXCEPT ![q] = 2]
  /\ Goto(q, IF attempt[q] = 1 THEN "lockOpen" ELSE "failed")
  /\ UNCHANGED openLock

(* Outcome::Retry: the second attempt, or resolve() returns the error. An
   open_lock guard is dropped by the return.                               *)
Retry(q) ==
  /\ attempt' = [attempt EXCEPT ![q] = 2]
  /\ Goto(q, IF attempt[q] = 1 THEN "lockOpen" ELSE "failed")
  /\ ReleaseOpenLock(q)

-----------------------------------------------------------------------------
(* allocate_id, under the inflight lock: the first vacant id from next_id. *)

Skipped(c) == {k \in 0 .. IdSpace - 1 :
                 /\ inflight[c][(nextId[c] + k) % IdSpace] = None
                 /\ \A j \in 0 .. k - 1 :
                      inflight[c][(nextId[c] + j) % IdSpace] # None}

(* Mutant of CanAllocate: > for >= in the test of the limit. *)
CanAllocateOneMore(c) == /\ Cardinality(Occupied(c)) <= MAX_INFLIGHT_PER_CONN
                         /\ Skipped(c) # {}

CanAllocate(c) == /\ Cardinality(Occupied(c)) < MAX_INFLIGHT_PER_CONN
                  /\ Skipped(c) # {}

(* Mutant of AllocateId: the incremented counter is used, without the mask. *)
AllocateIdUnmasked(q, c) ==
  \E k \in Skipped(c) :
    LET i == nextId[c] + k + 1 IN
      /\ inflight' = [inflight EXCEPT ![c] =
                        [j \in Ids |-> IF j = i THEN Placeholder ELSE @[j]]]
      /\ nextId' = [nextId EXCEPT ![c] = @ + k + 1]
      /\ id' = [id EXCEPT ![q] = i]
      /\ conn' = [conn EXCEPT ![q] = c]

(* Mutant of AllocateId: no placeholder is stored under the id. *)
AllocateIdUnreserved(q, c) ==
  \E k \in Skipped(c) :
      /\ nextId' = [nextId EXCEPT ![c] = @ + k + 1]
      /\ id' = [id EXCEPT ![q] = (nextId[c] + k) % IdSpace]
      /\ conn' = [conn EXCEPT ![q] = c]
      /\ UNCHANGED inflight

AllocateId(q, c) ==
  \E k \in Skipped(c) :
    LET i == (nextId[c] + k) % IdSpace IN
      /\ inflight' = [inflight EXCEPT ![c][i] = Placeholder]
      /\ nextId' = [nextId EXCEPT ![c] = @ + k + 1]
      /\ id' = [id EXCEPT ![q] = i]
      /\ conn' = [conn EXCEPT ![q] = c]

-----------------------------------------------------------------------------
(* resolve and acquire *)

Resolve(q) ==
  /\ pc[q] = "new"
  /\ Goto(q, IF q \in Malformed THEN "failed" ELSE "reuse")
  /\ UNCHANGED <<attempt, scan, conn, id, answer, connVars, poolVars>>

(* try_reuse takes the lock on conns and drops the dead connections of its
   bucket; it holds the lock while it tries the others (ReuseHit, ReuseFull,
   ReuseMiss). A bucket is a set here: which of several connections with
   room comes first in the Vec makes no difference to the properties.      *)
ReuseLock(q) ==
  /\ pc[q] = "reuse"
  /\ connsLock = None
  /\ connsLock' = q
  /\ LET dead == {c \in Bucket(Target[q]) : ~alive[c]} IN
       /\ pool' = pool \ dead
       /\ scan' = [scan EXCEPT ![q] = Bucket(Target[q]) \ dead]
  /\ Goto(q, "scan")
  /\ UNCHANGED <<attempt, conn, id, answer, connVars, openLock, proxy,
                 reloader, todo>>

ReuseHit(q, c) ==
  /\ pc[q] = "scan"
  /\ c \in scan[q]
  /\ CanAllocate(c)
  /\ AllocateId(q, c)
  /\ scan' = [scan EXCEPT ![q] = {}]
  /\ connsLock' = None
  /\ ReleaseOpenLock(q)
  /\ Goto(q, "insert")
  /\ UNCHANGED <<attempt, answer, alive, reader, via, wire, pool, proxy,
                 reloader, todo>>

ReuseFull(q, c) ==
  /\ pc[q] = "scan"
  /\ c \in scan[q]
  /\ ~CanAllocate(c)
  /\ scan' = [scan EXCEPT ![q] = @ \ {c}]
  /\ UNCHANGED <<pc, attempt, conn, id, answer, connVars, poolVars>>

(* Mutant of ReuseMiss: the lock on conns is kept while open_lock is awaited. *)
ReuseMissKeepsLock(q) ==
  /\ pc[q] = "scan"
  /\ scan[q] = {}
  /\ Goto(q, IF openLock = q THEN "limit" ELSE "lockOpen")
  /\ UNCHANGED <<attempt, scan, conn, id, answer, connVars, poolVars>>

(* The first try_reuse is followed by open_lock, the second (under
   open_lock) by the limit on connections.                                 *)
ReuseMiss(q) ==
  /\ pc[q] = "scan"
  /\ scan[q] = {}
  /\ connsLock' = None
  /\ Goto(q, IF openLock = q THEN "limit" ELSE "lockOpen")
  /\ UNCHANGED <<attempt, scan, conn, id, answer, connVars, openLock, pool,
                 proxy, reloader, todo>>

(* Mutant of LockOpen: the retry opens its connection without the lock. *)
LockOpenOnlyOnce(q) ==
  /\ pc[q] = "lockOpen"
  /\ IF attempt[q] = 1
       THEN openLock = None /\ openLock' = q /\ Goto(q, "reuse")
       ELSE Goto(q, "open") /\ UNCHANGED openLock
  /\ UNCHANGED <<attempt, scan, conn, id, answer, connVars, connsLock, pool,
                 proxy, reloader, todo>>

(* open_lock, by acquire (first attempt) or open_and_register (second).    *)
LockOpen(q) ==
  /\ pc[q] = "lockOpen"
  /\ openLock = None
  /\ openLock' = q
  /\ Goto(q, IF attempt[q] = 1 THEN "reuse" ELSE "open")
  /\ UNCHANGED <<attempt, scan, conn, id, answer, connVars, connsLock, pool,
                 proxy, reloader, todo>>

(* Mutant of CheckLimit: > for >= in the test of the limit. *)
CheckLimitOneMore(q) ==
  /\ pc[q] = "limit"
  /\ connsLock = None
  /\ LET kept == {c \in Bucket(Target[q]) : alive[c]} IN
       /\ pool' = pool \ (Bucket(Target[q]) \ kept)
       /\ IF Cardinality(kept) > MAX_CONNS_PER_TARGET
            THEN Retry(q)
            ELSE Goto(q, "open") /\ UNCHANGED <<attempt, openLock>>
  /\ UNCHANGED <<scan, conn, id, answer, connVars, connsLock, proxy,
                 reloader, todo>>

(* The limit on connections of the bucket: exceeded, the attempt fails.    *)
CheckLimit(q) ==
  /\ pc[q] = "limit"
  /\ connsLock = None
  /\ LET kept == {c \in Bucket(Target[q]) : alive[c]} IN
       /\ pool' = pool \ (Bucket(Target[q]) \ kept)
       /\ IF Cardinality(kept) >= MAX_CONNS_PER_TARGET
            THEN Retry(q)
            ELSE Goto(q, "open") /\ UNCHANGED <<attempt, openLock>>
  /\ UNCHANGED <<scan, conn, id, answer, connVars, connsLock, proxy,
                 reloader, todo>>

-----------------------------------------------------------------------------
(* open_conn and the rest of acquire / open_and_register *)

(* open_conn loads the proxy, then awaits the connection through it.       *)
LoadProxy(q) ==
  /\ pc[q] = "open"
  /\ via' = [via EXCEPT ![<<q, attempt[q]>>] = proxy]
  /\ Goto(q, "connect")
  /\ UNCHANGED <<attempt, scan, conn, id, answer, alive, reader, inflight,
                 nextId, wire, poolVars>>

ConnectFails(q) ==
  /\ pc[q] = "connect"
  /\ Retry(q)
  /\ UNCHANGED <<scan, conn, id, answer, connVars, connsLock, pool, proxy,
                 reloader, todo>>

(* The connection is up and its reader task spawned. *)
Connected(q) ==
  /\ pc[q] = "connect"
  /\ LET c == <<q, attempt[q]>> IN
       /\ alive' = [alive EXCEPT ![c] = TRUE]
       /\ reader' = [reader EXCEPT ![c] = "reading"]
  /\ Goto(q, "alloc")
  /\ UNCHANGED <<attempt, scan, conn, id, answer, inflight, nextId, via,
                 wire, poolVars>>

(* allocate_id on the new connection; refused, the attempt fails. *)
AllocateFresh(q) ==
  /\ pc[q] = "alloc"
  /\ LET c == <<q, attempt[q]>> IN
       IF CanAllocate(c)
         THEN /\ AllocateId(q, c)
              /\ Goto(q, "push")
              /\ UNCHANGED <<attempt, openLock>>
         ELSE Retry(q) /\ UNCHANGED <<inflight, nextId, id, conn>>
  /\ UNCHANGED <<scan, answer, alive, reader, via, wire, connsLock, pool,
                 proxy, reloader, todo>>

PushConn(q) ==
  /\ pc[q] = "push"
  /\ connsLock = None
  /\ pool' = pool \cup {conn[q]}
  /\ ReleaseOpenLock(q)
  /\ Goto(q, "insert")
  /\ UNCHANGED <<attempt, scan, conn, id, answer, connVars, connsLock, proxy,
                 reloader, todo>>

-----------------------------------------------------------------------------
(* attempt: the exchange on the acquired connection *)

(* A new channel; inflight.insert replaces whatever is stored under the id. *)
InsertSender(q) ==
  /\ pc[q] = "insert"
  /\ answer' = [answer EXCEPT ![q] = None]
  /\ inflight' = [inflight EXCEPT ![conn[q]][id[q]] = q]
  /\ Goto(q, "write")
  /\ UNCHANGED <<attempt, scan, conn, id, alive, reader, nextId, via, wire,
                 poolVars>>

(* Mutant of WriteQuery: the query goes out under its client's id. *)
WriteQueryUnchanged(q) ==
  /\ pc[q] = "write"
  /\ wire' = [wire EXCEPT ![conn[q]] =
                IF reader[conn[q]] = "gone"
                  THEN @ ELSE @ \cup {[id |-> OriginalId[q], about |-> q]}]
  /\ Goto(q, "wait")
  /\ UNCHANGED <<attempt, scan, conn, id, answer, alive, reader, inflight,
                 nextId, via, poolVars>>

(* The query goes out under the id allocated on the connection. The update
   of last_used only matters to the idle period, which is abstract.        *)
WriteQuery(q) ==
  /\ pc[q] = "write"
  /\ wire' = [wire EXCEPT ![conn[q]] =
                IF reader[conn[q]] = "gone"
                  THEN @ ELSE @ \cup {[id |-> id[q], about |-> q]}]
  /\ Goto(q, "wait")
  /\ UNCHANGED <<attempt, scan, conn, id, answer, alive, reader, inflight,
                 nextId, via, poolVars>>

WriteFails(q) ==
  /\ ConnsBreak
  /\ pc[q] = "write"
  /\ alive' = [alive EXCEPT ![conn[q]] = FALSE]
  /\ Goto(q, "dropRetry")
  /\ UNCHANGED <<attempt, scan, conn, id, answer, reader, inflight, nextId,
                 via, wire, poolVars>>

(* The reply takes the client's own id back. *)
TakeReply(q) ==
  /\ pc[q] = "wait"
  /\ answer[q] # None
  /\ answer' = [answer EXCEPT ![q] = [@ EXCEPT !.id = OriginalId[q]]]
  /\ Goto(q, "answered")
  /\ UNCHANGED <<attempt, scan, conn, id, connVars, poolVars>>

(* The sender was dropped: the receiver sees the channel closed. *)
ChannelClosed(q) ==
  /\ pc[q] = "wait"
  /\ answer[q] = None
  /\ inflight[conn[q]][id[q]] # q
  /\ Goto(q, "dropRetry")
  /\ UNCHANGED <<attempt, scan, conn, id, answer, connVars, poolVars>>

QueryTimeout(q) ==
  /\ pc[q] = "wait"
  /\ answer[q] = None
  /\ inflight[conn[q]][id[q]] = q
  /\ Goto(q, "dropFatal")
  /\ UNCHANGED <<attempt, scan, conn, id, answer, connVars, poolVars>>

(* inflight.remove(id), whoever is stored there; then Retry or Fatal. *)
DropId(q) ==
  /\ pc[q] \in {"dropRetry", "dropFatal"}
  /\ inflight' = [inflight EXCEPT ![conn[q]][id[q]] = None]
  /\ IF pc[q] = "dropRetry"
       THEN Retry(q)
       ELSE Goto(q, "failed") /\ UNCHANGED <<attempt, openLock>>
  /\ UNCHANGED <<scan, conn, id, answer, alive, reader, nextId, via, wire,
                 connsLock, pool, proxy, reloader, todo>>

-----------------------------------------------------------------------------
(* The reader task of connection c *)

(* A reply goes to the sender stored under its id, if any; the send fails
   silently when the receiver is gone (a placeholder, or a query that has
   stopped waiting).                                                       *)
ReadReply(c, m) ==
  /\ reader[c] = "reading"
  /\ m \in wire[c]
  /\ wire' = [wire EXCEPT ![c] = @ \ {m}]
  /\ inflight' = [inflight EXCEPT ![c][m.id] = None]
  /\ answer' = [q \in Queries |->
                  IF q = inflight[c][m.id] /\ pc[q] \in {"write", "wait"}
                    THEN m ELSE answer[q]]
  /\ UNCHANGED <<pc, attempt, scan, conn, id, alive, reader, nextId, via,
                 poolVars>>

(* The idle period passes with nothing in flight. *)
ReaderIdle(c) ==
  /\ reader[c] = "reading"
  /\ Occupied(c) = {}
  /\ reader' = [reader EXCEPT ![c] = "leaving"]
  /\ UNCHANGED <<queryVars, alive, inflight, nextId, via, wire, poolVars>>

(* End of stream, a read error, or a frame too short to hold an id. *)
ReaderFails(c) ==
  /\ ConnsBreak
  /\ reader[c] = "reading"
  /\ reader' = [reader EXCEPT ![c] = "leaving"]
  /\ UNCHANGED <<queryVars, alive, inflight, nextId, via, wire, poolVars>>

ReaderMarksDead(c) ==
  /\ reader[c] = "leaving"
  /\ alive' = [alive EXCEPT ![c] = FALSE]
  /\ reader' = [reader EXCEPT ![c] = "clearing"]
  /\ UNCHANGED <<queryVars, inflight, nextId, via, wire, poolVars>>

ReaderClears(c) ==
  /\ reader[c] = "clearing"
  /\ inflight' = [inflight EXCEPT ![c] = [i \in Ids |-> None]]
  /\ reader' = [reader EXCEPT ![c] = "gone"]
  /\ wire' = [wire EXCEPT ![c] = {}]
  /\ UNCHANGED <<queryVars, alive, nextId, via, poolVars>>

-----------------------------------------------------------------------------
(* set_proxy *)

StoreProxy ==
  /\ reloader = "idle"
  /\ proxy < MaxReloads
  /\ proxy' = proxy + 1
  /\ reloader' = "clearing"
  /\ UNCHANGED <<queryVars, connVars, openLock, connsLock, pool, todo>>

ClearPool ==
  /\ reloader = "clearing"
  /\ connsLock = None
  /\ alive' = [c \in Conns |-> IF c \in pool THEN FALSE ELSE alive[c]]
  /\ pool' = {}
  /\ reloader' = "idle"
  /\ UNCHANGED <<queryVars, reader, inflight, nextId, via, wire, openLock,
                 connsLock, proxy, todo>>

-----------------------------------------------------------------------------
(* prune: one pass over the pool under the lock on conns *)

PruneLock ==
  /\ PrunerRuns
  /\ connsLock = None
  /\ connsLock' = Pruner
  /\ todo' = pool
  /\ UNCHANGED <<queryVars, connVars, openLock, pool, proxy, reloader>>

PruneDead(c) ==
  /\ c \in todo
  /\ ~alive[c]
  /\ todo' = todo \ {c}
  /\ pool' = pool \ {c}
  /\ UNCHANGED <<queryVars, connVars, openLock, connsLock, proxy, reloader>>

(* Mutant of PruneIdle: an idle connection is dropped in use. *)
PruneIdleInUse(c) ==
  /\ c \in todo
  /\ alive[c]
  /\ todo' = todo \ {c}
  /\ pool' = pool \ {c}
  /\ alive' = [alive EXCEPT ![c] = FALSE]
  /\ UNCHANGED <<queryVars, reader, inflight, nextId, via, wire, openLock,
                 connsLock, proxy, reloader>>

PruneIdle(c) ==
  /\ c \in todo
  /\ alive[c]
  /\ Occupied(c) = {}
  /\ todo' = todo \ {c}
  /\ pool' = pool \ {c}
  /\ alive' = [alive EXCEPT ![c] = FALSE]
  /\ UNCHANGED <<queryVars, reader, inflight, nextId, via, wire, openLock,
                 connsLock, proxy, reloader>>

(* In use, or used within the idle period. *)
PruneKeep(c) ==
  /\ c \in todo
  /\ alive[c]
  /\ todo' = todo \ {c}
  /\ UNCHANGED <<queryVars, connVars, openLock, connsLock, pool, proxy,
                 reloader>>

PruneUnlock ==
  /\ connsLock = Pruner
  /\ todo = {}
  /\ connsLock' = None
  /\ UNCHANGED <<queryVars, connVars, openLock, pool, proxy, reloader, todo>>

-----------------------------------------------------------------------------
(* Steps that wait for a lock, and steps that do not. *)
QueryLocks(q) == ReuseLock(q) \/ LockOpen(q) \/ CheckLimit(q) \/ PushConn(q)

QueryRuns(q) ==
  \/ Resolve(q)
  \/ \E c \in Conns : ReuseHit(q, c) \/ ReuseFull(q, c)
  \/ ReuseMiss(q)
  \/ LoadProxy(q) \/ ConnectFails(q) \/ Connected(q) \/ AllocateFresh(q)
  \/ InsertSender(q) \/ WriteQuery(q) \/ WriteFails(q)
  \/ TakeReply(q) \/ ChannelClosed(q) \/ QueryTimeout(q) \/ DropId(q)

Reader(c) ==
  \/ \E m \in wire[c] : ReadReply(c, m)
  \/ ReaderIdle(c) \/ ReaderFails(c) \/ ReaderMarksDead(c) \/ ReaderClears(c)

PruneRuns ==
  \/ \E c \in Conns : PruneDead(c) \/ PruneIdle(c) \/ PruneKeep(c)
  \/ PruneUnlock

Next ==
  \/ \E q \in Queries : QueryLocks(q) \/ QueryRuns(q)
  \/ \E c \in Conns : Reader(c)
  \/ StoreProxy \/ ClearPool
  \/ PruneLock \/ PruneRuns

(* Every task that can run does: a connect ends (connect_timeout), so does a
   wait for a reply (query_timeout), a write (the peer drains its window),
   and a prune pass. tokio's Mutex is handed over in FIFO order, so a task
   that waits for a lock released again and again gets it. Nothing is
   assumed of the clients, of the server's replies or of reloads.          *)
Fairness ==
  /\ \A q \in Queries :
       /\ WF_vars(QueryRuns(q) /\ pc[q] # "new")
       /\ SF_vars(QueryLocks(q))
  /\ WF_vars(PruneRuns)
  /\ SF_vars(ClearPool)

Spec == Init /\ [][Next]_vars
FairSpec == Spec /\ Fairness

-----------------------------------------------------------------------------
(* Properties *)

PcLabels == {"new", "reuse", "scan", "lockOpen", "limit", "open", "connect",
             "alloc", "push", "insert", "write", "wait", "dropRetry",
             "dropFatal", "answered", "failed"}

(* The type of every variable of the pool, its connections and queries. *)
TypeOK ==
  /\ pc \in [Queries -> PcLabels]
  /\ attempt \in [Queries -> {1, 2}]
  /\ scan \in [Queries -> SUBSET Conns]
  /\ conn \in [Queries -> Conns]
  /\ id \in [Queries -> Ids]
  /\ answer \in [Queries -> Messages \cup {None}]
  /\ openLock \in Queries \cup {None}
  /\ connsLock \in Queries \cup {None, Pruner}
  /\ pool \in SUBSET Conns
  /\ alive \in [Conns -> BOOLEAN]
  /\ reader \in [Conns -> {"none", "reading", "leaving", "clearing", "gone"}]
  /\ inflight \in [Conns -> [Ids -> Queries \cup {None, Placeholder}]]
  /\ nextId \in [Conns -> Nat]
  /\ via \in [Conns -> Nat]
  /\ wire \in [Conns -> SUBSET Messages]
  /\ proxy \in Nat
  /\ reloader \in {"idle", "clearing"}
  /\ todo \in SUBSET Conns

(* No connection has handed out more ids than there are. *)
IdsNotReused == \A c \in Conns : nextId[c] <= IdSpace

(* A resolve() that succeeds returns the reply to its own query, under the
   id its client used, whatever timed out, was retried or was answered late
   on the connections it shared. Only up to the wrap of next_id: after 2^16
   queries a very late reply can meet its id again.                        *)
AnswerIsOwn ==
  IdsNotReused =>
    \A q \in Queries : pc[q] = "answered" =>
                         answer[q] = [id |-> OriginalId[q], about |-> q]

(* While the reader of its connection has not cleared inflight, a query
   that acquired an id keeps it to itself: allocate_id's placeholder, then
   the query's own sender, stays under the id until the reply is delivered
   or the query gives up, so no other query's timeout, late reply or
   allocation takes it away.                                               *)
RegisteredUntilCleared ==
  IdsNotReused =>
    \A q \in Queries :
      reader[conn[q]] # "gone" =>
        /\ pc[q] \in {"push", "insert"} =>
             inflight[conn[q]][id[q]] = Placeholder
        /\ pc[q] \in {"write", "wait"} /\ answer[q] = None =>
             inflight[conn[q]][id[q]] = q

(* A connection whose reader still serves it has at most
   MAX_INFLIGHT_PER_CONN ids in use, although allocate_id checks the number
   and attempt() inserts its sender in two separate lock acquisitions.     *)
InflightBounded ==
  IdsNotReused =>
    \A c \in Conns : reader[c] # "gone" =>
      Cardinality(Occupied(c)) <= MAX_INFLIGHT_PER_CONN

FirstAttempts(s) == {c \in Bucket(s) : Attempt(c) = 1}

(* The connections opened by first attempts stay within the limit per
   server, although the limit is checked before, and the connection pushed
   after, the connect is awaited: open_lock keeps every other opener out.  *)
FirstAttemptsWithinLimit ==
  \A s \in Servers :
    Cardinality(FirstAttempts(s)) <= MAX_CONNS_PER_TARGET

(* After set_proxy has returned, at most one connection of the pool goes
   through an earlier proxy (the one being opened while set_proxy ran): the
   opens are serialised by open_lock, and everything pooled was cleared.   *)
OneStaleConn ==
  reloader = "idle" =>
    \A c, d \in pool : via[c] < proxy /\ via[d] < proxy => c = d

PruneSparesUsed ==
  IdsNotReused /\ connsLock = Pruner =>
    \A c \in pool \ pool' :
      alive[c] => ~ \E q \in Queries : /\ conn[q] = c
                                       /\ pc[q] \in {"insert", "write", "wait"}
                                       /\ answer[q] = None

(* prune() never takes a live connection away from a query that has an id
   on it and can still get a reply.                                        *)
PruneSparesUsedConns == [][PruneSparesUsed]_vars

(* Every resolve() that is called returns: no lock is waited for in a cycle,
   and a lost reply, a dead connection or a full pool ends in an error.    *)
EveryResolveReturns == <>[](\A q \in Queries : pc[q] = "new" \/ Finished(q))

(* set_proxy, awaited by the main loop, always gets the lock on conns: the
   lock is never held across a connect or a reply.                         *)
SetProxyReturns == reloader = "clearing" ~> reloader = "idle"

=============================================================================
