--------------------------- MODULE DnsPoolProofs ----------------------------
(***************************************************************************)
(* Proofs about DnsPool. An attempt opens one connection, once, under      *)
(* open_lock (OpenLockHeld, OpenedOnce). Until next_id wraps, an id handed *)
(* out is not below next_id, and every id in use or on the wire is; so no  *)
(* two queries, and no query and a late reply, meet under one id (IdInv).  *)
(* With open_lock held from the check of the limit to the push, what the   *)
(* opener found before the connect still holds when it pushes              *)
(* (RoomForOpener, OneStaleOrPending). A query's slot stays its own until  *)
(* the reader clears them (RegInv), which bounds the ids in use (BoundInv) *)
(* and tells prune() which connections are used. The inductive invariant   *)
(* is PoolInv, and SlotInv up to the wrap of next_id.                      *)
(***************************************************************************)
EXTENDS DnsPool, FiniteSetTheorems, TLAPS

(* Ids and allocate_id *)

(* What is not a query is none of them. *)
LEMMA NotAQuery == \A q \in Queries : None # q /\ Placeholder # q
  BY ConstantsAssumption, Zenon

(* The 16 bits of next_id are an id. *)
LEMMA ModInIds == \A n \in Nat : n % IdSpace \in Ids
BY ConstantsAssumption DEF Ids

(* allocate_id keeps the types of what it changes. *)
LEMMA AllocateIdType ==
  ASSUME TypeOK, NEW q \in Queries, NEW c \in Conns, AllocateId(q, c)
  PROVE  /\ inflight' \in [Conns -> [Ids -> Queries \cup {None, Placeholder}]]
         /\ nextId' \in [Conns -> Nat]
         /\ id' \in [Queries -> Ids]
         /\ conn' \in [Queries -> Conns]
<1>1. PICK k \in Skipped(c) :
        LET i == (nextId[c] + k) % IdSpace IN
          /\ inflight' = [inflight EXCEPT ![c][i] = Placeholder]
          /\ nextId' = [nextId EXCEPT ![c] = @ + k + 1]
          /\ id' = [id EXCEPT ![q] = i]
          /\ conn' = [conn EXCEPT ![q] = c]
      BY Zenon DEF AllocateId
<1>2. k \in Nat /\ nextId[c] \in Nat
      BY ConstantsAssumption DEF Skipped, TypeOK
<1>3. (nextId[c] + k) % IdSpace \in Ids
      BY <1>2, ModInIds
<1> QED
    BY <1>1, <1>2, <1>3 DEF TypeOK

(* A query that retries, or gives up, is at a program point of resolve(). *)
LEMMA RetryType ==
  ASSUME TypeOK, NEW q \in Queries, Retry(q)
  PROVE  /\ pc' \in [Queries -> PcLabels]
         /\ attempt' \in [Queries -> {1, 2}]
         /\ openLock' \in Queries \cup {None}
BY DEF TypeOK, Retry, Goto, ReleaseOpenLock, PcLabels

(* DnsPool::new makes a typed state ... *)
LEMMA TypeInit == Init => TypeOK
BY ConstantsAssumption DEF Init, TypeOK, Conns, Ids, PcLabels

(* ... and every step of a task keeps it so. *)
LEMMA TypeNext ==
  TypeOK /\ [Next]_vars => TypeOK'
<1> SUFFICES ASSUME TypeOK, [Next]_vars PROVE TypeOK'
    OBVIOUS
<1> USE ConstantsAssumption DEF TypeOK, PcLabels, Goto, queryVars, connVars, poolVars
<1>1. ASSUME NEW q \in Queries, ReuseLock(q) PROVE TypeOK'
      BY <1>1, Zenon DEF ReuseLock, Bucket
<1>2. ASSUME NEW q \in Queries, LockOpen(q) PROVE TypeOK'
      BY <1>2, Zenon DEF LockOpen
<1>3. ASSUME NEW q \in Queries, CheckLimit(q) PROVE TypeOK'
  <2>1. /\ pc' \in [Queries -> PcLabels]
        /\ attempt' \in [Queries -> {1, 2}]
        /\ openLock' \in Queries \cup {None}
    <3>1. CASE Retry(q)
          BY <3>1, RetryType
    <3>2. CASE Goto(q, "open") /\ UNCHANGED <<attempt, openLock>>
          BY <3>2
    <3> QED
        BY <1>3, <3>1, <3>2, Zenon DEF CheckLimit
  <2> QED
      BY <1>3, <2>1 DEF CheckLimit, Bucket
<1>4. ASSUME NEW q \in Queries, PushConn(q) PROVE TypeOK'
      BY <1>4 DEF PushConn, ReleaseOpenLock
<1>5. ASSUME NEW q \in Queries, Resolve(q) PROVE TypeOK'
      BY <1>5, Zenon DEF Resolve
<1>6. ASSUME NEW q \in Queries, ReuseMiss(q) PROVE TypeOK'
      BY <1>6, Zenon DEF ReuseMiss
<1>7. ASSUME NEW q \in Queries, LoadProxy(q) PROVE TypeOK'
      BY <1>7, Zenon DEF LoadProxy, Conns
<1>8. ASSUME NEW q \in Queries, ConnectFails(q) PROVE TypeOK'
      BY <1>8, Zenon DEF ConnectFails, Retry, ReleaseOpenLock
<1>9. ASSUME NEW q \in Queries, Connected(q) PROVE TypeOK'
      BY <1>9, Zenon DEF Connected, Conns
<1>10. ASSUME NEW q \in Queries, AllocateFresh(q) PROVE TypeOK'
  <2>1. <<q, attempt[q]>> \in Conns
        BY DEF Conns
  <2>2. CASE CanAllocate(<<q, attempt[q]>>)
        BY <1>10, <2>1, <2>2, AllocateIdType, Zenon DEF AllocateFresh
  <2>3. CASE ~CanAllocate(<<q, attempt[q]>>)
        BY <1>10, <2>3, ZenonT(30) DEF AllocateFresh, Retry, ReleaseOpenLock
  <2> QED
      BY <2>2, <2>3
<1>11. ASSUME NEW q \in Queries, InsertSender(q) PROVE TypeOK'
      BY <1>11, Zenon DEF InsertSender
<1>12. ASSUME NEW q \in Queries, WriteQuery(q) PROVE TypeOK'
      BY <1>12 DEF WriteQuery, Messages
<1>13. ASSUME NEW q \in Queries, WriteFails(q) PROVE TypeOK'
      BY <1>13, Zenon DEF WriteFails
<1>14. ASSUME NEW q \in Queries, TakeReply(q) PROVE TypeOK'
      BY <1>14 DEF TakeReply, Messages
<1>15. ASSUME NEW q \in Queries, ChannelClosed(q) PROVE TypeOK'
      BY <1>15, Zenon DEF ChannelClosed
<1>16. ASSUME NEW q \in Queries, QueryTimeout(q) PROVE TypeOK'
      BY <1>16, Zenon DEF QueryTimeout
<1>17. ASSUME NEW q \in Queries, DropId(q) PROVE TypeOK'
  <2>1. /\ pc' \in [Queries -> PcLabels]
        /\ attempt' \in [Queries -> {1, 2}]
        /\ openLock' \in Queries \cup {None}
    <3>1. CASE Retry(q)
          BY <3>1, RetryType
    <3>2. CASE Goto(q, "failed") /\ UNCHANGED <<attempt, openLock>>
          BY <3>2
    <3> QED
        BY <1>17, <3>1, <3>2, Zenon DEF DropId
  <2> QED
      BY <1>17, <2>1 DEF DropId
<1>18. ASSUME NEW q \in Queries, NEW c \in Conns, ReuseHit(q, c)
      PROVE  TypeOK'
      BY <1>18, AllocateIdType DEF ReuseHit, ReleaseOpenLock
<1>19. ASSUME NEW q \in Queries, NEW c \in Conns, ReuseFull(q, c)
      PROVE  TypeOK'
      BY <1>19, Zenon DEF ReuseFull
<1>20. ASSUME NEW c \in Conns, NEW m \in wire[c], ReadReply(c, m)
      PROVE  TypeOK'
      BY <1>20, Zenon DEF ReadReply, Messages
<1>21. ASSUME NEW c \in Conns, ReaderIdle(c) PROVE TypeOK'
      BY <1>21, Zenon DEF ReaderIdle
<1>22. ASSUME NEW c \in Conns, ReaderFails(c) PROVE TypeOK'
      BY <1>22, Zenon DEF ReaderFails
<1>23. ASSUME NEW c \in Conns, ReaderMarksDead(c) PROVE TypeOK'
      BY <1>23, Zenon DEF ReaderMarksDead
<1>24. ASSUME NEW c \in Conns, ReaderClears(c) PROVE TypeOK'
      BY <1>24, Zenon DEF ReaderClears
<1>25. ASSUME NEW c \in Conns, PruneDead(c) PROVE TypeOK'
      BY <1>25, Zenon DEF PruneDead
<1>26. ASSUME NEW c \in Conns, PruneIdle(c) PROVE TypeOK'
      BY <1>26, Zenon DEF PruneIdle
<1>27. ASSUME NEW c \in Conns, PruneKeep(c) PROVE TypeOK'
      BY <1>27, Zenon DEF PruneKeep
<1>28. CASE StoreProxy
      BY <1>28 DEF StoreProxy
<1>29. CASE ClearPool
      BY <1>29, Zenon DEF ClearPool
<1>30. CASE PruneLock
      BY <1>30, Zenon DEF PruneLock
<1>31. CASE PruneUnlock
      BY <1>31, Zenon DEF PruneUnlock
<1>32. CASE UNCHANGED vars
      BY <1>32, Zenon DEF vars
<1> QED
    BY <1>1, <1>2, <1>3, <1>4, <1>5, <1>6, <1>7, <1>8, <1>9, <1>10, <1>11,
       <1>12, <1>13, <1>14, <1>15, <1>16, <1>17, <1>18, <1>19, <1>20, <1>21,
       <1>22, <1>23, <1>24, <1>25, <1>26, <1>27, <1>28, <1>29, <1>30, <1>31,
       <1>32, Zenon DEF Next, QueryLocks, QueryRuns, Reader, PruneRuns

(* open_lock is held from the limit check to the push. *)

OpenLockHeld ==
  \A q \in Queries : Opening(q) \/ pc[q] = "limit" => openLock = q

(* A query past the opening of a connection in its current attempt. *)
PastOpen(q) == Using(q) \/ Finished(q)

(* A connection is pooled, or has a reader, only after its attempt opened it. *)
OpenedOnce ==
  /\ \A q \in Queries : pc[q] = "push" => conn[q] = <<q, attempt[q]>>
  /\ \A q \in Queries, a \in {1, 2} :
       /\ <<q, a>> \in pool =>
            a < attempt[q] \/ (a = attempt[q] /\ PastOpen(q))
       /\ reader[<<q, a>>] # "none" =>
            a < attempt[q] \/
            (a = attempt[q] /\ (PastOpen(q) \/ pc[q] \in {"alloc", "push"}))
  /\ \A c \in Conns : reader[c] \in {"clearing", "gone"} => ~alive[c]

(* Only the query that took open_lock opens, until it releases it. *)
LEMMA OpenLockNext ==
  TypeOK /\ OpenLockHeld /\ [Next]_vars => OpenLockHeld'
<1> SUFFICES ASSUME TypeOK, OpenLockHeld, [Next]_vars PROVE OpenLockHeld'
    OBVIOUS
<1>types. /\ pc \in [Queries -> PcLabels]
          /\ attempt \in [Queries -> {1, 2}]
          BY DEF TypeOK
<1> USE <1>types DEF OpenLockHeld, Opening, Goto, queryVars, connVars, poolVars
<1>1. ASSUME NEW q \in Queries, ReuseLock(q) PROVE OpenLockHeld'
      BY <1>1, Zenon DEF ReuseLock
<1>2. ASSUME NEW q \in Queries, LockOpen(q) PROVE OpenLockHeld'
      BY <1>2, ConstantsAssumption DEF LockOpen
<1>3. ASSUME NEW q \in Queries, CheckLimit(q) PROVE OpenLockHeld'
      BY <1>3, Zenon DEF CheckLimit, Retry, ReleaseOpenLock
<1>4. ASSUME NEW q \in Queries, PushConn(q) PROVE OpenLockHeld'
      BY <1>4, Zenon DEF PushConn, ReleaseOpenLock
<1>5. ASSUME NEW q \in Queries, Resolve(q) PROVE OpenLockHeld'
      BY <1>5, Zenon DEF Resolve
<1>6. ASSUME NEW q \in Queries, ReuseMiss(q) PROVE OpenLockHeld'
      BY <1>6, Zenon DEF ReuseMiss
<1>7. ASSUME NEW q \in Queries, LoadProxy(q) PROVE OpenLockHeld'
      BY <1>7, Zenon DEF LoadProxy
<1>8. ASSUME NEW q \in Queries, ConnectFails(q) PROVE OpenLockHeld'
      BY <1>8, Zenon DEF ConnectFails, Retry, ReleaseOpenLock
<1>9. ASSUME NEW q \in Queries, Connected(q) PROVE OpenLockHeld'
      BY <1>9, Zenon DEF Connected
<1>10. ASSUME NEW q \in Queries, AllocateFresh(q) PROVE OpenLockHeld'
      BY <1>10 DEF AllocateFresh, Retry, ReleaseOpenLock
<1>11. ASSUME NEW q \in Queries, InsertSender(q) PROVE OpenLockHeld'
      BY <1>11, Zenon DEF InsertSender
<1>12. ASSUME NEW q \in Queries, WriteQuery(q) PROVE OpenLockHeld'
      BY <1>12, Zenon DEF WriteQuery
<1>13. ASSUME NEW q \in Queries, WriteFails(q) PROVE OpenLockHeld'
      BY <1>13, Zenon DEF WriteFails
<1>14. ASSUME NEW q \in Queries, TakeReply(q) PROVE OpenLockHeld'
      BY <1>14, Zenon DEF TakeReply
<1>15. ASSUME NEW q \in Queries, ChannelClosed(q) PROVE OpenLockHeld'
      BY <1>15, Zenon DEF ChannelClosed
<1>16. ASSUME NEW q \in Queries, QueryTimeout(q) PROVE OpenLockHeld'
      BY <1>16, Zenon DEF QueryTimeout
<1>17. ASSUME NEW q \in Queries, DropId(q) PROVE OpenLockHeld'
      BY <1>17, Zenon DEF DropId, Retry, ReleaseOpenLock
<1>18. ASSUME NEW q \in Queries, NEW c \in Conns, ReuseHit(q, c)
      PROVE  OpenLockHeld'
      BY <1>18, Zenon DEF ReuseHit, ReleaseOpenLock
<1>19. ASSUME NEW q \in Queries, NEW c \in Conns, ReuseFull(q, c)
      PROVE  OpenLockHeld'
      BY <1>19, Zenon DEF ReuseFull
<1>20. ASSUME NEW c \in Conns, NEW m \in wire[c], ReadReply(c, m)
      PROVE  OpenLockHeld'
      BY <1>20, Zenon DEF ReadReply
<1>21. ASSUME NEW c \in Conns, ReaderIdle(c) PROVE OpenLockHeld'
      BY <1>21, Zenon DEF ReaderIdle
<1>22. ASSUME NEW c \in Conns, ReaderFails(c) PROVE OpenLockHeld'
      BY <1>22, Zenon DEF ReaderFails
<1>23. ASSUME NEW c \in Conns, ReaderMarksDead(c) PROVE OpenLockHeld'
      BY <1>23, Zenon DEF ReaderMarksDead
<1>24. ASSUME NEW c \in Conns, ReaderClears(c) PROVE OpenLockHeld'
      BY <1>24, Zenon DEF ReaderClears
<1>25. ASSUME NEW c \in Conns, PruneDead(c) PROVE OpenLockHeld'
      BY <1>25, Zenon DEF PruneDead
<1>26. ASSUME NEW c \in Conns, PruneIdle(c) PROVE OpenLockHeld'
      BY <1>26, Zenon DEF PruneIdle
<1>27. ASSUME NEW c \in Conns, PruneKeep(c) PROVE OpenLockHeld'
      BY <1>27, Zenon DEF PruneKeep
<1>28. CASE StoreProxy
      BY <1>28, Zenon DEF StoreProxy
<1>29. CASE ClearPool
      BY <1>29, Zenon DEF ClearPool
<1>30. CASE PruneLock
      BY <1>30, Zenon DEF PruneLock
<1>31. CASE PruneUnlock
      BY <1>31, Zenon DEF PruneUnlock
<1>32. CASE UNCHANGED vars
      BY <1>32, Zenon DEF vars
<1> QED
    BY <1>1, <1>2, <1>3, <1>4, <1>5, <1>6, <1>7, <1>8, <1>9, <1>10, <1>11,
       <1>12, <1>13, <1>14, <1>15, <1>16, <1>17, <1>18, <1>19, <1>20, <1>21,
       <1>22, <1>23, <1>24, <1>25, <1>26, <1>27, <1>28, <1>29, <1>30, <1>31,
       <1>32, Zenon DEF Next, QueryLocks, QueryRuns, Reader, PruneRuns

(* Steps keep OpenedOnce: a connection enters the pool by its opener only. *)
LEMMA OpenedOnceNext ==
  TypeOK /\ OpenLockHeld /\ OpenedOnce /\ [Next]_vars => OpenedOnce'
<1> SUFFICES ASSUME TypeOK, OpenLockHeld, OpenedOnce, [Next]_vars
             PROVE  OpenedOnce'
    OBVIOUS
<1>types. /\ pc \in [Queries -> PcLabels]
          /\ attempt \in [Queries -> {1, 2}]
          /\ conn \in [Queries -> Conns]
          /\ alive \in [Conns -> BOOLEAN]
          /\ reader \in [Conns -> {"none", "reading", "leaving", "clearing", "gone"}]
          BY DEF TypeOK
<1> USE <1>types DEF OpenedOnce, PastOpen, Using, Finished, Goto, queryVars, connVars, poolVars
<1>1. ASSUME NEW q \in Queries, ReuseLock(q) PROVE OpenedOnce'
      BY <1>1, ZenonT(30) DEF ReuseLock, Bucket
<1>2. ASSUME NEW q \in Queries, LockOpen(q) PROVE OpenedOnce'
      BY <1>2, Zenon DEF LockOpen
<1>3. ASSUME NEW q \in Queries, CheckLimit(q) PROVE OpenedOnce'
  <2>1. pool' \subseteq pool
        BY <1>3, Zenon DEF CheckLimit
  <2>2. CASE Retry(q) /\ attempt[q] = 1
        BY <1>3, <2>1, <2>2 DEF CheckLimit, Retry
  <2>3. CASE Retry(q) /\ attempt[q] = 2
        BY <1>3, <2>1, <2>3 DEF CheckLimit, Retry
  <2>4. CASE Goto(q, "open") /\ UNCHANGED attempt
        BY <1>3, <2>1, <2>4 DEF CheckLimit
  <2> QED
      BY <1>3, <2>2, <2>3, <2>4 DEF CheckLimit
<1>4. ASSUME NEW q \in Queries, PushConn(q) PROVE OpenedOnce'
      BY <1>4 DEF PushConn, Conns
<1>5. ASSUME NEW q \in Queries, Resolve(q) PROVE OpenedOnce'
      BY <1>5, Zenon DEF Resolve
<1>6. ASSUME NEW q \in Queries, ReuseMiss(q) PROVE OpenedOnce'
      BY <1>6, Zenon DEF ReuseMiss
<1>7. ASSUME NEW q \in Queries, LoadProxy(q) PROVE OpenedOnce'
      BY <1>7, Zenon DEF LoadProxy
<1>8. ASSUME NEW q \in Queries, ConnectFails(q) PROVE OpenedOnce'
      BY <1>8 DEF ConnectFails, Retry
<1>9. ASSUME NEW q \in Queries, Connected(q) PROVE OpenedOnce'
      BY <1>9, ZenonT(30) DEF Connected, Conns
<1>10. ASSUME NEW q \in Queries, AllocateFresh(q) PROVE OpenedOnce'
  <2>1. CASE CanAllocate(<<q, attempt[q]>>)
    <3>1. /\ pc[q] = "alloc" /\ pc' = [pc EXCEPT ![q] = "push"]
          /\ conn' = [conn EXCEPT ![q] = <<q, attempt[q]>>]
          /\ UNCHANGED <<attempt, pool, reader, alive>>
          BY <1>10, <2>1, Zenon DEF AllocateFresh, AllocateId
    <3> QED
        BY <3>1 DEF Conns
  <2>2. CASE ~CanAllocate(<<q, attempt[q]>>) /\ attempt[q] = 1
    <3>1. /\ pc[q] = "alloc" /\ pc' = [pc EXCEPT ![q] = "lockOpen"]
          /\ attempt' = [attempt EXCEPT ![q] = 2]
          /\ UNCHANGED <<conn, pool, reader, alive>>
          BY <1>10, <2>2 DEF AllocateFresh, Retry
    <3> QED
        BY <2>2, <3>1
  <2>3. CASE ~CanAllocate(<<q, attempt[q]>>) /\ attempt[q] = 2
        BY <1>10, <2>3 DEF AllocateFresh, Retry
  <2> QED
      BY <2>1, <2>2, <2>3
<1>11. ASSUME NEW q \in Queries, InsertSender(q) PROVE OpenedOnce'
      BY <1>11, Zenon DEF InsertSender
<1>12. ASSUME NEW q \in Queries, WriteQuery(q) PROVE OpenedOnce'
      BY <1>12, Zenon DEF WriteQuery
<1>13. ASSUME NEW q \in Queries, WriteFails(q) PROVE OpenedOnce'
      BY <1>13, Zenon DEF WriteFails
<1>14. ASSUME NEW q \in Queries, TakeReply(q) PROVE OpenedOnce'
      BY <1>14, Zenon DEF TakeReply
<1>15. ASSUME NEW q \in Queries, ChannelClosed(q) PROVE OpenedOnce'
      BY <1>15, Zenon DEF ChannelClosed
<1>16. ASSUME NEW q \in Queries, QueryTimeout(q) PROVE OpenedOnce'
      BY <1>16, Zenon DEF QueryTimeout
<1>17. ASSUME NEW q \in Queries, DropId(q) PROVE OpenedOnce'
      BY <1>17, SMTT(30) DEF DropId, Retry
<1>18. ASSUME NEW q \in Queries, NEW c \in Conns, ReuseHit(q, c)
      PROVE  OpenedOnce'
      BY <1>18, ZenonT(30) DEF ReuseHit, AllocateId
<1>19. ASSUME NEW q \in Queries, NEW c \in Conns, ReuseFull(q, c)
      PROVE  OpenedOnce'
      BY <1>19, Zenon DEF ReuseFull
<1>20. ASSUME NEW c \in Conns, NEW m \in wire[c], ReadReply(c, m)
      PROVE  OpenedOnce'
      BY <1>20, Zenon DEF ReadReply
<1>21. ASSUME NEW c \in Conns, ReaderIdle(c) PROVE OpenedOnce'
      BY <1>21 DEF ReaderIdle
<1>22. ASSUME NEW c \in Conns, ReaderFails(c) PROVE OpenedOnce'
      BY <1>22 DEF ReaderFails
<1>23. ASSUME NEW c \in Conns, ReaderMarksDead(c) PROVE OpenedOnce'
      BY <1>23 DEF ReaderMarksDead
<1>24. ASSUME NEW c \in Conns, ReaderClears(c) PROVE OpenedOnce'
      BY <1>24 DEF ReaderClears
<1>25. ASSUME NEW c \in Conns, PruneDead(c) PROVE OpenedOnce'
      BY <1>25, Zenon DEF PruneDead
<1>26. ASSUME NEW c \in Conns, PruneIdle(c) PROVE OpenedOnce'
      BY <1>26, ZenonT(30) DEF PruneIdle
<1>27. ASSUME NEW c \in Conns, PruneKeep(c) PROVE OpenedOnce'
      BY <1>27, Zenon DEF PruneKeep
<1>28. CASE StoreProxy
      BY <1>28, Zenon DEF StoreProxy
<1>29. CASE ClearPool
      BY <1>29, Zenon DEF ClearPool
<1>30. CASE PruneLock
      BY <1>30, Zenon DEF PruneLock
<1>31. CASE PruneUnlock
      BY <1>31, Zenon DEF PruneUnlock
<1>32. CASE UNCHANGED vars
      BY <1>32, Zenon DEF vars
<1> QED
    BY <1>1, <1>2, <1>3, <1>4, <1>5, <1>6, <1>7, <1>8, <1>9, <1>10, <1>11,
       <1>12, <1>13, <1>14, <1>15, <1>16, <1>17, <1>18, <1>19, <1>20, <1>21,
       <1>22, <1>23, <1>24, <1>25, <1>26, <1>27, <1>28, <1>29, <1>30, <1>31,
       <1>32, Zenon DEF Next, QueryLocks, QueryRuns, Reader, PruneRuns

-----------------------------------------------------------------------------
(* Ids *)

(* A query that owns an id of its connection ... *)
Holding(q) == Using(q) \/ pc[q] = "push"
(* ... and one whose message has gone out under it. *)
Sent(q) == pc[q] \in {"wait", "dropRetry", "dropFatal"}

(* Before the wrap of next_id, ids identify queries: every id in use or on
   the wire was handed out before, and to one query only.                  *)
IdsHandedOut ==
  /\ \A q \in Queries : Holding(q) => id[q] < nextId[conn[q]]
  /\ \A c \in Conns : \A m \in wire[c] : m.id < nextId[c]

IdsDistinct ==
  \A q, r \in Queries :
    Holding(q) /\ Holding(r) /\ conn[q] = conn[r] /\ id[q] = id[r] => q = r

WireIsOwn ==
  \A q \in Queries : \A m \in wire[conn[q]] :
    Holding(q) /\ m.id = id[q] => m.about = q /\ Sent(q)

SendersRegistered ==
  \A q \in Queries, c \in Conns, i \in Ids :
    inflight[c][i] = q =>
      conn[q] = c /\ id[q] = i /\ (pc[q] = "write" \/ Sent(q))

IdsIdentify == IdsHandedOut /\ IdsDistinct /\ WireIsOwn /\ SendersRegistered

(* What a query's channel holds. *)
ChannelsCarryOwn ==
  \A q \in Queries :
    /\ pc[q] = "write" => answer[q] = None
    /\ pc[q] = "wait" /\ answer[q] # None =>
         answer[q].about = q /\ inflight[conn[q]][id[q]] # q
    /\ pc[q] = "answered" => answer[q] = [id |-> OriginalId[q], about |-> q]

IdInv == IdsIdentify /\ ChannelsCarryOwn

(* A step that hands out no id, registers no sender and writes nothing. *)
IdQuietStep ==
  /\ UNCHANGED <<conn, id, nextId>>
  /\ \A c \in Conns : wire'[c] \subseteq wire[c]
  /\ \A c \in Conns, i \in Ids : inflight'[c][i] \in {inflight[c][i], None}
  /\ \A q \in Queries :
       /\ Holding(q)' => Holding(q)
       /\ Sent(q) /\ Holding(q)' => Sent(q)'
       /\ pc[q] = "write" \/ Sent(q) =>
            \/ (pc[q] = "write" \/ Sent(q))'
            \/ inflight'[conn[q]][id[q]] # q

(* Before the wrap, the cast of next_id to 16 bits loses nothing. *)
LEMMA ModSmall == \A n \in Nat : n < IdSpace => n % IdSpace = n
BY ConstantsAssumption DEF Ids

(* allocate_id hands out an id that is not below next_id, and moves it on. *)
LEMMA AllocateIdFresh ==
  ASSUME TypeOK, NEW q \in Queries, NEW c \in Conns, AllocateId(q, c),
         nextId'[c] <= IdSpace
  PROVE  \E i \in Ids :
           /\ nextId[c] <= i
           /\ inflight[c][i] = None
           /\ inflight' = [inflight EXCEPT ![c][i] = Placeholder]
           /\ nextId' = [nextId EXCEPT ![c] = i + 1]
           /\ id' = [id EXCEPT ![q] = i]
           /\ conn' = [conn EXCEPT ![q] = c]
<1>1. PICK k \in Skipped(c) :
        LET i == (nextId[c] + k) % IdSpace IN
          /\ inflight' = [inflight EXCEPT ![c][i] = Placeholder]
          /\ nextId' = [nextId EXCEPT ![c] = @ + k + 1]
          /\ id' = [id EXCEPT ![q] = i]
          /\ conn' = [conn EXCEPT ![q] = c]
      BY Zenon DEF AllocateId
<1>2. /\ k \in Nat /\ nextId[c] \in Nat /\ IdSpace \in Nat
      /\ inflight[c][(nextId[c] + k) % IdSpace] = None
      BY ConstantsAssumption DEF Skipped, TypeOK
<1>3. nextId'[c] = nextId[c] + k + 1
      BY <1>1, Zenon DEF TypeOK
<1>4. nextId[c] + k < IdSpace
      BY <1>2, <1>3
<1>5. (nextId[c] + k) % IdSpace = nextId[c] + k
      BY <1>2, <1>4, ModSmall
<1>6. nextId[c] + k \in Ids /\ nextId[c] <= nextId[c] + k
      BY <1>2, <1>4 DEF Ids
<1> QED
    BY <1>1, <1>2, <1>5, <1>6, Zenon

(* All but four kinds of step leave ids and wire alone. *)
LEMMA OthersIdQuiet ==
  TypeOK /\ IdInv /\ [Next]_vars =>
    \/ IdQuietStep
    \/ \E q \in Queries :
         \/ \E c \in Conns : ReuseHit(q, c)
         \/ AllocateFresh(q) \/ InsertSender(q) \/ WriteQuery(q)
<1> SUFFICES ASSUME TypeOK, IdInv, [Next]_vars,
                    ~ \E q \in Queries :
                        \/ \E c \in Conns : ReuseHit(q, c)
                        \/ AllocateFresh(q) \/ InsertSender(q) \/ WriteQuery(q)
             PROVE  IdQuietStep
    OBVIOUS
<1>types. /\ pc \in [Queries -> PcLabels]
          /\ conn \in [Queries -> Conns]
          /\ id \in [Queries -> Ids]
          /\ inflight \in [Conns -> [Ids -> Queries \cup {None, Placeholder}]]
          /\ wire \in [Conns -> SUBSET Messages]
          BY DEF TypeOK
<1> USE <1>types DEF IdQuietStep, Holding, Using, Sent, Goto, queryVars, connVars, poolVars
<1>1. ASSUME NEW q \in Queries, ReuseLock(q) PROVE IdQuietStep
      BY <1>1, Zenon DEF ReuseLock
<1>2. ASSUME NEW q \in Queries, LockOpen(q) PROVE IdQuietStep
      BY <1>2, Zenon DEF LockOpen
<1>3. ASSUME NEW q \in Queries, CheckLimit(q) PROVE IdQuietStep
      BY <1>3, Zenon DEF CheckLimit, Retry
<1>4. ASSUME NEW q \in Queries, PushConn(q) PROVE IdQuietStep
      BY <1>4, Zenon DEF PushConn
<1>5. ASSUME NEW q \in Queries, Resolve(q) PROVE IdQuietStep
      BY <1>5, Zenon DEF Resolve
<1>6. ASSUME NEW q \in Queries, ReuseMiss(q) PROVE IdQuietStep
      BY <1>6, Zenon DEF ReuseMiss
<1>7. ASSUME NEW q \in Queries, LoadProxy(q) PROVE IdQuietStep
      BY <1>7, Zenon DEF LoadProxy
<1>8. ASSUME NEW q \in Queries, ConnectFails(q) PROVE IdQuietStep
      BY <1>8, Zenon DEF ConnectFails, Retry
<1>9. ASSUME NEW q \in Queries, Connected(q) PROVE IdQuietStep
      BY <1>9, Zenon DEF Connected
<1>10. ASSUME NEW q \in Queries, WriteFails(q) PROVE IdQuietStep
      BY <1>10, Zenon DEF WriteFails
<1>11. ASSUME NEW q \in Queries, TakeReply(q) PROVE IdQuietStep
      BY <1>11, Zenon DEF TakeReply, IdInv, ChannelsCarryOwn
<1>12. ASSUME NEW q \in Queries, ChannelClosed(q) PROVE IdQuietStep
      BY <1>12, Zenon DEF ChannelClosed
<1>13. ASSUME NEW q \in Queries, QueryTimeout(q) PROVE IdQuietStep
      BY <1>13, Zenon DEF QueryTimeout
<1>14. ASSUME NEW q \in Queries, DropId(q) PROVE IdQuietStep
      BY <1>14, ConstantsAssumption DEF DropId, Retry
<1>15. ASSUME NEW q \in Queries, NEW c \in Conns, ReuseFull(q, c)
      PROVE  IdQuietStep
      BY <1>15, Zenon DEF ReuseFull
<1>16. ASSUME NEW c \in Conns, NEW m \in wire[c], ReadReply(c, m)
      PROVE  IdQuietStep
      BY <1>16, Zenon DEF ReadReply
<1>17. ASSUME NEW c \in Conns, ReaderIdle(c) PROVE IdQuietStep
      BY <1>17, Zenon DEF ReaderIdle
<1>18. ASSUME NEW c \in Conns, ReaderFails(c) PROVE IdQuietStep
      BY <1>18, Zenon DEF ReaderFails
<1>19. ASSUME NEW c \in Conns, ReaderMarksDead(c) PROVE IdQuietStep
      BY <1>19, Zenon DEF ReaderMarksDead
<1>20. ASSUME NEW c \in Conns, ReaderClears(c) PROVE IdQuietStep
      BY <1>20, Zenon DEF ReaderClears
<1>21. ASSUME NEW c \in Conns, PruneDead(c) PROVE IdQuietStep
      BY <1>21, Zenon DEF PruneDead
<1>22. ASSUME NEW c \in Conns, PruneIdle(c) PROVE IdQuietStep
      BY <1>22, Zenon DEF PruneIdle
<1>23. ASSUME NEW c \in Conns, PruneKeep(c) PROVE IdQuietStep
      BY <1>23, Zenon DEF PruneKeep
<1>24. ASSUME StoreProxy PROVE IdQuietStep
      BY <1>24, Zenon DEF StoreProxy
<1>25. ASSUME ClearPool PROVE IdQuietStep
      BY <1>25, Zenon DEF ClearPool
<1>26. ASSUME PruneLock PROVE IdQuietStep
      BY <1>26, Zenon DEF PruneLock
<1>27. ASSUME PruneUnlock PROVE IdQuietStep
      BY <1>27, Zenon DEF PruneUnlock
<1>28. ASSUME UNCHANGED vars PROVE IdQuietStep
      BY <1>28, Zenon DEF vars
<1> QED
    BY <1>1, <1>2, <1>3, <1>4, <1>5, <1>6, <1>7, <1>8, <1>9, <1>10, <1>11,
       <1>12, <1>13, <1>14, <1>15, <1>16, <1>17, <1>18, <1>19, <1>20, <1>21,
       <1>22, <1>23, <1>24, <1>25, <1>26, <1>27, <1>28, Zenon DEF Next, QueryLocks,
       QueryRuns, Reader, PruneRuns

(* Those keep what ids identify. *)
LEMMA QuietIdentify == TypeOK /\ IdsIdentify /\ IdQuietStep => IdsIdentify'
<1> SUFFICES ASSUME TypeOK, IdsIdentify, IdQuietStep PROVE IdsIdentify'
    OBVIOUS
<1>1. IdsHandedOut'
      BY DEF IdsIdentify, IdsHandedOut, IdQuietStep
<1>2. IdsDistinct'
      BY DEF IdsIdentify, IdsDistinct, IdQuietStep
<1>3. WireIsOwn'
  <2> SUFFICES ASSUME NEW q \in Queries, NEW m \in wire'[conn'[q]],
                      Holding(q)', m.id = id'[q]
               PROVE  m.about = q /\ Sent(q)'
      BY DEF WireIsOwn
  <2>1. Holding(q) /\ m \in wire[conn[q]] /\ m.id = id[q]
        BY DEF IdQuietStep, TypeOK
  <2> QED
      BY <2>1 DEF IdsIdentify, WireIsOwn, IdQuietStep
<1>4. SendersRegistered'
  <2> SUFFICES ASSUME NEW q \in Queries, NEW c \in Conns, NEW i \in Ids,
                      inflight'[c][i] = q
               PROVE  /\ conn'[q] = c /\ id'[q] = i
                      /\ (pc[q] = "write" \/ Sent(q))'
      BY DEF SendersRegistered
  <2>1. inflight[c][i] = q
        BY ConstantsAssumption DEF IdQuietStep
  <2>2. conn[q] = c /\ id[q] = i /\ (pc[q] = "write" \/ Sent(q))
        BY <2>1 DEF IdsIdentify, SendersRegistered
  <2> QED
      BY <2>2 DEF IdQuietStep
<1> QED
    BY <1>1, <1>2, <1>3, <1>4 DEF IdsIdentify

(* allocate_id keeps ids apart: the id it hands out is not below next_id, and
   every id in use or on the wire is.                                      *)
LEMMA AllocateIdentify ==
  ASSUME TypeOK, TypeOK', IdsIdentify, NEW q \in Queries, NEW c \in Conns,
         AllocateId(q, c), nextId'[c] <= IdSpace,
         ~Holding(q), NEW label \in {"push", "insert"},
         pc' = [pc EXCEPT ![q] = label],
         UNCHANGED wire
  PROVE  IdsIdentify'
<1>1. PICK i \in Ids :
           /\ nextId[c] <= i
           /\ inflight[c][i] = None
           /\ inflight' = [inflight EXCEPT ![c][i] = Placeholder]
           /\ nextId' = [nextId EXCEPT ![c] = i + 1]
           /\ id' = [id EXCEPT ![q] = i]
           /\ conn' = [conn EXCEPT ![q] = c]
      BY AllocateIdFresh, Zenon
<1>2. i \in Nat /\ \A d \in Conns : nextId[d] \in Nat /\ nextId[d] <= nextId'[d]
      BY <1>1, ConstantsAssumption DEF Ids, TypeOK
<1>3. /\ pc'[q] = label /\ id'[q] = i /\ conn'[q] = c
      /\ \A r \in Queries \ {q} :
           pc'[r] = pc[r] /\ id'[r] = id[r] /\ conn'[r] = conn[r]
      BY <1>1 DEF TypeOK
<1>4. ~Sent(q) /\ ~(pc[q] = "write")
      BY DEF Holding, Using, Sent
<1>5. \A r \in Queries \ {q} :
        /\ Holding(r)' <=> Holding(r)
        /\ Sent(r)' <=> Sent(r)
      BY <1>3, Zenon DEF Holding, Using, Sent
<1>6. \A r \in Queries \ {q} : Holding(r) => id[r] < nextId[conn[r]]
      BY Zenon DEF IdsIdentify, IdsHandedOut
<1>7. \A d \in Conns : \A m \in wire[d] : m.id \in Nat /\ m.id < nextId[d]
      BY ConstantsAssumption DEF IdsIdentify, IdsHandedOut, TypeOK, Messages, Ids
<1>8. \A r \in Queries : conn[r] \in Conns /\ id[r] \in Nat
      BY ConstantsAssumption DEF TypeOK, Ids
<1>9. IdsHandedOut'
  <2>1. ASSUME NEW r \in Queries, Holding(r)' PROVE id'[r] < nextId'[conn'[r]]
    <3>1. CASE r = q
          BY <1>1, <1>2, <1>3, <3>1 DEF TypeOK
    <3>2. CASE r # q
      <4>1. id[r] < nextId[conn[r]] /\ id'[r] = id[r] /\ conn'[r] = conn[r]
            BY <1>3, <1>5, <1>6, <2>1, <3>2
      <4> QED
          BY <1>2, <1>8, <4>1 DEF TypeOK
    <3> QED
        BY <3>1, <3>2, Zenon
  <2>2. ASSUME NEW d \in Conns, NEW m \in wire'[d] PROVE m.id < nextId'[d]
    <3>1. m.id \in Nat /\ m.id < nextId[d]
          BY <1>7
    <3> QED
        BY <1>2, <3>1 DEF TypeOK
  <2> QED
      BY <2>1, <2>2 DEF IdsHandedOut
<1>10. IdsDistinct'
  <2> SUFFICES ASSUME NEW r \in Queries, NEW s \in Queries,
                      Holding(r)', Holding(s)', conn'[r] = conn'[s],
                      id'[r] = id'[s], r # s
               PROVE  FALSE
      BY DEF IdsDistinct
  <2>1. ASSUME NEW t \in Queries \ {q}, Holding(t)', conn'[t] = c PROVE id'[t] # i
        BY <1>1, <1>2, <1>3, <1>5, <1>6, <1>8, <2>1
  <2>2. r # q /\ s # q
        BY <1>3, <2>1
  <2> QED
      BY <1>3, <1>5, <2>2 DEF IdsIdentify, IdsDistinct
<1>11. WireIsOwn'
  <2> SUFFICES ASSUME NEW r \in Queries, NEW m \in wire'[conn'[r]],
                      Holding(r)', m.id = id'[r]
               PROVE  m.about = r /\ Sent(r)'
      BY DEF WireIsOwn
  <2>1. r # q
        BY <1>1, <1>2, <1>3, <1>7
  <2> QED
      BY <1>3, <1>5, <2>1 DEF IdsIdentify, WireIsOwn
<1>12. SendersRegistered'
  <2> SUFFICES ASSUME NEW r \in Queries, NEW d \in Conns, NEW j \in Ids,
                      inflight'[d][j] = r
               PROVE  /\ conn'[r] = d /\ id'[r] = j
                      /\ (pc[r] = "write" \/ Sent(r))'
      BY Zenon DEF SendersRegistered
  <2>1. inflight[d][j] = r
        BY <1>1, ConstantsAssumption, SMTT(30) DEF TypeOK
  <2>2. conn[r] = d /\ id[r] = j /\ (pc[r] = "write" \/ Sent(r))
        BY <2>1 DEF IdsIdentify, SendersRegistered
  <2>3. r # q
        BY <1>4, <2>2
  <2> QED
      BY <1>3, <1>5, <2>2, <2>3
<1> QED
    BY <1>9, <1>10, <1>11, <1>12 DEF IdsIdentify

(* next_id never goes back. *)
LEMMA AllocateIdGrows ==
  ASSUME TypeOK, NEW q \in Queries, NEW c \in Conns, AllocateId(q, c),
         IdsNotReused'
  PROVE  IdsNotReused
<1>1. PICK k \in Skipped(c) : nextId' = [nextId EXCEPT ![c] = @ + k + 1]
      BY Zenon DEF AllocateId
<1>2. k \in Nat /\ IdSpace \in Nat
      BY ConstantsAssumption DEF Skipped
<1> QED
    BY <1>1, <1>2 DEF IdsNotReused, TypeOK

(* Hence no wrap so far, if there is none after the step. *)
LEMMA IdsMonotone ==
  TypeOK /\ IdsNotReused' /\ [Next]_vars => IdsNotReused
<1> SUFFICES ASSUME TypeOK, IdsNotReused', [Next]_vars PROVE IdsNotReused
    OBVIOUS
<1>types. /\ attempt \in [Queries -> {1, 2}]
          /\ nextId \in [Conns -> Nat]
          BY DEF TypeOK
<1> USE <1>types DEF IdsNotReused, queryVars, connVars, poolVars
<1>1. ASSUME NEW q \in Queries, ReuseLock(q) PROVE IdsNotReused
      BY <1>1, Zenon DEF ReuseLock
<1>2. ASSUME NEW q \in Queries, LockOpen(q) PROVE IdsNotReused
      BY <1>2, Zenon DEF LockOpen
<1>3. ASSUME NEW q \in Queries, CheckLimit(q) PROVE IdsNotReused
      BY <1>3, Zenon DEF CheckLimit
<1>4. ASSUME NEW q \in Queries, PushConn(q) PROVE IdsNotReused
      BY <1>4, Zenon DEF PushConn
<1>5. ASSUME NEW q \in Queries, Resolve(q) PROVE IdsNotReused
      BY <1>5, Zenon DEF Resolve
<1>6. ASSUME NEW q \in Queries, ReuseMiss(q) PROVE IdsNotReused
      BY <1>6, Zenon DEF ReuseMiss
<1>7. ASSUME NEW q \in Queries, LoadProxy(q) PROVE IdsNotReused
      BY <1>7, Zenon DEF LoadProxy
<1>8. ASSUME NEW q \in Queries, ConnectFails(q) PROVE IdsNotReused
      BY <1>8, Zenon DEF ConnectFails
<1>9. ASSUME NEW q \in Queries, Connected(q) PROVE IdsNotReused
      BY <1>9, Zenon DEF Connected
<1>10. ASSUME NEW q \in Queries, AllocateFresh(q) PROVE IdsNotReused
  <2>1. <<q, attempt[q]>> \in Conns
        BY DEF Conns
  <2>2. CASE CanAllocate(<<q, attempt[q]>>)
        BY <1>10, <2>1, <2>2, AllocateIdGrows DEF AllocateFresh
  <2>3. CASE ~CanAllocate(<<q, attempt[q]>>)
        BY <1>10, <2>3 DEF AllocateFresh
  <2> QED
      BY <2>2, <2>3
<1>11. ASSUME NEW q \in Queries, InsertSender(q) PROVE IdsNotReused
      BY <1>11, Zenon DEF InsertSender
<1>12. ASSUME NEW q \in Queries, WriteQuery(q) PROVE IdsNotReused
      BY <1>12, Zenon DEF WriteQuery
<1>13. ASSUME NEW q \in Queries, WriteFails(q) PROVE IdsNotReused
      BY <1>13, Zenon DEF WriteFails
<1>14. ASSUME NEW q \in Queries, TakeReply(q) PROVE IdsNotReused
      BY <1>14, Zenon DEF TakeReply
<1>15. ASSUME NEW q \in Queries, ChannelClosed(q) PROVE IdsNotReused
      BY <1>15, Zenon DEF ChannelClosed
<1>16. ASSUME NEW q \in Queries, QueryTimeout(q) PROVE IdsNotReused
      BY <1>16, Zenon DEF QueryTimeout
<1>17. ASSUME NEW q \in Queries, DropId(q) PROVE IdsNotReused
      BY <1>17, Zenon DEF DropId
<1>18. ASSUME NEW q \in Queries, NEW c \in Conns, ReuseHit(q, c)
      PROVE  IdsNotReused
      BY <1>18, AllocateIdGrows DEF ReuseHit
<1>19. ASSUME NEW q \in Queries, NEW c \in Conns, ReuseFull(q, c)
      PROVE  IdsNotReused
      BY <1>19, Zenon DEF ReuseFull
<1>20. ASSUME NEW c \in Conns, NEW m \in wire[c], ReadReply(c, m)
      PROVE  IdsNotReused
      BY <1>20, Zenon DEF ReadReply
<1>21. ASSUME NEW c \in Conns, ReaderIdle(c) PROVE IdsNotReused
      BY <1>21, Zenon DEF ReaderIdle
<1>22. ASSUME NEW c \in Conns, ReaderFails(c) PROVE IdsNotReused
      BY <1>22, Zenon DEF ReaderFails
<1>23. ASSUME NEW c \in Conns, ReaderMarksDead(c) PROVE IdsNotReused
      BY <1>23, Zenon DEF ReaderMarksDead
<1>24. ASSUME NEW c \in Conns, ReaderClears(c) PROVE IdsNotReused
      BY <1>24, Zenon DEF ReaderClears
<1>25. ASSUME NEW c \in Conns, PruneDead(c) PROVE IdsNotReused
      BY <1>25, Zenon DEF PruneDead
<1>26. ASSUME NEW c \in Conns, PruneIdle(c) PROVE IdsNotReused
      BY <1>26, Zenon DEF PruneIdle
<1>27. ASSUME NEW c \in Conns, PruneKeep(c) PROVE IdsNotReused
      BY <1>27, Zenon DEF PruneKeep
<1>28. ASSUME StoreProxy PROVE IdsNotReused
      BY <1>28, Zenon DEF StoreProxy
<1>29. ASSUME ClearPool PROVE IdsNotReused
      BY <1>29, Zenon DEF ClearPool
<1>30. ASSUME PruneLock PROVE IdsNotReused
      BY <1>30, Zenon DEF PruneLock
<1>31. ASSUME PruneUnlock PROVE IdsNotReused
      BY <1>31, Zenon DEF PruneUnlock
<1>32. ASSUME UNCHANGED vars PROVE IdsNotReused
      BY <1>32, Zenon DEF vars
<1> QED
    BY <1>1, <1>2, <1>3, <1>4, <1>5, <1>6, <1>7, <1>8, <1>9, <1>10, <1>11,
       <1>12, <1>13, <1>14, <1>15, <1>16, <1>17, <1>18, <1>19, <1>20, <1>21,
       <1>22, <1>23, <1>24, <1>25, <1>26, <1>27, <1>28, <1>29, <1>30, <1>31,
       <1>32, Zenon DEF Next, QueryLocks, QueryRuns, Reader, PruneRuns

(* Ids identify queries, whichever step is taken. *)
LEMMA IdentifyNext ==
  TypeOK /\ TypeOK' /\ IdInv /\ IdsNotReused' /\ [Next]_vars => IdsIdentify'
<1> SUFFICES ASSUME TypeOK, TypeOK', IdInv, IdsNotReused', [Next]_vars
             PROVE  IdsIdentify'
    OBVIOUS
<1>1. CASE IdQuietStep
      BY <1>1, QuietIdentify DEF IdInv
<1>2. ASSUME NEW q \in Queries, NEW c \in Conns, ReuseHit(q, c)
      PROVE  IdsIdentify'
  <2>1. /\ AllocateId(q, c) /\ ~Holding(q)
        /\ pc' = [pc EXCEPT ![q] = "insert"] /\ UNCHANGED wire
        BY <1>2, Zenon DEF ReuseHit, Goto, Holding, Using
  <2> QED
      BY <2>1, AllocateIdentify, Zenon DEF IdInv, IdsNotReused
<1>3. ASSUME NEW q \in Queries, AllocateFresh(q) PROVE IdsIdentify'
  <2> DEFINE c == <<q, attempt[q]>>
  <2>1. CASE CanAllocate(c)
    <3>1. /\ AllocateId(q, c) /\ ~Holding(q)
          /\ pc' = [pc EXCEPT ![q] = "push"] /\ UNCHANGED wire
          BY <1>3, <2>1 DEF AllocateFresh, Goto, Holding, Using
    <3>2. c \in Conns
          BY DEF TypeOK, Conns
    <3> QED
        BY <3>1, <3>2, AllocateIdentify, Zenon DEF IdInv, IdsNotReused
  <2>2. CASE ~CanAllocate(c)
    <3>1. /\ pc[q] = "alloc"
          /\ pc' = [pc EXCEPT ![q] = IF attempt[q] = 1 THEN "lockOpen" ELSE "failed"]
          /\ UNCHANGED <<inflight, nextId, id, conn, wire>>
          BY <1>3, <2>2, Zenon DEF AllocateFresh, Retry, Goto
    <3>2. IdQuietStep
          BY <3>1 DEF IdQuietStep, Holding, Using, Sent, TypeOK
    <3> QED
        BY <3>2, QuietIdentify DEF IdInv
  <2> QED
      BY <2>1, <2>2
<1>4. ASSUME NEW q \in Queries, InsertSender(q) PROVE IdsIdentify'
  <2>1. /\ pc[q] = "insert" /\ pc' = [pc EXCEPT ![q] = "write"]
        /\ inflight' = [inflight EXCEPT ![conn[q]][id[q]] = q]
        /\ UNCHANGED <<id, conn, nextId, wire>>
        BY <1>4, Zenon DEF InsertSender, Goto
  <2>2. \A r \in Queries : /\ Holding(r)' <=> Holding(r)
                           /\ Sent(r)' <=> Sent(r)
                           /\ pc[r] = "write" => pc'[r] = "write"
        BY <2>1 DEF Holding, Using, Sent, TypeOK
  <2>3. IdsHandedOut' /\ IdsDistinct' /\ WireIsOwn'
        BY <2>1, <2>2
        DEF IdInv, IdsIdentify, IdsHandedOut, IdsDistinct, WireIsOwn
  <2>4. SendersRegistered'
    <3> SUFFICES ASSUME NEW r \in Queries, NEW c \in Conns, NEW i \in Ids,
                        inflight'[c][i] = r
                 PROVE  /\ conn'[r] = c /\ id'[r] = i
                        /\ (pc[r] = "write" \/ Sent(r))'
        BY Zenon DEF SendersRegistered
    <3>1. CASE c = conn[q] /\ i = id[q]
          BY <2>1, <3>1 DEF TypeOK
    <3>2. CASE ~(c = conn[q] /\ i = id[q])
      <4>1. inflight[c][i] = r
            BY <2>1, <3>2, SMTT(30) DEF TypeOK
      <4> QED
          BY <2>1, <2>2, <4>1 DEF IdInv, IdsIdentify, SendersRegistered
    <3> QED
        BY <3>1, <3>2, Zenon
  <2> QED
      BY <2>3, <2>4 DEF IdsIdentify
<1>5. ASSUME NEW q \in Queries, WriteQuery(q) PROVE IdsIdentify'
  <2> DEFINE own == [id |-> id[q], about |-> q]
  <2>1. /\ pc[q] = "write" /\ pc' = [pc EXCEPT ![q] = "wait"]
        /\ UNCHANGED <<id, conn, nextId, inflight>>
        BY <1>5, Zenon DEF WriteQuery, Goto
  <2>2. \A c \in Conns : \A m \in wire'[c] :
          m \in wire[c] \/ (c = conn[q] /\ m = own)
        BY <1>5, Zenon DEF WriteQuery, TypeOK
  <2>3. \A r \in Queries : /\ Holding(r)' <=> Holding(r)
                           /\ Sent(r)' <=> Sent(r) \/ r = q
                           /\ pc[r] = "write" => (pc[r] = "write" \/ Sent(r))'
        BY <2>1, Zenon DEF Holding, Using, Sent, TypeOK
  <2>4. Holding(q) /\ conn[q] \in Conns /\ own.id = id[q] /\ own.about = q
        BY <2>1, Zenon DEF Holding, Using, TypeOK
  <2>5. IdsHandedOut' /\ IdsDistinct'
        BY <2>1, <2>2, <2>3, <2>4 DEF IdInv, IdsIdentify, IdsHandedOut, IdsDistinct
  <2>6. WireIsOwn'
    <3> SUFFICES ASSUME NEW r \in Queries, NEW m \in wire'[conn'[r]],
                        Holding(r)', m.id = id'[r]
                 PROVE  m.about = r /\ Sent(r)'
        BY Zenon DEF WireIsOwn
    <3>1. Holding(r) /\ conn'[r] = conn[r] /\ id'[r] = id[r] /\ conn[r] \in Conns
          BY <2>1, <2>3 DEF TypeOK
    <3>2. CASE m \in wire[conn[r]]
          BY <2>3, <3>1, <3>2, Zenon DEF IdInv, IdsIdentify, WireIsOwn
    <3>3. CASE conn[r] = conn[q] /\ m = own
      <4>1. r = q
            BY <2>4, <3>1, <3>3, Zenon DEF IdInv, IdsIdentify, IdsDistinct
      <4> QED
          BY <2>3, <2>4, <3>3, <4>1, Zenon
    <3> QED
        BY <2>2, <3>1, <3>2, <3>3, Zenon
  <2>7. SendersRegistered'
    <3> SUFFICES ASSUME NEW r \in Queries, NEW c \in Conns, NEW i \in Ids,
                        inflight'[c][i] = r
                 PROVE  /\ conn'[r] = c /\ id'[r] = i
                        /\ (pc[r] = "write" \/ Sent(r))'
        BY Zenon DEF SendersRegistered
    <3>1. conn[r] = c /\ id[r] = i /\ (pc[r] = "write" \/ Sent(r))
      <4>1. SendersRegistered
            BY Zenon DEF IdInv, IdsIdentify
      <4>2. inflight[c][i] = r
            BY <2>1, Zenon
      <4> QED
          BY <4>1, <4>2, Zenon DEF SendersRegistered
    <3>2. (pc[r] = "write" \/ Sent(r))'
          BY <2>3, <3>1, Zenon
    <3> QED
        BY <2>1, <3>1, <3>2, Zenon
  <2> QED
      BY <2>5, <2>6, <2>7 DEF IdsIdentify
<1> QED
    BY <1>1, <1>2, <1>3, <1>4, <1>5, OthersIdQuiet

(* A sender in a slot is of the query that owns connection and id. *)
LEMMA SenderOwns ==
  ASSUME IdsIdentify
  PROVE  \A q \in Queries, c \in Conns, i \in Ids :
           inflight[c][i] = q => conn[q] = c /\ id[q] = i
BY Zenon DEF IdsIdentify, SendersRegistered

(* allocate_id leaves the channels alone. *)
LEMMA ChannelsAllocate ==
  ASSUME TypeOK, IdInv, NEW q \in Queries, NEW c \in Conns,
         AllocateId(q, c), nextId'[c] <= IdSpace,
         NEW label \in {"push", "insert"},
         pc' = [pc EXCEPT ![q] = label],
         UNCHANGED answer
  PROVE  ChannelsCarryOwn'
<1>1. PICK i \in Ids :
           /\ inflight' = [inflight EXCEPT ![c][i] = Placeholder]
           /\ id' = [id EXCEPT ![q] = i]
           /\ conn' = [conn EXCEPT ![q] = c]
      BY AllocateIdFresh
<1>2. ASSUME NEW r \in Queries, r # q, inflight[conn[r]][id[r]] # r
      PROVE  inflight'[conn'[r]][id'[r]] # r
  <2>1. conn'[r] = conn[r] /\ id'[r] = id[r] /\ conn[r] \in Conns /\ id[r] \in Ids
        BY <1>1, <1>2 DEF TypeOK
  <2> QED
      BY <1>1, <1>2, <2>1, ConstantsAssumption DEF TypeOK
<1>3. pc'[q] = label /\ \A r \in Queries \ {q} : pc'[r] = pc[r]
      BY DEF TypeOK
<1> QED
    BY <1>2, <1>3, Zenon DEF IdInv, ChannelsCarryOwn

(* A reply reaches the channel of the query that asked, in every step. *)
LEMMA ChannelsNext ==
  TypeOK /\ TypeOK' /\ IdInv /\ IdsNotReused' /\ [Next]_vars => ChannelsCarryOwn'
<1> SUFFICES ASSUME TypeOK, TypeOK', IdInv, IdsNotReused', [Next]_vars
             PROVE  ChannelsCarryOwn'
    OBVIOUS
<1>types. /\ pc \in [Queries -> PcLabels]
          /\ attempt \in [Queries -> {1, 2}]
          /\ conn \in [Queries -> Conns]
          /\ id \in [Queries -> Ids]
          /\ answer \in [Queries -> Messages \cup {None}]
          /\ inflight \in [Conns -> [Ids -> Queries \cup {None, Placeholder}]]
          /\ wire \in [Conns -> SUBSET Messages]
          BY DEF TypeOK
<1> USE <1>types DEF ChannelsCarryOwn, IdInv, Goto, queryVars, connVars, poolVars
<1>1. ASSUME NEW q \in Queries, ReuseLock(q) PROVE ChannelsCarryOwn'
      BY <1>1, Zenon DEF ReuseLock
<1>2. ASSUME NEW q \in Queries, LockOpen(q) PROVE ChannelsCarryOwn'
      BY <1>2, Zenon DEF LockOpen
<1>3. ASSUME NEW q \in Queries, CheckLimit(q) PROVE ChannelsCarryOwn'
  <2>1. UNCHANGED <<conn, id, answer, inflight>>
        BY <1>3, Zenon DEF CheckLimit
  <2>2. /\ pc'[q] \in {"lockOpen", "failed", "open"}
        /\ \A r \in Queries \ {q} : pc'[r] = pc[r]
        BY <1>3, Zenon DEF CheckLimit, Retry
  <2> QED
      BY <2>1, <2>2
<1>4. ASSUME NEW q \in Queries, PushConn(q) PROVE ChannelsCarryOwn'
      BY <1>4, Zenon DEF PushConn
<1>5. ASSUME NEW q \in Queries, Resolve(q) PROVE ChannelsCarryOwn'
      BY <1>5, Zenon DEF Resolve
<1>6. ASSUME NEW q \in Queries, ReuseMiss(q) PROVE ChannelsCarryOwn'
      BY <1>6, Zenon DEF ReuseMiss
<1>7. ASSUME NEW q \in Queries, LoadProxy(q) PROVE ChannelsCarryOwn'
      BY <1>7, Zenon DEF LoadProxy
<1>8. ASSUME NEW q \in Queries, ConnectFails(q) PROVE ChannelsCarryOwn'
      BY <1>8, Zenon DEF ConnectFails, Retry
<1>9. ASSUME NEW q \in Queries, Connected(q) PROVE ChannelsCarryOwn'
      BY <1>9, Zenon DEF Connected
<1>10. ASSUME NEW q \in Queries, AllocateFresh(q) PROVE ChannelsCarryOwn'
  <2> DEFINE c == <<q, attempt[q]>>
  <2>1. CASE CanAllocate(c)
    <3>1. /\ AllocateId(q, c) /\ pc' = [pc EXCEPT ![q] = "push"]
          /\ UNCHANGED answer
          BY <1>10, <2>1, Zenon DEF AllocateFresh
    <3>2. c \in Conns
          BY DEF Conns
    <3> QED
        BY <3>1, <3>2, ChannelsAllocate, Zenon DEF IdsNotReused
  <2>2. CASE ~CanAllocate(c)
        BY <1>10, <2>2, Zenon DEF AllocateFresh, Retry
  <2> QED
      BY <2>1, <2>2
<1>11. ASSUME NEW q \in Queries, InsertSender(q) PROVE ChannelsCarryOwn'
      BY <1>11, Zenon DEF InsertSender
<1>12. ASSUME NEW q \in Queries, WriteQuery(q) PROVE ChannelsCarryOwn'
      BY <1>12, Zenon DEF WriteQuery
<1>13. ASSUME NEW q \in Queries, WriteFails(q) PROVE ChannelsCarryOwn'
      BY <1>13, Zenon DEF WriteFails
<1>14. ASSUME NEW q \in Queries, TakeReply(q) PROVE ChannelsCarryOwn'
      BY <1>14 DEF TakeReply, Messages
<1>15. ASSUME NEW q \in Queries, ChannelClosed(q) PROVE ChannelsCarryOwn'
      BY <1>15, Zenon DEF ChannelClosed
<1>16. ASSUME NEW q \in Queries, QueryTimeout(q) PROVE ChannelsCarryOwn'
      BY <1>16, Zenon DEF QueryTimeout
<1>17. ASSUME NEW q \in Queries, DropId(q) PROVE ChannelsCarryOwn'
  <2>1. /\ inflight' = [inflight EXCEPT ![conn[q]][id[q]] = None]
        /\ pc'[q] \in {"lockOpen", "failed"}
        /\ \A r \in Queries \ {q} : pc'[r] = pc[r]
        /\ UNCHANGED <<id, conn, answer>>
        BY <1>17, Zenon DEF DropId, Retry
  <2>2. \A r \in Queries : inflight[conn[r]][id[r]] # r =>
                             inflight'[conn[r]][id[r]] # r
    <3> SUFFICES ASSUME NEW r \in Queries, inflight[conn[r]][id[r]] # r
                 PROVE  inflight'[conn[r]][id[r]] # r
        OBVIOUS
    <3>1. /\ conn[q] \in Conns /\ conn[r] \in Conns
          /\ id[q] \in Ids /\ id[r] \in Ids
          OBVIOUS
    <3>2. CASE conn[r] = conn[q] /\ id[r] = id[q]
      <4>1. inflight'[conn[r]][id[r]] = None
            BY <2>1, <3>1, <3>2, Zenon
      <4> QED
          BY <4>1, ConstantsAssumption, Zenon
    <3>3. CASE ~(conn[r] = conn[q] /\ id[r] = id[q])
      <4>1. inflight'[conn[r]][id[r]] = inflight[conn[r]][id[r]]
            BY <2>1, <3>1, <3>3
      <4> QED
          BY <4>1, Zenon
    <3> QED
        BY <3>2, <3>3, Zenon
  <2> QED
      BY <2>1, <2>2, Zenon
<1>18. ASSUME NEW q \in Queries, NEW c \in Conns, ReuseHit(q, c)
      PROVE  ChannelsCarryOwn'
  <2>1. /\ AllocateId(q, c) /\ pc' = [pc EXCEPT ![q] = "insert"]
        /\ UNCHANGED answer
        BY <1>18, Zenon DEF ReuseHit
  <2> QED
      BY <2>1, ChannelsAllocate, Zenon DEF IdsNotReused
<1>19. ASSUME NEW q \in Queries, NEW c \in Conns, ReuseFull(q, c)
      PROVE  ChannelsCarryOwn'
      BY <1>19, Zenon DEF ReuseFull
<1>20. ASSUME NEW c \in Conns, NEW m \in wire[c], ReadReply(c, m)
      PROVE  ChannelsCarryOwn'
  <2>1. /\ c \in Conns /\ m \in Messages
        /\ UNCHANGED <<pc, conn, id>>
        /\ inflight' = [inflight EXCEPT ![c][m.id] = None]
        /\ answer' = [q \in Queries |->
                        IF q = inflight[c][m.id] /\ pc[q] \in {"write", "wait"}
                          THEN m ELSE answer[q]]
        BY <1>20, Zenon DEF ReadReply
  <2>2. m.id \in Ids
        BY <2>1, Zenon DEF Messages
  <2> SUFFICES ASSUME NEW q \in Queries
               PROVE  /\ pc[q] = "write" => answer'[q] = None
                      /\ pc[q] = "wait" /\ answer'[q] # None =>
                           answer'[q].about = q /\ inflight'[conn[q]][id[q]] # q
                      /\ pc[q] = "answered" =>
                           answer'[q] = [id |-> OriginalId[q], about |-> q]
      BY <2>1
  <2>3. CASE q = inflight[c][m.id] /\ pc[q] \in {"write", "wait"}
    <3>1. conn[q] = c /\ id[q] = m.id
      <4>1. IdsIdentify /\ c \in Conns /\ inflight[c][m.id] = q
            BY <2>1, <2>3, Zenon
      <4> QED
          BY ONLY <2>2, <4>1, SenderOwns, q \in Queries, Zenon
    <3>2. m.about = q /\ Sent(q)
          BY <2>3, <3>1, Zenon DEF IdsIdentify, WireIsOwn, Holding, Using
    <3>3. pc[q] = "wait"
          BY <2>3, <3>2, Zenon DEF Sent
    <3>4. inflight'[conn[q]][id[q]] # q
      <4>1. inflight'[c][m.id] = None
            BY <2>1, <2>2, Zenon
      <4> QED
          BY <3>1, <4>1, ConstantsAssumption, Zenon
    <3>5. answer'[q] = m
          BY <2>1, <2>3, Zenon
    <3> QED
        BY <3>2, <3>3, <3>4, <3>5, Zenon
  <2>4. CASE ~(q = inflight[c][m.id] /\ pc[q] \in {"write", "wait"})
    <3>1. answer'[q] = answer[q]
          BY <2>1, <2>4
    <3>2. inflight[conn[q]][id[q]] # q => inflight'[conn[q]][id[q]] # q
      <4> SUFFICES ASSUME inflight[conn[q]][id[q]] # q
                   PROVE  inflight'[conn[q]][id[q]] # q
          BY <1>types, Zenon
      <4>1. conn[q] \in Conns /\ id[q] \in Ids
            OBVIOUS
      <4>2. CASE conn[q] = c /\ id[q] = m.id
        <5>1. inflight'[conn[q]][id[q]] = None
              BY <2>1, <2>2, <4>1, <4>2, Zenon
        <5> QED
            BY <5>1, ConstantsAssumption, Zenon
      <4>3. CASE ~(conn[q] = c /\ id[q] = m.id)
        <5>1. inflight'[conn[q]][id[q]] = inflight[conn[q]][id[q]]
              BY <2>1, <2>2, <4>1, <4>3
        <5> QED
            BY <5>1, Zenon
      <4> QED
          BY <4>2, <4>3, Zenon
    <3> QED
        BY <3>1, <3>2, Zenon
  <2> QED
      BY <2>3, <2>4
<1>21. ASSUME NEW c \in Conns, ReaderIdle(c) PROVE ChannelsCarryOwn'
      BY <1>21, Zenon DEF ReaderIdle
<1>22. ASSUME NEW c \in Conns, ReaderFails(c) PROVE ChannelsCarryOwn'
      BY <1>22, Zenon DEF ReaderFails
<1>23. ASSUME NEW c \in Conns, ReaderMarksDead(c) PROVE ChannelsCarryOwn'
      BY <1>23, Zenon DEF ReaderMarksDead
<1>24. ASSUME NEW c \in Conns, ReaderClears(c) PROVE ChannelsCarryOwn'
  <2>1. UNCHANGED <<pc, conn, id, answer>>
        BY <1>24, Zenon DEF ReaderClears
  <2>2. ASSUME NEW q \in Queries, inflight[conn[q]][id[q]] # q
        PROVE  inflight'[conn[q]][id[q]] # q
    <3>1. conn[q] \in Conns /\ id[q] \in Ids
          BY <1>types, Zenon
    <3>2. inflight'[conn[q]][id[q]] \in {inflight[conn[q]][id[q]], None}
          BY <1>24, <3>1 DEF ReaderClears
    <3> QED
        BY <2>2, <3>2, NotAQuery, Zenon
  <2> QED
      BY <2>1, <2>2
<1>25. ASSUME NEW c \in Conns, PruneDead(c) PROVE ChannelsCarryOwn'
      BY <1>25, Zenon DEF PruneDead
<1>26. ASSUME NEW c \in Conns, PruneIdle(c) PROVE ChannelsCarryOwn'
      BY <1>26, Zenon DEF PruneIdle
<1>27. ASSUME NEW c \in Conns, PruneKeep(c) PROVE ChannelsCarryOwn'
      BY <1>27, Zenon DEF PruneKeep
<1>28. CASE StoreProxy
      BY <1>28, Zenon DEF StoreProxy
<1>29. CASE ClearPool
      BY <1>29, Zenon DEF ClearPool
<1>30. CASE PruneLock
      BY <1>30, Zenon DEF PruneLock
<1>31. CASE PruneUnlock
      BY <1>31, Zenon DEF PruneUnlock
<1>32. CASE UNCHANGED vars
      BY <1>32, Zenon DEF vars
<1> QED
    BY <1>1, <1>2, <1>3, <1>4, <1>5, <1>6, <1>7, <1>8, <1>9, <1>10, <1>11,
       <1>12, <1>13, <1>14, <1>15, <1>16, <1>17, <1>18, <1>19, <1>20, <1>21,
       <1>22, <1>23, <1>24, <1>25, <1>26, <1>27, <1>28, <1>29, <1>30, <1>31,
       <1>32, Zenon DEF Next, QueryLocks, QueryRuns, Reader, PruneRuns

-----------------------------------------------------------------------------
(* The limits, and the connections left over by set_proxy *)

(* The first attempt that passed the limit check still has room in the pool. *)
RoomForOpener ==
  /\ IsFiniteSet(pool)
  /\ \A q \in Queries :
       Opening(q) /\ attempt[q] = 1 =>
         Cardinality(FirstAttempts(Target[q])) < MAX_CONNS_PER_TARGET

(* Outside set_proxy at most one connection through an earlier proxy is in
   the pool or, its proxy loaded, on the way there.                        *)
OneStaleOrPending ==
  reloader = "idle" =>
    /\ \A c, d \in pool : via[c] < proxy /\ via[d] < proxy => c = d
    /\ \A q \in Queries :
         /\ pc[q] \in {"connect", "alloc", "push"}
         /\ via[<<q, attempt[q]>>] < proxy
         => \A c \in pool : ~(via[c] < proxy)

(* A step that pools nothing and lets no first attempt past the limit check. *)
QuietStep ==
  /\ pool' \subseteq pool
  /\ \A q \in Queries :
       (Opening(q) /\ attempt[q] = 1)' => Opening(q) /\ attempt[q] = 1

LimitInv == RoomForOpener /\ FirstAttemptsWithinLimit

(* A push adds at most one connection. *)
LEMMA AtMostOneMore ==
  ASSUME NEW S, IsFiniteSet(S), NEW x
  PROVE  Cardinality(S \cup {x}) <= Cardinality(S) + 1
<1>1. Cardinality(S) \in Nat
      BY FS_CardinalityType
<1>2. Cardinality(S \cup {x}) = IF x \in S THEN Cardinality(S) ELSE Cardinality(S) + 1
      BY FS_AddElement
<1> QED
    BY <1>1, <1>2

(* Only CheckLimit and PushConn are not quiet in this sense. *)
LEMMA OthersQuiet ==
  TypeOK /\ OpenLockHeld /\ [Next]_vars =>
    QuietStep \/ \E q \in Queries : CheckLimit(q) \/ PushConn(q)
<1> SUFFICES ASSUME TypeOK, OpenLockHeld, [Next]_vars,
                    ~ \E q \in Queries : CheckLimit(q) \/ PushConn(q)
             PROVE  QuietStep
    OBVIOUS
<1>types. /\ pc \in [Queries -> PcLabels]
          /\ attempt \in [Queries -> {1, 2}]
          BY DEF TypeOK
<1> USE <1>types DEF OpenLockHeld, QuietStep, Opening, Goto, queryVars, connVars, poolVars
<1>1. ASSUME NEW q \in Queries, ReuseLock(q) PROVE QuietStep
      BY <1>1, Zenon DEF ReuseLock, Bucket
<1>2. ASSUME NEW q \in Queries, LockOpen(q) PROVE QuietStep
      BY <1>2, ConstantsAssumption DEF LockOpen
<1>3. ASSUME NEW q \in Queries, Resolve(q) PROVE QuietStep
      BY <1>3, Zenon DEF Resolve
<1>4. ASSUME NEW q \in Queries, ReuseMiss(q) PROVE QuietStep
      BY <1>4, Zenon DEF ReuseMiss
<1>5. ASSUME NEW q \in Queries, LoadProxy(q) PROVE QuietStep
      BY <1>5, Zenon DEF LoadProxy
<1>6. ASSUME NEW q \in Queries, ConnectFails(q) PROVE QuietStep
      BY <1>6, Zenon DEF ConnectFails, Retry
<1>7. ASSUME NEW q \in Queries, Connected(q) PROVE QuietStep
      BY <1>7, Zenon DEF Connected
<1>8. ASSUME NEW q \in Queries, AllocateFresh(q) PROVE QuietStep
      BY <1>8, Zenon DEF AllocateFresh, Retry
<1>9. ASSUME NEW q \in Queries, InsertSender(q) PROVE QuietStep
      BY <1>9, Zenon DEF InsertSender
<1>10. ASSUME NEW q \in Queries, WriteQuery(q) PROVE QuietStep
      BY <1>10, Zenon DEF WriteQuery
<1>11. ASSUME NEW q \in Queries, WriteFails(q) PROVE QuietStep
      BY <1>11, Zenon DEF WriteFails
<1>12. ASSUME NEW q \in Queries, TakeReply(q) PROVE QuietStep
      BY <1>12, Zenon DEF TakeReply
<1>13. ASSUME NEW q \in Queries, ChannelClosed(q) PROVE QuietStep
      BY <1>13, Zenon DEF ChannelClosed
<1>14. ASSUME NEW q \in Queries, QueryTimeout(q) PROVE QuietStep
      BY <1>14, Zenon DEF QueryTimeout
<1>15. ASSUME NEW q \in Queries, DropId(q) PROVE QuietStep
      BY <1>15, Zenon DEF DropId, Retry
<1>16. ASSUME NEW q \in Queries, NEW c \in Conns, ReuseHit(q, c)
      PROVE  QuietStep
      BY <1>16, Zenon DEF ReuseHit
<1>17. ASSUME NEW q \in Queries, NEW c \in Conns, ReuseFull(q, c)
      PROVE  QuietStep
      BY <1>17, Zenon DEF ReuseFull
<1>18. ASSUME NEW c \in Conns, NEW m \in wire[c], ReadReply(c, m)
      PROVE  QuietStep
      BY <1>18, Zenon DEF ReadReply
<1>19. ASSUME NEW c \in Conns, ReaderIdle(c) PROVE QuietStep
      BY <1>19, Zenon DEF ReaderIdle
<1>20. ASSUME NEW c \in Conns, ReaderFails(c) PROVE QuietStep
      BY <1>20, Zenon DEF ReaderFails
<1>21. ASSUME NEW c \in Conns, ReaderMarksDead(c) PROVE QuietStep
      BY <1>21, Zenon DEF ReaderMarksDead
<1>22. ASSUME NEW c \in Conns, ReaderClears(c) PROVE QuietStep
      BY <1>22, Zenon DEF ReaderClears
<1>23. ASSUME NEW c \in Conns, PruneDead(c) PROVE QuietStep
      BY <1>23, Zenon DEF PruneDead
<1>24. ASSUME NEW c \in Conns, PruneIdle(c) PROVE QuietStep
      BY <1>24, Zenon DEF PruneIdle
<1>25. ASSUME NEW c \in Conns, PruneKeep(c) PROVE QuietStep
      BY <1>25, Zenon DEF PruneKeep
<1>26. ASSUME StoreProxy PROVE QuietStep
      BY <1>26, Zenon DEF StoreProxy
<1>27. ASSUME ClearPool PROVE QuietStep
      BY <1>27, Zenon DEF ClearPool
<1>28. ASSUME PruneLock PROVE QuietStep
      BY <1>28, Zenon DEF PruneLock
<1>29. ASSUME PruneUnlock PROVE QuietStep
      BY <1>29, Zenon DEF PruneUnlock
<1>30. ASSUME UNCHANGED vars PROVE QuietStep
      BY <1>30, Zenon DEF vars
<1> QED
    BY <1>1, <1>2, <1>3, <1>4, <1>5, <1>6, <1>7, <1>8, <1>9, <1>10, <1>11,
       <1>12, <1>13, <1>14, <1>15, <1>16, <1>17, <1>18, <1>19, <1>20, <1>21,
       <1>22, <1>23, <1>24, <1>25, <1>26, <1>27, <1>28, <1>29, <1>30, Zenon DEF Next,
       QueryLocks, QueryRuns, Reader, PruneRuns

(* A smaller pool has no more first attempts of a server. *)
LEMMA SmallerPool ==
  ASSUME IsFiniteSet(pool), pool' \subseteq pool, NEW s \in Servers
  PROVE  /\ IsFiniteSet(pool')
         /\ Cardinality(FirstAttempts(s)) \in Nat
         /\ Cardinality(FirstAttempts(s)') \in Nat
         /\ Cardinality(FirstAttempts(s)') <= Cardinality(FirstAttempts(s))
<1>1. /\ FirstAttempts(s)' \subseteq FirstAttempts(s)
      /\ FirstAttempts(s) \subseteq pool
      BY DEF FirstAttempts, Bucket
<1>2. IsFiniteSet(pool') /\ IsFiniteSet(FirstAttempts(s))
      BY <1>1, FS_Subset
<1> QED
    BY <1>1, <1>2, FS_Subset, FS_CardinalityType

(* Quiet steps keep the limit. *)
LEMMA QuietLimit == TypeOK /\ LimitInv /\ QuietStep => LimitInv'
<1> SUFFICES ASSUME TypeOK, LimitInv, QuietStep PROVE LimitInv'
    OBVIOUS
<1>1. ASSUME NEW s \in Servers
      PROVE  /\ Cardinality(FirstAttempts(s)) \in Nat
             /\ Cardinality(FirstAttempts(s)') \in Nat
             /\ Cardinality(FirstAttempts(s)') <= Cardinality(FirstAttempts(s))
      BY SmallerPool DEF LimitInv, RoomForOpener, QuietStep
<1>2. IsFiniteSet(pool')
      BY FS_Subset DEF LimitInv, RoomForOpener, QuietStep
<1>3. ASSUME NEW q \in Queries, Opening(q)', attempt'[q] = 1
      PROVE  Cardinality(FirstAttempts(Target[q])') < MAX_CONNS_PER_TARGET
  <2>1. Cardinality(FirstAttempts(Target[q])) < MAX_CONNS_PER_TARGET
        BY <1>3, Zenon DEF LimitInv, RoomForOpener, QuietStep
  <2>2. Target[q] \in Servers /\ MAX_CONNS_PER_TARGET \in Nat
        BY ConstantsAssumption
  <2> QED
      BY <1>1, <2>1, <2>2
<1>4. ASSUME NEW s \in Servers
      PROVE  Cardinality(FirstAttempts(s)') <= MAX_CONNS_PER_TARGET
  <2>1. MAX_CONNS_PER_TARGET \in Nat
        BY ConstantsAssumption
  <2> QED
      BY <1>1, <2>1 DEF LimitInv, FirstAttemptsWithinLimit
<1> QED
    BY <1>2, <1>3, <1>4 DEF LimitInv, RoomForOpener, FirstAttemptsWithinLimit

(* So do the check and the push, as one query opens at a time. *)
LEMMA LimitNext ==
  TypeOK /\ OpenLockHeld /\ OpenedOnce /\ LimitInv /\ [Next]_vars => LimitInv'
<1> SUFFICES ASSUME TypeOK, OpenLockHeld, OpenedOnce, LimitInv, [Next]_vars
             PROVE  LimitInv'
    OBVIOUS
<1>1. CASE QuietStep
      BY <1>1, QuietLimit
<1>2. ASSUME NEW q \in Queries, CheckLimit(q) PROVE LimitInv'
  <2> DEFINE kept == {c \in Bucket(Target[q]) : alive[c]}
  <2>1. CASE Retry(q)
    <3>1. QuietStep
          BY <1>2, <2>1 DEF CheckLimit, QuietStep, Retry, Goto, Opening, TypeOK
    <3> QED
        BY <3>1, QuietLimit
  <2>2. CASE ~Retry(q)
    <3>1. /\ pool' = pool \ (Bucket(Target[q]) \ kept)
          /\ ~(Cardinality(kept) >= MAX_CONNS_PER_TARGET)
          /\ pc[q] = "limit" /\ pc' = [pc EXCEPT ![q] = "open"]
          /\ UNCHANGED attempt
          BY <1>2, <2>2 DEF CheckLimit, Goto
    <3>2. pool' \subseteq pool
          BY <3>1
    <3>3. /\ IsFiniteSet(kept) /\ Cardinality(kept) \in Nat
          /\ FirstAttempts(Target[q])' \subseteq kept
      <4>1. kept \subseteq pool
            BY DEF Bucket
      <4>2. FirstAttempts(Target[q])' \subseteq kept
            BY <3>1 DEF FirstAttempts, Bucket
      <4> QED
          BY <4>1, <4>2, FS_Subset, FS_CardinalityType DEF LimitInv, RoomForOpener
    <3>4. /\ Cardinality(FirstAttempts(Target[q])') \in Nat
          /\ Cardinality(FirstAttempts(Target[q])') < MAX_CONNS_PER_TARGET
      <4>1. /\ Cardinality(FirstAttempts(Target[q])') <= Cardinality(kept)
            /\ Cardinality(FirstAttempts(Target[q])') \in Nat
            BY <3>3, FS_Subset, FS_CardinalityType
      <4>2. MAX_CONNS_PER_TARGET \in Nat
            BY ConstantsAssumption
      <4> QED
          BY <3>1, <3>3, <4>1, <4>2
    <3>5. ASSUME NEW r \in Queries, Opening(r)'
          PROVE  r = q
          BY <1>2, <3>1, <3>5 DEF Opening, OpenLockHeld, TypeOK
    <3>6. ASSUME NEW s \in Servers
          PROVE  Cardinality(FirstAttempts(s)') <= MAX_CONNS_PER_TARGET
      <4>1. MAX_CONNS_PER_TARGET \in Nat
            BY ConstantsAssumption
      <4>2. /\ Cardinality(FirstAttempts(s)) \in Nat
            /\ Cardinality(FirstAttempts(s)') \in Nat
            /\ Cardinality(FirstAttempts(s)') <= Cardinality(FirstAttempts(s))
            BY <3>2, SmallerPool, Zenon DEF LimitInv, RoomForOpener
      <4>3. Cardinality(FirstAttempts(s)) <= MAX_CONNS_PER_TARGET
            BY Zenon DEF LimitInv, FirstAttemptsWithinLimit
      <4> QED
          BY <4>1, <4>2, <4>3
    <3>7. IsFiniteSet(pool')
          BY <3>2, FS_Subset DEF LimitInv, RoomForOpener
    <3> QED
        BY <3>4, <3>5, <3>6, <3>7
        DEF LimitInv, RoomForOpener, FirstAttemptsWithinLimit
  <2> QED
      BY <2>1, <2>2
<1>3. ASSUME NEW q \in Queries, PushConn(q) PROVE LimitInv'
  <2> DEFINE c == <<q, attempt[q]>>
  <2>1. /\ pc[q] = "push" /\ pc' = [pc EXCEPT ![q] = "insert"]
        /\ pool' = pool \cup {c}
        /\ UNCHANGED attempt
        BY <1>3, Zenon DEF PushConn, Goto, OpenedOnce
  <2>2. IsFiniteSet(pool')
        BY <2>1, FS_AddElement, Zenon DEF LimitInv, RoomForOpener
  <2>3. ASSUME NEW r \in Queries PROVE ~Opening(r)'
        BY <2>1 DEF Opening, OpenLockHeld, TypeOK
  <2>4. ASSUME NEW s \in Servers
        PROVE  Cardinality(FirstAttempts(s)') <= MAX_CONNS_PER_TARGET
    <3>1. IsFiniteSet(FirstAttempts(s))
          BY FS_Subset DEF LimitInv, RoomForOpener, FirstAttempts, Bucket
    <3>2. CASE attempt[q] = 1 /\ Target[q] = s
      <4>1. FirstAttempts(s)' = FirstAttempts(s) \cup {c}
            BY <2>1, <3>2 DEF FirstAttempts, Bucket, OpenedBy, Attempt
      <4>2. Cardinality(FirstAttempts(s)) < MAX_CONNS_PER_TARGET
            BY <2>1, <3>2 DEF LimitInv, RoomForOpener, Opening
      <4>3. /\ Cardinality(FirstAttempts(s)) \in Nat
            /\ MAX_CONNS_PER_TARGET \in Nat
            BY <3>1, FS_CardinalityType, ConstantsAssumption
      <4>4. Cardinality(FirstAttempts(s) \cup {c}) <= Cardinality(FirstAttempts(s)) + 1
            BY <3>1, AtMostOneMore, Zenon
      <4>5. Cardinality(FirstAttempts(s) \cup {c}) \in Nat
            BY <3>1, FS_AddElement, FS_CardinalityType, Zenon
      <4> QED
          BY <4>1, <4>2, <4>3, <4>4, <4>5
    <3>3. CASE ~(attempt[q] = 1 /\ Target[q] = s)
      <4>1. FirstAttempts(s)' = FirstAttempts(s)
            BY <2>1, <3>3 DEF FirstAttempts, Bucket, OpenedBy, Attempt
      <4> QED
          BY <4>1 DEF LimitInv, FirstAttemptsWithinLimit
    <3> QED
        BY <3>2, <3>3
  <2> QED
      BY <2>2, <2>3, <2>4 DEF LimitInv, RoomForOpener, FirstAttemptsWithinLimit
<1> QED
    BY <1>1, <1>2, <1>3, OthersQuiet

(* The connection of an attempt under way is not in the pool yet. *)
LEMMA NotPooledBefore ==
  ASSUME TypeOK, OpenedOnce, NEW q \in Queries, ~PastOpen(q)
  PROVE  <<q, attempt[q]>> \in Conns /\ <<q, attempt[q]>> \notin pool
<1>1. attempt[q] \in {1, 2}
      BY DEF TypeOK
<1>2. CASE attempt[q] = 1
  <2>1. <<q, 1>> \in pool => 1 < attempt[q] \/ (1 = attempt[q] /\ PastOpen(q))
        BY Zenon DEF OpenedOnce
  <2> QED
      BY <1>2, <2>1 DEF Conns
<1>3. CASE attempt[q] = 2
  <2>1. <<q, 2>> \in pool => 2 < attempt[q] \/ (2 = attempt[q] /\ PastOpen(q))
        BY Zenon DEF OpenedOnce
  <2> QED
      BY <1>3, <2>1 DEF Conns
<1> QED
    BY <1>1, <1>2, <1>3

(* The one connection of the opener is all that set_proxy can miss. *)
LEMMA OneStaleNext ==
  TypeOK /\ OpenLockHeld /\ OpenedOnce /\ OneStaleOrPending /\ [Next]_vars => OneStaleOrPending'
<1> SUFFICES ASSUME TypeOK, OpenLockHeld, OpenedOnce, OneStaleOrPending, [Next]_vars
             PROVE  OneStaleOrPending'
    OBVIOUS
<1>types. /\ pc \in [Queries -> PcLabels]
          /\ attempt \in [Queries -> {1, 2}]
          /\ via \in [Conns -> Nat]
          /\ proxy \in Nat
          /\ pool \subseteq Conns
          BY DEF TypeOK
<1> USE <1>types DEF OneStaleOrPending, Goto, queryVars, connVars, poolVars
<1>1. ASSUME NEW q \in Queries, ReuseLock(q) PROVE OneStaleOrPending'
      BY <1>1, Zenon DEF ReuseLock, Bucket
<1>2. ASSUME NEW q \in Queries, LockOpen(q) PROVE OneStaleOrPending'
      BY <1>2, Zenon DEF LockOpen
<1>3. ASSUME NEW q \in Queries, CheckLimit(q) PROVE OneStaleOrPending'
      BY <1>3, ZenonT(30) DEF CheckLimit, Retry
<1>4. ASSUME NEW q \in Queries, PushConn(q) PROVE OneStaleOrPending'
  <2>1. /\ pc[q] = "push" /\ pc' = [pc EXCEPT ![q] = "insert"]
        /\ pool' = pool \cup {<<q, attempt[q]>>}
        /\ UNCHANGED <<attempt, via, proxy, reloader>>
        BY <1>4, Zenon DEF PushConn, OpenedOnce
  <2>2. ASSUME NEW r \in Queries
        PROVE  ~(pc'[r] \in {"connect", "alloc", "push"})
        BY <2>1 DEF OpenLockHeld, Opening
  <2> QED
      BY <2>1, <2>2
<1>5. ASSUME NEW q \in Queries, Resolve(q) PROVE OneStaleOrPending'
      BY <1>5, Zenon DEF Resolve
<1>6. ASSUME NEW q \in Queries, ReuseMiss(q) PROVE OneStaleOrPending'
      BY <1>6, Zenon DEF ReuseMiss
<1>7. ASSUME NEW q \in Queries, LoadProxy(q) PROVE OneStaleOrPending'
  <2> DEFINE c == <<q, attempt[q]>>
  <2>1. /\ pc[q] = "open" /\ pc' = [pc EXCEPT ![q] = "connect"]
        /\ via' = [via EXCEPT ![c] = proxy]
        /\ UNCHANGED <<attempt, pool, proxy, reloader>>
        BY <1>7, Zenon DEF LoadProxy
  <2>2. c \in Conns /\ c \notin pool
        BY <2>1, NotPooledBefore DEF PastOpen, Using, Finished
  <2>3. ASSUME NEW r \in Queries, r # q
        PROVE  ~(pc'[r] \in {"connect", "alloc", "push"})
        BY <2>1, <2>3 DEF OpenLockHeld, Opening
  <2>4. \A d \in pool : via'[d] = via[d]
        BY <2>1, <2>2
  <2>5. ~(via'[c] < proxy')
        BY <2>1, <2>2
  <2> QED
      BY <2>1, <2>3, <2>4, <2>5
<1>8. ASSUME NEW q \in Queries, ConnectFails(q) PROVE OneStaleOrPending'
      BY <1>8, Zenon DEF ConnectFails, Retry
<1>9. ASSUME NEW q \in Queries, Connected(q) PROVE OneStaleOrPending'
      BY <1>9, Zenon DEF Connected
<1>10. ASSUME NEW q \in Queries, AllocateFresh(q) PROVE OneStaleOrPending'
      BY <1>10, Zenon DEF AllocateFresh, Retry
<1>11. ASSUME NEW q \in Queries, InsertSender(q) PROVE OneStaleOrPending'
      BY <1>11, Zenon DEF InsertSender
<1>12. ASSUME NEW q \in Queries, WriteQuery(q) PROVE OneStaleOrPending'
      BY <1>12, Zenon DEF WriteQuery
<1>13. ASSUME NEW q \in Queries, WriteFails(q) PROVE OneStaleOrPending'
      BY <1>13, Zenon DEF WriteFails
<1>14. ASSUME NEW q \in Queries, TakeReply(q) PROVE OneStaleOrPending'
      BY <1>14, Zenon DEF TakeReply
<1>15. ASSUME NEW q \in Queries, ChannelClosed(q) PROVE OneStaleOrPending'
      BY <1>15, Zenon DEF ChannelClosed
<1>16. ASSUME NEW q \in Queries, QueryTimeout(q) PROVE OneStaleOrPending'
      BY <1>16, Zenon DEF QueryTimeout
<1>17. ASSUME NEW q \in Queries, DropId(q) PROVE OneStaleOrPending'
      BY <1>17, Zenon DEF DropId, Retry
<1>18. ASSUME NEW q \in Queries, NEW c \in Conns, ReuseHit(q, c)
      PROVE  OneStaleOrPending'
      BY <1>18, Zenon DEF ReuseHit
<1>19. ASSUME NEW q \in Queries, NEW c \in Conns, ReuseFull(q, c)
      PROVE  OneStaleOrPending'
      BY <1>19, Zenon DEF ReuseFull
<1>20. ASSUME NEW c \in Conns, NEW m \in wire[c], ReadReply(c, m)
      PROVE  OneStaleOrPending'
      BY <1>20, Zenon DEF ReadReply
<1>21. ASSUME NEW c \in Conns, ReaderIdle(c) PROVE OneStaleOrPending'
      BY <1>21, Zenon DEF ReaderIdle
<1>22. ASSUME NEW c \in Conns, ReaderFails(c) PROVE OneStaleOrPending'
      BY <1>22, Zenon DEF ReaderFails
<1>23. ASSUME NEW c \in Conns, ReaderMarksDead(c) PROVE OneStaleOrPending'
      BY <1>23, Zenon DEF ReaderMarksDead
<1>24. ASSUME NEW c \in Conns, ReaderClears(c) PROVE OneStaleOrPending'
      BY <1>24, Zenon DEF ReaderClears
<1>25. ASSUME NEW c \in Conns, PruneDead(c) PROVE OneStaleOrPending'
      BY <1>25, Zenon DEF PruneDead
<1>26. ASSUME NEW c \in Conns, PruneIdle(c) PROVE OneStaleOrPending'
      BY <1>26, Zenon DEF PruneIdle
<1>27. ASSUME NEW c \in Conns, PruneKeep(c) PROVE OneStaleOrPending'
      BY <1>27, Zenon DEF PruneKeep
<1>28. CASE StoreProxy
      BY <1>28, Zenon DEF StoreProxy
<1>29. CASE ClearPool
      BY <1>29, Zenon DEF ClearPool
<1>30. CASE PruneLock
      BY <1>30, Zenon DEF PruneLock
<1>31. CASE PruneUnlock
      BY <1>31, Zenon DEF PruneUnlock
<1>32. CASE UNCHANGED vars
      BY <1>32, Zenon DEF vars
<1> QED
    BY <1>1, <1>2, <1>3, <1>4, <1>5, <1>6, <1>7, <1>8, <1>9, <1>10, <1>11,
       <1>12, <1>13, <1>14, <1>15, <1>16, <1>17, <1>18, <1>19, <1>20, <1>21,
       <1>22, <1>23, <1>24, <1>25, <1>26, <1>27, <1>28, <1>29, <1>30, <1>31,
       <1>32, Zenon DEF Next, QueryLocks, QueryRuns, Reader, PruneRuns

-----------------------------------------------------------------------------
(* Slots *)

(* A connection whose reader has left is never opened again. *)
GoneStays == \A c \in Conns : reader[c] = "gone" => reader'[c] = "gone"

(* A connection that is yet to be opened has no reader. *)
LEMMA NoReaderBefore ==
  ASSUME TypeOK, OpenedOnce, NEW q \in Queries,
         ~PastOpen(q), ~(pc[q] \in {"alloc", "push"})
  PROVE  reader[<<q, attempt[q]>>] = "none"
<1>1. attempt[q] \in {1, 2}
      BY DEF TypeOK
<1>2. CASE attempt[q] = 1
  <2>1. reader[<<q, 1>>] # "none" => 1 < attempt[q] \/
          (1 = attempt[q] /\ (PastOpen(q) \/ pc[q] \in {"alloc", "push"}))
        BY Zenon DEF OpenedOnce
  <2> QED
      BY <1>2, <2>1
<1>3. CASE attempt[q] = 2
  <2>1. reader[<<q, 2>>] # "none" => 2 < attempt[q] \/
          (2 = attempt[q] /\ (PastOpen(q) \/ pc[q] \in {"alloc", "push"}))
        BY Zenon DEF OpenedOnce
  <2> QED
      BY <1>3, <2>1
<1> QED
    BY <1>1, <1>2, <1>3

(* No step starts a second reader. *)
LEMMA GoneStaysGone ==
  TypeOK /\ OpenedOnce /\ [Next]_vars => GoneStays
<1> SUFFICES ASSUME TypeOK, OpenedOnce, [Next]_vars PROVE GoneStays
    OBVIOUS
<1>types. /\ reader \in [Conns -> {"none", "reading", "leaving", "clearing", "gone"}]
          BY DEF TypeOK
<1> USE <1>types DEF GoneStays, queryVars, connVars, poolVars
<1>1. ASSUME NEW q \in Queries, ReuseLock(q) PROVE GoneStays
      BY <1>1, Zenon DEF ReuseLock
<1>2. ASSUME NEW q \in Queries, LockOpen(q) PROVE GoneStays
      BY <1>2, Zenon DEF LockOpen
<1>3. ASSUME NEW q \in Queries, CheckLimit(q) PROVE GoneStays
      BY <1>3, Zenon DEF CheckLimit
<1>4. ASSUME NEW q \in Queries, PushConn(q) PROVE GoneStays
      BY <1>4, Zenon DEF PushConn
<1>5. ASSUME NEW q \in Queries, Resolve(q) PROVE GoneStays
      BY <1>5, Zenon DEF Resolve
<1>6. ASSUME NEW q \in Queries, ReuseMiss(q) PROVE GoneStays
      BY <1>6, Zenon DEF ReuseMiss
<1>7. ASSUME NEW q \in Queries, LoadProxy(q) PROVE GoneStays
      BY <1>7, Zenon DEF LoadProxy
<1>8. ASSUME NEW q \in Queries, ConnectFails(q) PROVE GoneStays
      BY <1>8, Zenon DEF ConnectFails
<1>9. ASSUME NEW q \in Queries, Connected(q) PROVE GoneStays
  <2>1. /\ pc[q] = "connect"
        /\ reader' = [reader EXCEPT ![<<q, attempt[q]>>] = "reading"]
        BY <1>9, Zenon DEF Connected
  <2>2. reader[<<q, attempt[q]>>] = "none"
        BY <2>1, NoReaderBefore DEF PastOpen, Using, Finished
  <2> QED
      BY <2>1, <2>2
<1>10. ASSUME NEW q \in Queries, AllocateFresh(q) PROVE GoneStays
      BY <1>10, Zenon DEF AllocateFresh
<1>11. ASSUME NEW q \in Queries, InsertSender(q) PROVE GoneStays
      BY <1>11, Zenon DEF InsertSender
<1>12. ASSUME NEW q \in Queries, WriteQuery(q) PROVE GoneStays
      BY <1>12, Zenon DEF WriteQuery
<1>13. ASSUME NEW q \in Queries, WriteFails(q) PROVE GoneStays
      BY <1>13, Zenon DEF WriteFails
<1>14. ASSUME NEW q \in Queries, TakeReply(q) PROVE GoneStays
      BY <1>14, Zenon DEF TakeReply
<1>15. ASSUME NEW q \in Queries, ChannelClosed(q) PROVE GoneStays
      BY <1>15, Zenon DEF ChannelClosed
<1>16. ASSUME NEW q \in Queries, QueryTimeout(q) PROVE GoneStays
      BY <1>16, Zenon DEF QueryTimeout
<1>17. ASSUME NEW q \in Queries, DropId(q) PROVE GoneStays
      BY <1>17, Zenon DEF DropId
<1>18. ASSUME NEW q \in Queries, NEW c \in Conns, ReuseHit(q, c)
      PROVE  GoneStays
      BY <1>18, Zenon DEF ReuseHit
<1>19. ASSUME NEW q \in Queries, NEW c \in Conns, ReuseFull(q, c)
      PROVE  GoneStays
      BY <1>19, Zenon DEF ReuseFull
<1>20. ASSUME NEW c \in Conns, NEW m \in wire[c], ReadReply(c, m)
      PROVE  GoneStays
      BY <1>20, Zenon DEF ReadReply
<1>21. ASSUME NEW c \in Conns, ReaderIdle(c) PROVE GoneStays
      BY <1>21, Zenon DEF ReaderIdle
<1>22. ASSUME NEW c \in Conns, ReaderFails(c) PROVE GoneStays
      BY <1>22, Zenon DEF ReaderFails
<1>23. ASSUME NEW c \in Conns, ReaderMarksDead(c) PROVE GoneStays
      BY <1>23, Zenon DEF ReaderMarksDead
<1>24. ASSUME NEW c \in Conns, ReaderClears(c) PROVE GoneStays
      BY <1>24, Zenon DEF ReaderClears
<1>25. ASSUME NEW c \in Conns, PruneDead(c) PROVE GoneStays
      BY <1>25, Zenon DEF PruneDead
<1>26. ASSUME NEW c \in Conns, PruneIdle(c) PROVE GoneStays
      BY <1>26, Zenon DEF PruneIdle
<1>27. ASSUME NEW c \in Conns, PruneKeep(c) PROVE GoneStays
      BY <1>27, Zenon DEF PruneKeep
<1>28. ASSUME StoreProxy PROVE GoneStays
      BY <1>28, Zenon DEF StoreProxy
<1>29. ASSUME ClearPool PROVE GoneStays
      BY <1>29, Zenon DEF ClearPool
<1>30. ASSUME PruneLock PROVE GoneStays
      BY <1>30, Zenon DEF PruneLock
<1>31. ASSUME PruneUnlock PROVE GoneStays
      BY <1>31, Zenon DEF PruneUnlock
<1>32. ASSUME UNCHANGED vars PROVE GoneStays
      BY <1>32, Zenon DEF vars
<1> QED
    BY <1>1, <1>2, <1>3, <1>4, <1>5, <1>6, <1>7, <1>8, <1>9, <1>10, <1>11,
       <1>12, <1>13, <1>14, <1>15, <1>16, <1>17, <1>18, <1>19, <1>20, <1>21,
       <1>22, <1>23, <1>24, <1>25, <1>26, <1>27, <1>28, <1>29, <1>30, <1>31,
       <1>32, Zenon DEF Next, QueryLocks, QueryRuns, Reader, PruneRuns

(* RegisteredUntilCleared, without its condition, for one query. *)
Registered(q) ==
  /\ pc[q] \in {"push", "insert"} => inflight[conn[q]][id[q]] = Placeholder
  /\ pc[q] \in {"write", "wait"} /\ answer[q] = None =>
       inflight[conn[q]][id[q]] = q

RegInv == \A q \in Queries : reader[conn[q]] # "gone" => Registered(q)

(* allocate_id takes a slot of nobody's and leaves a placeholder in it. *)
LEMMA RegAllocate ==
  ASSUME TypeOK, TypeOK', IdInv, RegInv, GoneStays,
         NEW q \in Queries, NEW c \in Conns,
         AllocateId(q, c), nextId'[c] <= IdSpace,
         NEW label \in {"push", "insert"},
         pc' = [pc EXCEPT ![q] = label],
         UNCHANGED answer
  PROVE  RegInv'
<1>1. PICK i \in Ids :
           /\ nextId[c] <= i
           /\ inflight' = [inflight EXCEPT ![c][i] = Placeholder]
           /\ id' = [id EXCEPT ![q] = i]
           /\ conn' = [conn EXCEPT ![q] = c]
      BY AllocateIdFresh
<1>2. pc'[q] = label /\ inflight'[conn'[q]][id'[q]] = Placeholder
      BY <1>1, ZenonT(30) DEF TypeOK
<1>3. ASSUME NEW r \in Queries, r # q, pc[r] \in {"push", "insert", "write", "wait"}
      PROVE  inflight'[conn'[r]][id'[r]] = inflight[conn[r]][id[r]]
  <2>1. conn'[r] = conn[r] /\ id'[r] = id[r] /\ conn[r] \in Conns /\ id[r] \in Ids
        BY <1>1, <1>3 DEF TypeOK
  <2>2. id[r] < nextId[conn[r]]
    <3>1. Holding(r)
          BY <1>3 DEF Holding, Using
    <3> QED
        BY <3>1, Zenon DEF IdInv, IdsIdentify, IdsHandedOut
  <2>3. nextId[conn[r]] \in Nat /\ id[r] \in Nat /\ i \in Nat
    <3>1. nextId \in [Conns -> Nat]
          BY DEF TypeOK
    <3>2. Ids \subseteq Nat
          BY ConstantsAssumption DEF Ids
    <3> QED
        BY <1>1, <2>1, <3>1, <3>2
  <2>4. ~(conn[r] = c /\ id[r] = i)
        BY <1>1, <2>2, <2>3
  <2> QED
      BY <1>1, <2>1, <2>4 DEF TypeOK
<1>4. \A r \in Queries \ {q} : pc'[r] = pc[r] /\ conn'[r] = conn[r] /\ conn[r] \in Conns
      BY <1>1, ZenonT(30) DEF TypeOK
<1> SUFFICES ASSUME NEW r \in Queries, reader'[conn'[r]] # "gone" PROVE Registered(r)'
    BY DEF RegInv
<1>5. CASE r = q
      BY <1>2, <1>5 DEF Registered
<1>6. CASE r # q
  <2>1. Registered(r)
        BY <1>4, <1>6 DEF RegInv, GoneStays
  <2> QED
      BY <1>3, <1>4, <1>6, <2>1 DEF Registered
<1> QED
    BY <1>5, <1>6

(* Slots stay their queries' own in every step. *)
LEMMA RegNext ==
  TypeOK /\ TypeOK' /\ IdInv /\ RegInv /\ GoneStays /\ IdsNotReused' /\ [Next]_vars => RegInv'
<1> SUFFICES ASSUME TypeOK, TypeOK', IdInv, RegInv, GoneStays, IdsNotReused', [Next]_vars
             PROVE  RegInv'
    OBVIOUS
<1>types. /\ pc \in [Queries -> PcLabels]
          /\ attempt \in [Queries -> {1, 2}]
          /\ conn \in [Queries -> Conns]
          /\ id \in [Queries -> Ids]
          /\ answer \in [Queries -> Messages \cup {None}]
          /\ inflight \in [Conns -> [Ids -> Queries \cup {None, Placeholder}]]
          /\ wire \in [Conns -> SUBSET Messages]
          /\ reader \in [Conns -> {"none", "reading", "leaving", "clearing", "gone"}]
          BY DEF TypeOK
<1> USE <1>types DEF RegInv, Registered, GoneStays, Goto, queryVars, connVars, poolVars
<1>1. ASSUME NEW q \in Queries, ReuseLock(q) PROVE RegInv'
      BY <1>1, Zenon DEF ReuseLock
<1>2. ASSUME NEW q \in Queries, LockOpen(q) PROVE RegInv'
      BY <1>2, Zenon DEF LockOpen
<1>3. ASSUME NEW q \in Queries, CheckLimit(q) PROVE RegInv'
      BY <1>3, Zenon DEF CheckLimit, Retry
<1>4. ASSUME NEW q \in Queries, PushConn(q) PROVE RegInv'
      BY <1>4, Zenon DEF PushConn
<1>5. ASSUME NEW q \in Queries, Resolve(q) PROVE RegInv'
      BY <1>5, ZenonT(30) DEF Resolve
<1>6. ASSUME NEW q \in Queries, ReuseMiss(q) PROVE RegInv'
      BY <1>6, Zenon DEF ReuseMiss
<1>7. ASSUME NEW q \in Queries, LoadProxy(q) PROVE RegInv'
      BY <1>7, Zenon DEF LoadProxy
<1>8. ASSUME NEW q \in Queries, ConnectFails(q) PROVE RegInv'
      BY <1>8, Zenon DEF ConnectFails, Retry
<1>9. ASSUME NEW q \in Queries, Connected(q) PROVE RegInv'
      BY <1>9, ZenonT(30) DEF Connected, Conns
<1>10. ASSUME NEW q \in Queries, AllocateFresh(q) PROVE RegInv'
  <2> DEFINE c == <<q, attempt[q]>>
  <2>1. CASE CanAllocate(c)
    <3>1. /\ AllocateId(q, c) /\ pc' = [pc EXCEPT ![q] = "push"]
          /\ UNCHANGED answer
          BY <1>10, <2>1 DEF AllocateFresh
    <3>2. c \in Conns
          BY DEF Conns
    <3> QED
        BY <3>1, <3>2, RegAllocate, Zenon DEF IdsNotReused
  <2>2. CASE ~CanAllocate(c)
        BY <1>10, <2>2 DEF AllocateFresh, Retry
  <2> QED
      BY <2>1, <2>2
<1>11. ASSUME NEW q \in Queries, InsertSender(q) PROVE RegInv'
  <2>1. /\ pc[q] = "insert" /\ pc' = [pc EXCEPT ![q] = "write"]
        /\ inflight' = [inflight EXCEPT ![conn[q]][id[q]] = q]
        /\ answer' = [answer EXCEPT ![q] = None]
        /\ UNCHANGED <<id, conn, reader>>
        BY <1>11, Zenon DEF InsertSender
  <2> SUFFICES ASSUME NEW r \in Queries, reader[conn[r]] # "gone" PROVE Registered(r)'
      BY <2>1
  <2>2. CASE r = q
        BY <2>1, <2>2
  <2>3. CASE r # q
    <3>1. pc[r] \in {"push", "insert", "write", "wait"} =>
            inflight'[conn[r]][id[r]] = inflight[conn[r]][id[r]]
          BY <2>1, <2>3 DEF IdInv, IdsIdentify, IdsDistinct, Holding, Using
    <3> QED
        BY <2>1, <2>3, <3>1
  <2> QED
      BY <2>2, <2>3
<1>12. ASSUME NEW q \in Queries, WriteQuery(q) PROVE RegInv'
      BY <1>12, Zenon DEF WriteQuery
<1>13. ASSUME NEW q \in Queries, WriteFails(q) PROVE RegInv'
      BY <1>13, Zenon DEF WriteFails
<1>14. ASSUME NEW q \in Queries, TakeReply(q) PROVE RegInv'
      BY <1>14, Zenon DEF TakeReply
<1>15. ASSUME NEW q \in Queries, ChannelClosed(q) PROVE RegInv'
      BY <1>15, Zenon DEF ChannelClosed
<1>16. ASSUME NEW q \in Queries, QueryTimeout(q) PROVE RegInv'
      BY <1>16, Zenon DEF QueryTimeout
<1>17. ASSUME NEW q \in Queries, DropId(q) PROVE RegInv'
  <2>1. /\ pc[q] \in {"dropRetry", "dropFatal"}
        /\ inflight' = [inflight EXCEPT ![conn[q]][id[q]] = None]
        /\ pc'[q] \in {"lockOpen", "failed"}
        /\ \A r \in Queries \ {q} : pc'[r] = pc[r]
        /\ UNCHANGED <<id, conn, reader, answer>>
        BY <1>17, Zenon DEF DropId, Retry
  <2> SUFFICES ASSUME NEW r \in Queries, reader[conn[r]] # "gone" PROVE Registered(r)'
      BY <2>1
  <2>2. CASE r = q
        BY <2>1, <2>2
  <2>3. CASE r # q
    <3>1. pc[r] \in {"push", "insert", "write", "wait"} =>
            inflight'[conn[r]][id[r]] = inflight[conn[r]][id[r]]
          BY <2>1, <2>3 DEF IdInv, IdsIdentify, IdsDistinct, Holding, Using
    <3> QED
        BY <2>1, <2>3, <3>1
  <2> QED
      BY <2>2, <2>3
<1>18. ASSUME NEW q \in Queries, NEW c \in Conns, ReuseHit(q, c)
      PROVE  RegInv'
  <2>1. /\ AllocateId(q, c) /\ pc' = [pc EXCEPT ![q] = "insert"]
        /\ UNCHANGED answer
        BY <1>18, Zenon DEF ReuseHit
  <2> QED
      BY <2>1, RegAllocate, Zenon DEF IdsNotReused
<1>19. ASSUME NEW q \in Queries, NEW c \in Conns, ReuseFull(q, c)
      PROVE  RegInv'
      BY <1>19, ZenonT(30) DEF ReuseFull
<1>20. ASSUME NEW c \in Conns, NEW m \in wire[c], ReadReply(c, m)
      PROVE  RegInv'
  <2>1. /\ m \in Messages
        /\ UNCHANGED <<pc, conn, id, reader>>
        /\ inflight' = [inflight EXCEPT ![c][m.id] = None]
        /\ answer' = [q \in Queries |->
                        IF q = inflight[c][m.id] /\ pc[q] \in {"write", "wait"}
                          THEN m ELSE answer[q]]
        BY <1>20, ZenonT(30) DEF ReadReply
  <2>2. m.id \in Ids /\ m # None
        BY <2>1, ConstantsAssumption DEF Messages
  <2> SUFFICES ASSUME NEW q \in Queries, reader[conn[q]] # "gone" PROVE Registered(q)'
      BY <2>1
  <2>3. CASE conn[q] = c /\ id[q] = m.id
    <3>1. pc[q] \in {"push", "insert", "write", "wait"} => pc[q] = "wait"
          BY <2>3 DEF IdInv, IdsIdentify, WireIsOwn, Holding, Using, Sent
    <3>2. pc[q] = "wait" /\ answer[q] = None => answer'[q] # None
          BY <2>1, <2>2, <2>3
    <3>3. pc[q] = "wait" /\ answer[q] # None => answer'[q] # None
          BY <2>1, <2>2
    <3> QED
        BY <2>1, <3>1, <3>2, <3>3
  <2>4. CASE ~(conn[q] = c /\ id[q] = m.id)
    <3>1. inflight'[conn[q]][id[q]] = inflight[conn[q]][id[q]]
          BY <2>1, <2>2, <2>4
    <3>2. answer'[q] = None => answer[q] = None
          BY <2>1, <2>2
    <3> QED
        BY <2>1, <3>1, <3>2
  <2> QED
      BY <2>3, <2>4
<1>21. ASSUME NEW c \in Conns, ReaderIdle(c) PROVE RegInv'
      BY <1>21, Zenon DEF ReaderIdle
<1>22. ASSUME NEW c \in Conns, ReaderFails(c) PROVE RegInv'
      BY <1>22, Zenon DEF ReaderFails
<1>23. ASSUME NEW c \in Conns, ReaderMarksDead(c) PROVE RegInv'
      BY <1>23, Zenon DEF ReaderMarksDead
<1>24. ASSUME NEW c \in Conns, ReaderClears(c) PROVE RegInv'
      BY <1>24, Zenon DEF ReaderClears
<1>25. ASSUME NEW c \in Conns, PruneDead(c) PROVE RegInv'
      BY <1>25, Zenon DEF PruneDead
<1>26. ASSUME NEW c \in Conns, PruneIdle(c) PROVE RegInv'
      BY <1>26, Zenon DEF PruneIdle
<1>27. ASSUME NEW c \in Conns, PruneKeep(c) PROVE RegInv'
      BY <1>27, Zenon DEF PruneKeep
<1>28. CASE StoreProxy
      BY <1>28, Zenon DEF StoreProxy
<1>29. CASE ClearPool
      BY <1>29, Zenon DEF ClearPool
<1>30. CASE PruneLock
      BY <1>30, Zenon DEF PruneLock
<1>31. CASE PruneUnlock
      BY <1>31, Zenon DEF PruneUnlock
<1>32. CASE UNCHANGED vars
      BY <1>32, Zenon DEF vars
<1> QED
    BY <1>1, <1>2, <1>3, <1>4, <1>5, <1>6, <1>7, <1>8, <1>9, <1>10, <1>11,
       <1>12, <1>13, <1>14, <1>15, <1>16, <1>17, <1>18, <1>19, <1>20, <1>21,
       <1>22, <1>23, <1>24, <1>25, <1>26, <1>27, <1>28, <1>29, <1>30, <1>31,
       <1>32, Zenon DEF Next, QueryLocks, QueryRuns, Reader, PruneRuns

-----------------------------------------------------------------------------
(* While prune() holds the lock on conns, only it takes connections away. *)
PruneShrinks ==
  connsLock = Pruner =>
    \/ pool \subseteq pool'
    \/ \E c \in Conns : /\ pool' = pool \ {c}
                        /\ ~alive[c] \/ Occupied(c) = {}

(* Each step under prune()'s lock either keeps the pool or is prune()'s. *)
LEMMA OnlyPruneShrinks ==
  TypeOK /\ [Next]_vars => PruneShrinks
<1> SUFFICES ASSUME TypeOK, [Next]_vars PROVE PruneShrinks
    OBVIOUS
<1>types. /\ pc \in [Queries -> PcLabels]
          BY DEF TypeOK
<1> USE <1>types DEF PruneShrinks, queryVars, connVars, poolVars
<1>1. ASSUME NEW q \in Queries, ReuseLock(q) PROVE PruneShrinks
      BY <1>1, ConstantsAssumption DEF ReuseLock
<1>2. ASSUME NEW q \in Queries, LockOpen(q) PROVE PruneShrinks
      BY <1>2, Zenon DEF LockOpen
<1>3. ASSUME NEW q \in Queries, CheckLimit(q) PROVE PruneShrinks
      BY <1>3, ConstantsAssumption DEF CheckLimit
<1>4. ASSUME NEW q \in Queries, PushConn(q) PROVE PruneShrinks
      BY <1>4, Zenon DEF PushConn
<1>5. ASSUME NEW q \in Queries, Resolve(q) PROVE PruneShrinks
      BY <1>5, Zenon DEF Resolve
<1>6. ASSUME NEW q \in Queries, ReuseMiss(q) PROVE PruneShrinks
      BY <1>6, Zenon DEF ReuseMiss
<1>7. ASSUME NEW q \in Queries, LoadProxy(q) PROVE PruneShrinks
      BY <1>7, Zenon DEF LoadProxy
<1>8. ASSUME NEW q \in Queries, ConnectFails(q) PROVE PruneShrinks
      BY <1>8, Zenon DEF ConnectFails
<1>9. ASSUME NEW q \in Queries, Connected(q) PROVE PruneShrinks
      BY <1>9, Zenon DEF Connected
<1>10. ASSUME NEW q \in Queries, AllocateFresh(q) PROVE PruneShrinks
      BY <1>10, Zenon DEF AllocateFresh
<1>11. ASSUME NEW q \in Queries, InsertSender(q) PROVE PruneShrinks
      BY <1>11, Zenon DEF InsertSender
<1>12. ASSUME NEW q \in Queries, WriteQuery(q) PROVE PruneShrinks
      BY <1>12, Zenon DEF WriteQuery
<1>13. ASSUME NEW q \in Queries, WriteFails(q) PROVE PruneShrinks
      BY <1>13, Zenon DEF WriteFails
<1>14. ASSUME NEW q \in Queries, TakeReply(q) PROVE PruneShrinks
      BY <1>14, Zenon DEF TakeReply
<1>15. ASSUME NEW q \in Queries, ChannelClosed(q) PROVE PruneShrinks
      BY <1>15, Zenon DEF ChannelClosed
<1>16. ASSUME NEW q \in Queries, QueryTimeout(q) PROVE PruneShrinks
      BY <1>16, Zenon DEF QueryTimeout
<1>17. ASSUME NEW q \in Queries, DropId(q) PROVE PruneShrinks
      BY <1>17, Zenon DEF DropId
<1>18. ASSUME NEW q \in Queries, NEW c \in Conns, ReuseHit(q, c)
      PROVE  PruneShrinks
      BY <1>18, Zenon DEF ReuseHit
<1>19. ASSUME NEW q \in Queries, NEW c \in Conns, ReuseFull(q, c)
      PROVE  PruneShrinks
      BY <1>19, Zenon DEF ReuseFull
<1>20. ASSUME NEW c \in Conns, NEW m \in wire[c], ReadReply(c, m)
      PROVE  PruneShrinks
      BY <1>20, Zenon DEF ReadReply
<1>21. ASSUME NEW c \in Conns, ReaderIdle(c) PROVE PruneShrinks
      BY <1>21, Zenon DEF ReaderIdle
<1>22. ASSUME NEW c \in Conns, ReaderFails(c) PROVE PruneShrinks
      BY <1>22, Zenon DEF ReaderFails
<1>23. ASSUME NEW c \in Conns, ReaderMarksDead(c) PROVE PruneShrinks
      BY <1>23, Zenon DEF ReaderMarksDead
<1>24. ASSUME NEW c \in Conns, ReaderClears(c) PROVE PruneShrinks
      BY <1>24, Zenon DEF ReaderClears
<1>25. ASSUME NEW c \in Conns, PruneDead(c) PROVE PruneShrinks
      BY <1>25, Zenon DEF PruneDead
<1>26. ASSUME NEW c \in Conns, PruneIdle(c) PROVE PruneShrinks
      BY <1>26, Zenon DEF PruneIdle
<1>27. ASSUME NEW c \in Conns, PruneKeep(c) PROVE PruneShrinks
      BY <1>27, Zenon DEF PruneKeep
<1>28. ASSUME StoreProxy PROVE PruneShrinks
      BY <1>28, Zenon DEF StoreProxy
<1>29. ASSUME ClearPool PROVE PruneShrinks
      BY <1>29, ConstantsAssumption DEF ClearPool
<1>30. ASSUME PruneLock PROVE PruneShrinks
      BY <1>30, Zenon DEF PruneLock
<1>31. ASSUME PruneUnlock PROVE PruneShrinks
      BY <1>31, Zenon DEF PruneUnlock
<1>32. ASSUME UNCHANGED vars PROVE PruneShrinks
      BY <1>32, Zenon DEF vars
<1> QED
    BY <1>1, <1>2, <1>3, <1>4, <1>5, <1>6, <1>7, <1>8, <1>9, <1>10, <1>11,
       <1>12, <1>13, <1>14, <1>15, <1>16, <1>17, <1>18, <1>19, <1>20, <1>21,
       <1>22, <1>23, <1>24, <1>25, <1>26, <1>27, <1>28, <1>29, <1>30, <1>31,
       <1>32, Zenon DEF Next, QueryLocks, QueryRuns, Reader, PruneRuns

-----------------------------------------------------------------------------
(* The number of ids in use *)

BoundInv ==
  \A c \in Conns : reader[c] # "gone" =>
    Cardinality(Occupied(c)) <= MAX_INFLIGHT_PER_CONN

(* The ids in use can be counted ... *)
LEMMA OccupiedFinite ==
  ASSUME NEW c \in Conns
  PROVE  /\ IsFiniteSet(Occupied(c)) /\ Cardinality(Occupied(c)) \in Nat
         /\ IsFiniteSet(Occupied(c)') /\ Cardinality(Occupied(c)') \in Nat
<1>1. IsFiniteSet(Ids)
  <2>1. 0 \in Int /\ IdSpace - 1 \in Int
        BY ConstantsAssumption
  <2> QED
      BY <2>1, FS_Interval DEF Ids
<1>2. Occupied(c) \subseteq Ids /\ Occupied(c)' \subseteq Ids
      BY DEF Occupied
<1> QED
    BY <1>1, <1>2, FS_Subset, FS_CardinalityType

(* ... and are fewer when slots are emptied. *)
LEMMA FewerOccupied ==
  ASSUME NEW c \in Conns, Occupied(c)' \subseteq Occupied(c), BoundInv,
         GoneStays, reader'[c] # "gone"
  PROVE  Cardinality(Occupied(c)') <= MAX_INFLIGHT_PER_CONN
<1>1. Cardinality(Occupied(c)') <= Cardinality(Occupied(c))
      BY OccupiedFinite, FS_Subset
<1>2. Cardinality(Occupied(c)) <= MAX_INFLIGHT_PER_CONN
      BY DEF BoundInv, GoneStays
<1>3. MAX_INFLIGHT_PER_CONN \in Nat
      BY ConstantsAssumption
<1> QED
    BY <1>1, <1>2, <1>3, OccupiedFinite

(* allocate_id counts them before it takes one more. *)
LEMMA BoundAllocate ==
  ASSUME TypeOK, BoundInv, GoneStays, NEW q \in Queries, NEW c \in Conns,
         CanAllocate(c), AllocateId(q, c), nextId'[c] <= IdSpace
  PROVE  BoundInv'
<1>1. PICK i \in Ids : inflight' = [inflight EXCEPT ![c][i] = Placeholder]
      BY AllocateIdFresh
<1> SUFFICES ASSUME NEW d \in Conns, reader'[d] # "gone"
             PROVE  Cardinality(Occupied(d)') <= MAX_INFLIGHT_PER_CONN
    BY DEF BoundInv
<1>2. CASE d = c
  <2>1. Occupied(c)' \subseteq Occupied(c) \cup {i}
        BY <1>1, Zenon DEF Occupied, TypeOK
  <2>2. /\ Cardinality(Occupied(c)') <= Cardinality(Occupied(c) \cup {i})
        /\ Cardinality(Occupied(c) \cup {i}) \in Nat
        BY <2>1, OccupiedFinite, FS_AddElement, FS_Subset, FS_CardinalityType, Zenon
  <2>3. Cardinality(Occupied(c) \cup {i}) <= Cardinality(Occupied(c)) + 1
        BY OccupiedFinite, AtMostOneMore, Zenon
  <2>4. Cardinality(Occupied(c)) < MAX_INFLIGHT_PER_CONN /\ MAX_INFLIGHT_PER_CONN \in Nat
        BY ConstantsAssumption DEF CanAllocate
  <2> QED
      BY <1>2, <2>2, <2>3, <2>4, OccupiedFinite
<1>3. CASE d # c
  <2>1. Occupied(d)' \subseteq Occupied(d)
        BY <1>1, <1>3 DEF Occupied, TypeOK
  <2> QED
      BY <2>1, FewerOccupied
<1> QED
    BY <1>2, <1>3

(* Their number is bounded in every step. *)
LEMMA BoundNext ==
  /\ TypeOK /\ IdInv /\ RegInv /\ GoneStays /\ BoundInv
  /\ IdsNotReused' /\ [Next]_vars
  => BoundInv'
<1> SUFFICES ASSUME TypeOK, IdInv, RegInv, GoneStays, BoundInv, IdsNotReused',
                    [Next]_vars
             PROVE  BoundInv'
    OBVIOUS
<1>1. ASSUME \A c \in Conns : Occupied(c)' \subseteq Occupied(c)
      PROVE  BoundInv'
      BY <1>1, FewerOccupied DEF BoundInv
<1>2. ASSUME IdQuietStep PROVE BoundInv'
  <2>1. \A c \in Conns : Occupied(c)' \subseteq Occupied(c)
        BY <1>2, Zenon DEF IdQuietStep, Occupied
  <2> QED
      BY <1>1, <2>1
<1>3. ASSUME NEW q \in Queries, NEW c \in Conns, ReuseHit(q, c)
      PROVE  BoundInv'
      BY <1>3, BoundAllocate DEF ReuseHit, IdsNotReused
<1>4. ASSUME NEW q \in Queries, AllocateFresh(q) PROVE BoundInv'
  <2>1. <<q, attempt[q]>> \in Conns
        BY DEF TypeOK, Conns
  <2>2. CASE CanAllocate(<<q, attempt[q]>>)
        BY <1>4, <2>1, <2>2, BoundAllocate DEF AllocateFresh, IdsNotReused
  <2>3. CASE ~CanAllocate(<<q, attempt[q]>>)
    <3>1. UNCHANGED inflight
          BY <1>4, <2>3 DEF AllocateFresh
    <3> QED
        BY <1>1, <3>1 DEF Occupied
  <2> QED
      BY <2>2, <2>3
<1>5. ASSUME NEW q \in Queries, InsertSender(q) PROVE BoundInv'
  <2>1. /\ pc[q] = "insert" /\ UNCHANGED reader
        /\ inflight' = [inflight EXCEPT ![conn[q]][id[q]] = q]
        BY <1>5, Zenon DEF InsertSender
  <2> SUFFICES ASSUME NEW c \in Conns, reader[c] # "gone"
               PROVE  Cardinality(Occupied(c)') <= MAX_INFLIGHT_PER_CONN
      BY <2>1 DEF BoundInv
  <2>2. c = conn[q] => inflight[c][id[q]] = Placeholder
        BY <2>1 DEF RegInv, Registered
  <2>3. Occupied(c)' \subseteq Occupied(c)
        BY <2>1, <2>2, ConstantsAssumption DEF Occupied, TypeOK
  <2> QED
      BY <2>1, <2>3, FewerOccupied
<1>6. ASSUME NEW q \in Queries, WriteQuery(q) PROVE BoundInv'
  <2>1. UNCHANGED inflight
        BY <1>6, Zenon DEF WriteQuery
  <2> QED
      BY <1>1, <2>1 DEF Occupied
<1> QED
    BY <1>2, <1>3, <1>4, <1>5, <1>6, OthersIdQuiet

-----------------------------------------------------------------------------
PoolInv == TypeOK /\ OpenLockHeld /\ OpenedOnce /\ LimitInv /\ OneStaleOrPending

(* The invariant of the pool holds at first ... *)
LEMMA PoolInit == Init => PoolInv
<1> SUFFICES ASSUME Init PROVE PoolInv
    OBVIOUS
<1>1. TypeOK
      BY TypeInit
<1>2. OpenLockHeld /\ OpenedOnce
      BY DEF Init, OpenLockHeld, Opening, OpenedOnce, Conns
<1>3. LimitInv
  <2>1. pool = {} /\ IsFiniteSet(pool)
        BY FS_EmptySet DEF Init
  <2>2. \A q \in Queries : ~Opening(q)
        BY DEF Init, Opening
  <2>3. ASSUME NEW s \in Servers
        PROVE  Cardinality(FirstAttempts(s)) <= MAX_CONNS_PER_TARGET
    <3>1. FirstAttempts(s) = {}
          BY <2>1 DEF FirstAttempts, Bucket
    <3> QED
        BY <3>1, FS_EmptySet, ConstantsAssumption
  <2> QED
      BY <2>1, <2>2, <2>3 DEF LimitInv, RoomForOpener, FirstAttemptsWithinLimit
<1>4. OneStaleOrPending
      BY DEF Init, OneStaleOrPending
<1> QED
    BY <1>1, <1>2, <1>3, <1>4 DEF PoolInv

(* ... and always. *)
LEMMA PoolInvariant == Spec => []PoolInv
<1>1. PoolInv /\ [Next]_vars => PoolInv'
      BY TypeNext, OpenLockNext, OpenedOnceNext, LimitNext, OneStaleNext
      DEF PoolInv
<1> QED
    BY PoolInit, <1>1, PTL DEF Spec

(* The types of dns.rs's state, whatever is resolved, reloaded or pruned. *)
THEOREM TypeCorrect == Spec => []TypeOK
<1>1. PoolInv => TypeOK
      BY DEF PoolInv
<1> QED
    BY <1>1, PoolInvariant, PTL

(* acquire() never takes a server's connections opened by first attempts over
   MAX_CONNS_PER_TARGET: its limit check is still valid when it pushes the
   connection, because it holds open_lock in between.                      *)
THEOREM LimitHeld == Spec => []FirstAttemptsWithinLimit
<1>1. PoolInv => FirstAttemptsWithinLimit
      BY DEF PoolInv, LimitInv
<1> QED
    BY <1>1, PoolInvariant, PTL

(* Between two calls of set_proxy at most one pooled connection goes through
   an earlier proxy, for any number of queries and reloads.                *)
THEOREM StaleConnUnique == Spec => []OneStaleConn
<1>1. PoolInv => OneStaleConn
      BY DEF PoolInv, OneStaleOrPending, OneStaleConn
<1> QED
    BY <1>1, PoolInvariant, PTL

-----------------------------------------------------------------------------
SlotInv == IdsNotReused => IdInv /\ RegInv /\ BoundInv

(* So does the one of the slots, up to the wrap of next_id: *)
LEMMA SlotInit == Init => SlotInv
<1> SUFFICES ASSUME Init PROVE SlotInv
    OBVIOUS
<1>1. IdInv /\ RegInv
      BY ConstantsAssumption
      DEF Init, IdInv, IdsIdentify, IdsHandedOut, IdsDistinct, WireIsOwn,
          SendersRegistered, ChannelsCarryOwn, Holding, Using, RegInv,
          Registered, Conns
<1>2. BoundInv
  <2>1. \A c \in Conns : Occupied(c) = {}
        BY DEF Init, Occupied
  <2>2. Cardinality({}) <= MAX_INFLIGHT_PER_CONN
        BY FS_EmptySet, ConstantsAssumption
  <2> QED
      BY <2>1, <2>2 DEF BoundInv
<1> QED
    BY <1>1, <1>2 DEF SlotInv

(* it is kept by every step, given the pool's, *)
LEMMA SlotNext == PoolInv /\ PoolInv' /\ SlotInv /\ [Next]_vars => SlotInv'
<1> SUFFICES ASSUME PoolInv, PoolInv', SlotInv, [Next]_vars, IdsNotReused'
             PROVE  (IdInv /\ RegInv /\ BoundInv)'
    BY DEF SlotInv
<1>1. TypeOK /\ TypeOK' /\ OpenedOnce
      BY DEF PoolInv
<1>2. IdInv /\ RegInv /\ BoundInv
      BY <1>1, IdsMonotone DEF SlotInv
<1>3. GoneStays
      BY <1>1, GoneStaysGone
<1> QED
    BY <1>1, <1>2, <1>3, IdentifyNext, ChannelsNext, RegNext, BoundNext DEF IdInv

(* and both hold always. *)
LEMMA SlotInvariant == Spec => [](PoolInv /\ SlotInv)
<1>1. Spec => []PoolInv
      BY PoolInvariant
<1> QED
    BY <1>1, SlotInit, SlotNext, PTL DEF Spec

(* resolve() returns the reply to its own query under its client's id, for
   any number of queries, connections, retries, timeouts and late replies,
   until the 64-bit next_id of a connection has gone once through the ids. *)
THEOREM OwnAnswers == Spec => []AnswerIsOwn
<1>1. SlotInv => AnswerIsOwn
      BY DEF SlotInv, IdInv, ChannelsCarryOwn, AnswerIsOwn
<1> QED
    BY <1>1, SlotInvariant, PTL

(* The slot allocate_id reserved, and attempt()'s sender in it, are nobody
   else's until the reply, the query's end or the reader's clear().        *)
THEOREM SlotsKept == Spec => []RegisteredUntilCleared
<1>1. SlotInv => RegisteredUntilCleared
      BY DEF SlotInv, RegInv, Registered, RegisteredUntilCleared
<1> QED
    BY <1>1, SlotInvariant, PTL

(* allocate_id's test of inflight.len() bounds the ids in use at all times. *)
THEOREM InflightLimited == Spec => []InflightBounded
<1>1. SlotInv => InflightBounded
      BY DEF SlotInv, BoundInv, InflightBounded
<1> QED
    BY <1>1, SlotInvariant, PTL

(* prune() leaves alone every live connection a query still has an id on. *)
THEOREM PruneSpares == Spec => PruneSparesUsedConns
<1>1. PoolInv /\ SlotInv /\ [Next]_vars => PruneSparesUsed
  <2> SUFFICES ASSUME PoolInv, SlotInv, [Next]_vars, IdsNotReused,
                      connsLock = Pruner, NEW c \in pool \ pool', alive[c],
                      NEW q \in Queries, conn[q] = c,
                      pc[q] \in {"insert", "write", "wait"}, answer[q] = None
               PROVE  FALSE
      BY DEF PruneSparesUsed
  <2>1. TypeOK /\ OpenedOnce /\ RegInv
        BY DEF PoolInv, SlotInv
  <2>2. Occupied(c) = {}
        BY <2>1, OnlyPruneShrinks DEF PruneShrinks
  <2>3. c \in Conns /\ id[q] \in Ids
        BY <2>1 DEF TypeOK
  <2>4. reader[c] # "gone"
        BY <2>1, <2>3 DEF OpenedOnce
  <2>5. inflight[c][id[q]] \in {Placeholder, q}
        BY <2>1, <2>4 DEF RegInv, Registered
  <2>6. inflight[c][id[q]] # None
        BY <2>5, ConstantsAssumption
  <2> QED
      BY <2>2, <2>3, <2>6 DEF Occupied
<1>2. PoolInv /\ SlotInv /\ [Next]_vars => [PruneSparesUsed]_vars
      BY <1>1
<1> QED
    BY <1>2, SlotInvariant, PTL DEF Spec, PruneSparesUsedConns

=============================================================================
