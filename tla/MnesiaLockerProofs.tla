------------------------- MODULE MnesiaLockerProofs -------------------------
(***************************************************************************)
(* Theorems about the lock manager of Mnesia, for any number of nodes,     *)
(* tables, records, processes and transactions.                            *)
(***************************************************************************)
EXTENDS MnesiaLocker, TLAPS

USE TidAssumption, AllAssumption, NodeAssumption, PidAssumption

-----------------------------------------------------------------------------
(* Type correctness.                                                       *)

\* The lock on a whole table is on an item.
LEMMA WholeTabType ==
    ASSUME NEW oid \in Oid
    PROVE  WholeTab(oid) \in Oid
BY DEF WholeTab, Oid

\* A reply is typed if its tag and the node it names are.
LEMMA ReplyType ==
    ASSUME TypeOK, NEW n \in LockNode, NEW t \in Tid, NEW tag \in ReplyTag,
           NEW at \in Node, ReplyTo(n, t, tag, at)
    PROVE  replies' \in [LockNode -> SUBSET Reply]
BY DEF TypeOK, ReplyTo, Reply

\* A granted lock is well typed.
LEMMA GrantType ==
    ASSUME TypeOK, NEW n \in LockNode, NEW t \in Tid, NEW op \in Op,
           NEW oid \in Oid, GrantLock(n, t, op, oid)
    PROVE  /\ held' \in [LockNode -> SUBSET Held]
           /\ tidLocks' \in [LockNode -> SUBSET TidLock]
           /\ replies' \in [LockNode -> SUBSET Reply]
<1>1. LockOf(op) \in LockKind
  BY DEF LockOf, LockKind
<1>2. replies' \in [LockNode -> SUBSET Reply]
  <2>1. n \in Node
    OBVIOUS
  <2> QED
    BY <2>1, ReplyType DEF GrantLock, ReplyTag
<1>3. CASE SetLock(n, t, oid, LockOf(op))
  <2>1. [oid |-> oid, op |-> LockOf(op), tid |-> t] \in Held
    BY <1>1 DEF Held
  <2>2. [tid |-> t, oid |-> oid, op |-> LockOf(op)] \in TidLock
    BY <1>1 DEF TidLock
  <2> QED
    BY <1>2, <1>3, <2>1, <2>2 DEF SetLock, TypeOK
<1>4. CASE UNCHANGED <<held, tidLocks>>
  BY <1>2, <1>4 DEF TypeOK
<1> QED
  BY <1>3, <1>4 DEF GrantLock

\* A tried lock is well typed.
LEMMA TryLockType ==
    ASSUME TypeOK, NEW n \in LockNode, NEW t \in Tid, NEW op \in Op,
           NEW oid \in Oid, TryLock(n, t, op, oid)
    PROVE  /\ held' \in [LockNode -> SUBSET Held]
           /\ tidLocks' \in [LockNode -> SUBSET TidLock]
           /\ lockQueue' \in [LockNode -> SUBSET Waiter]
           /\ replies' \in [LockNode -> SUBSET Reply]
<1>1. CASE GrantLock(n, t, op, oid) /\ UNCHANGED lockQueue
  BY <1>1, GrantType DEF TypeOK
<1>2. CASE ReplyTo(n, t, "cyclic", n) /\ UNCHANGED <<held, tidLocks, lockQueue>>
  BY <1>2, ReplyType DEF TypeOK, ReplyTag
<1>3. CASE /\ lockQueue' = [lockQueue EXCEPT ![n] =
                               @ \cup {[oid |-> oid, tid |-> t, op |-> op]}]
           /\ tidLocks' = [tidLocks EXCEPT ![n] =
                               @ \cup {[tid |-> t, oid |-> oid, op |-> "queued"]}]
           /\ UNCHANGED <<held, replies>>
  <2>1. [oid |-> oid, tid |-> t, op |-> op] \in Waiter
    BY DEF Waiter
  <2>2. [tid |-> t, oid |-> oid, op |-> "queued"] \in TidLock
    BY DEF TidLock
  <2> QED
    BY <1>3, <2>1, <2>2 DEF TypeOK
<1> QED
  BY <1>1, <1>2, <1>3 DEF TryLock

\* A release leaves the tables well typed.
LEMMA ReleaseType ==
    ASSUME TypeOK, NEW n \in LockNode, NEW t \in Tid,
           NEW others \in SUBSET Tid, NEW ack \in SUBSET Tid,
           ReleaseLocks(n, t, others, ack)
    PROVE  /\ held' \in [LockNode -> SUBSET Held]
           /\ tidLocks' \in [LockNode -> SUBSET TidLock]
           /\ lockQueue' \in [LockNode -> SUBSET Waiter]
           /\ job' \in [LockNode -> Job]
<1>1. \A l \in tidLocks[n] : l.oid \in Oid
  BY DEF TypeOK, TidLock
<1>2. [tids |-> others, oids |-> {l.oid : l \in {k \in tidLocks[n] : k.tid = t}},
       try |-> {}, whole |-> FALSE, ack |-> ack] \in Job
  BY <1>1 DEF Job
<1> QED
  BY <1>2 DEF ReleaseLocks, TypeOK

\* Every message and every round of the release loop leaves the tables of a
\* lock manager well typed.
THEOREM TypeStep == TypeOK /\ [Next]_vars => TypeOK'
<1> SUFFICES ASSUME TypeOK, [Next]_vars PROVE TypeOK'
  OBVIOUS
<1>1. CASE UNCHANGED vars
  BY <1>1 DEF TypeOK, vars
<1>2. ASSUME NEW n \in LockNode, ReleaseNext(n) PROVE TypeOK'
  <2>1. PICK t \in job[n].tids : ReleaseLocks(n, t, job[n].tids \ {t}, {})
    BY <1>2 DEF ReleaseNext
  <2>2. job[n].tids \subseteq Tid
    BY DEF TypeOK, Job
  <2> QED
    BY <1>2, <2>1, <2>2, ReleaseType DEF ReleaseNext, TypeOK
<1>3. ASSUME NEW n \in LockNode, RearrangeQueue(n) PROVE TypeOK'
  <2>1. job' \in [LockNode -> Job]
    <3>1. PICK o \in job[n].oids :
             job' = [job EXCEPT ![n].oids = @ \ {o},
                                ![n].try = Concerned(n, o),
                                ![n].whole = (o.key = ALL)]
      BY <1>3 DEF RearrangeQueue
    <3>2. Concerned(n, o) \subseteq Waiter
      BY DEF Concerned, TypeOK
    <3>3. job[n] \in Job
      BY DEF TypeOK
    <3>4. [job[n] EXCEPT !.oids = @ \ {o}, !.try = Concerned(n, o),
                         !.whole = (o.key = ALL)] \in Job
      BY <3>2, <3>3 DEF Job
    <3>5. job' = [job EXCEPT ![n] = [job[n] EXCEPT !.oids = @ \ {o},
                                                   !.try = Concerned(n, o),
                                                   !.whole = (o.key = ALL)]]
      BY <3>1 DEF TypeOK
    <3> QED
      BY <3>4, <3>5 DEF TypeOK
  <2> QED
    BY <1>3, <2>1 DEF RearrangeQueue, TypeOK
<1>4. ASSUME NEW n \in LockNode, TryWaiter(n) PROVE TypeOK'
  <2>1. PICK w \in job[n].try :
           LET verdict == CanLock(n, w.tid, LockOf(w.op), w.oid, FALSE)
           IN  /\ NextWaiter(n, w)
               /\ \/ /\ verdict = "queue"
                     /\ job' = [job EXCEPT ![n].try = TriedAfterQueued(n, w)]
                     /\ UNCHANGED <<held, tidLocks, lockQueue, replies>>
                  \/ /\ verdict = "yes"
                     /\ Dequeue(n, w)
                     /\ GrantLock(n, w.tid, w.op, w.oid)
                     /\ job' = [job EXCEPT ![n].try = @ \ {w}]
                  \/ /\ verdict = "no"
                     /\ Dequeue(n, w)
                     /\ ReplyTo(n, w.tid, "cyclic", n)
                     /\ job' = [job EXCEPT ![n].try = @ \ {w}]
                     /\ UNCHANGED <<held, tidLocks>>
               /\ UNCHANGED stickyAt
    BY <1>4 DEF TryWaiter
  <2>2. w \in Waiter /\ w.tid \in Tid /\ w.op \in Op /\ w.oid \in Oid
    BY DEF TypeOK, Job, Waiter
  <2>3. job' \in [LockNode -> Job]
    <3>1. TriedAfterQueued(n, w) \subseteq job[n].try
      BY DEF TriedAfterQueued
    <3>2. PICK left : left \subseteq job[n].try /\ job' = [job EXCEPT ![n].try = left]
      BY <2>1, <3>1
    <3>3. job[n] \in Job
      BY DEF TypeOK
    <3>4. [job[n] EXCEPT !.try = left] \in Job
      BY <3>2, <3>3 DEF Job
    <3> QED
      BY <3>2, <3>4 DEF TypeOK
  <2>4. lockQueue' \in [LockNode -> SUBSET Waiter]
    <3>1. lockQueue' = lockQueue \/ lockQueue' = [lockQueue EXCEPT ![n] = @ \ {w}]
      BY <2>1 DEF Dequeue
    <3> QED
      BY <3>1 DEF TypeOK
  <2>5. /\ held' \in [LockNode -> SUBSET Held]
        /\ tidLocks' \in [LockNode -> SUBSET TidLock]
        /\ replies' \in [LockNode -> SUBSET Reply]
    <3>1. CASE GrantLock(n, w.tid, w.op, w.oid)
      BY <2>2, <3>1, GrantType
    <3>2. CASE ReplyTo(n, w.tid, "cyclic", n) /\ UNCHANGED <<held, tidLocks>>
      BY <2>2, <3>2, ReplyType DEF TypeOK, ReplyTag
    <3> QED
      BY <2>1, <3>1, <3>2 DEF TypeOK
  <2> QED
    BY <2>1, <2>3, <2>4, <2>5 DEF TypeOK
<1>5. ASSUME NEW n \in LockNode, ReleaseDone(n) PROVE TypeOK'
  <2>1. job' \in [LockNode -> Job]
    BY <1>5 DEF ReleaseDone, TypeOK, Job, NoJob
  <2>2. \A t \in job[n].ack : [tid |-> t, tag |-> "tid_released", at |-> n] \in Reply
    BY DEF TypeOK, Job, Reply, ReplyTag
  <2> QED
    BY <1>5, <2>1, <2>2 DEF ReleaseDone, TypeOK
<1>6. ASSUME NEW n \in LockNode, NEW t \in Tid, NEW op \in Op, NEW oid \in Oid,
             RequestLock(n, t, op, oid)
      PROVE  TypeOK'
  <2>1. CASE TryLock(n, t, op, oid)
    BY <1>6, <2>1, TryLockType DEF RequestLock, TypeOK
  <2>2. CASE /\ stickyAt[n][oid.tab] \notin {NoNode, n}
             /\ ReplyTo(n, t, "switch", stickyAt[n][oid.tab])
             /\ UNCHANGED <<held, tidLocks, lockQueue>>
    <3>1. stickyAt[n][oid.tab] \in Node
      BY <2>2 DEF TypeOK, Oid
    <3> QED
      BY <1>6, <2>2, <3>1, ReplyType DEF RequestLock, TypeOK, ReplyTag
  <2> QED
    BY <1>6, <2>1, <2>2 DEF RequestLock
<1>7. ASSUME NEW n \in LockNode, NEW t \in Tid, NEW op \in Op, NEW oid \in Oid,
             TestSetSticky(n, t, op, oid)
      PROVE  TypeOK'
  <2>1. CASE TryLock(n, t, op, oid)
    BY <1>7, <2>1, TryLockType DEF TestSetSticky, TypeOK
  <2>2. CASE ReplyTo(n, t, "not_stuck", n) /\ UNCHANGED <<held, tidLocks, lockQueue>>
    BY <1>7, <2>2, ReplyType DEF TestSetSticky, TypeOK, ReplyTag
  <2>3. CASE /\ stickyAt[n][oid.tab] \notin {NoNode, n}
             /\ ReplyTo(n, t, "stuck_elsewhere", stickyAt[n][oid.tab])
             /\ UNCHANGED <<held, tidLocks, lockQueue>>
    <3>1. stickyAt[n][oid.tab] \in Node
      BY <2>3 DEF TypeOK, Oid
    <3> QED
      BY <1>7, <2>3, <3>1, ReplyType DEF TestSetSticky, TypeOK, ReplyTag
  <2> QED
    BY <1>7, <2>1, <2>2, <2>3 DEF TestSetSticky
<1>8. ASSUME NEW n \in LockNode, MoveSticky(n) PROVE TypeOK'
  <2>1. PICK tab \in Tab, m \in Node \cup {NoNode} :
           stickyAt' = [stickyAt EXCEPT ![n][tab] = m]
    BY <1>8 DEF MoveSticky, Stick, Unstick
  <2>2. UNCHANGED <<held, tidLocks, lockQueue, job, replies>>
    BY <1>8 DEF MoveSticky, Stick, Unstick
  <2> QED
    BY <2>1, <2>2 DEF TypeOK
<1>9. ASSUME NEW n \in LockNode, NEW t \in Tid, ReleaseTid(n, t) PROVE TypeOK'
  <2>1. {} \in SUBSET Tid /\ ReleaseLocks(n, t, {}, {})
    BY <1>9 DEF ReleaseTid
  <2> QED
    BY <1>9, <2>1, ReleaseType DEF ReleaseTid, TypeOK
<1>10. ASSUME NEW n \in LockNode, NEW t \in Tid, SyncReleaseTid(n, t) PROVE TypeOK'
  <2>1. {} \in SUBSET Tid /\ {t} \in SUBSET Tid /\ ReleaseLocks(n, t, {}, {t})
    BY <1>10 DEF SyncReleaseTid
  <2> QED
    BY <1>10, <2>1, ReleaseType DEF SyncReleaseTid, TypeOK
<1>11. ASSUME NEW n \in LockNode, NEW m \in Node, NEW pending \in SUBSET Tid,
              ReleaseRemoteNonPending(n, m, pending)
       PROVE  TypeOK'
  <2>1. PICK gone \in SUBSET Tid : job' = [job EXCEPT ![n].tids = gone]
    BY <1>11 DEF ReleaseRemoteNonPending
  <2>2. job[n] \in Job
    BY DEF TypeOK
  <2>3. [job[n] EXCEPT !.tids = gone] \in Job
    BY <2>2 DEF Job
  <2>4. job' \in [LockNode -> Job]
    BY <2>1, <2>3 DEF TypeOK
  <2>5. stickyAt' \in [LockNode -> [Tab -> Node \cup {NoNode}]]
    BY <1>11 DEF ReleaseRemoteNonPending, TypeOK
  <2> QED
    BY <1>11, <2>4, <2>5 DEF ReleaseRemoteNonPending, TypeOK
<1>12. ASSUME NEW n \in LockNode, Receive(n) PROVE TypeOK'
  BY <1>12 DEF Receive, TypeOK
<1> QED
  BY <1>1, <1>2, <1>3, <1>4, <1>5, <1>6, <1>7, <1>8, <1>9, <1>10, <1>11, <1>12
     DEF Next, Loop, Rearrange, AskLock, AskSticky, Restart, End, NodeDown

\* The tables of the lock manager, its release loop and its answers are
\* always well formed; an answer that redirects a request names a node.
THEOREM TypeCorrect == Spec => []TypeOK
<1>1. Init => TypeOK
  BY DEF Init, TypeOK, NoJob, Job
<1> QED
  BY <1>1, TypeStep, PTL DEF Spec

-----------------------------------------------------------------------------
(* What a step does to the locks and to the queue of a lock manager.  All  *)
(* the invariants below are proved from these four facts.                  *)

\* Two items overlap in either order.
LEMMA OverlapSymmetric ==
    ASSUME NEW o1, NEW o2
    PROVE  Overlap(o1, o2) <=> Overlap(o2, o1)
BY DEF Overlap

\* A lock is only granted when no other transaction is in the way.
LEMMA YesMeansFree ==
    ASSUME NEW n, NEW t, NEW lock, NEW oid, NEW isNew \in BOOLEAN,
           CanLock(n, t, lock, oid, isNew) = "yes"
    PROVE  Blockers(n, t, lock, oid) = {}
BY DEF CanLock

\* A granted request is one more lock, or none if its lookup failed.
Granted(n, t, op, oid) ==
    /\ Blockers(n, t, LockOf(op), oid) = {}
    /\ SetLock(n, t, oid, LockOf(op)) \/ UNCHANGED <<held, tidLocks>>

Enqueued(n, t, op, oid) ==
    /\ CanLock(n, t, LockOf(op), oid, TRUE) = "queue"
    /\ lockQueue' = [lockQueue EXCEPT ![n] =
                        @ \cup {[oid |-> oid, tid |-> t, op |-> op]}]
    /\ tidLocks' = [tidLocks EXCEPT ![n] =
                        @ \cup {[tid |-> t, oid |-> oid, op |-> "queued"]}]
    /\ UNCHANGED held

\* A tried lock is granted, refused or queued.
LEMMA TryLockEffect ==
    ASSUME NEW n, NEW t, NEW op, NEW oid, TryLock(n, t, op, oid)
    PROVE  \/ Granted(n, t, op, oid) /\ UNCHANGED lockQueue
           \/ Enqueued(n, t, op, oid)
           \/ UNCHANGED <<held, tidLocks, lockQueue>>
BY YesMeansFree DEF TryLock, GrantLock, Granted, Enqueued

\* Waiters only leave.
QueueShrinks == \A m \in LockNode : lockQueue'[m] \subseteq lockQueue[m]

\* A waiter that is tried leaves the queue.
LEMMA DequeueShrinks ==
    ASSUME TypeOK, NEW n \in LockNode, NEW w, Dequeue(n, w)
    PROVE  QueueShrinks
BY DEF Dequeue, QueueShrinks, TypeOK

\* Every step concerns the tables of one lock manager, in one of four ways.
LEMMA StepEffect ==
    ASSUME TypeOK, Next
    PROVE  \E n \in LockNode :
              \/ \E t \in Tid : \E others, ack : ReleaseLocks(n, t, others, ack)
              \/ \E t \in Tid, op \in Op, oid \in Oid :
                    \/ Granted(n, t, op, oid) /\ QueueShrinks
                    \/ Enqueued(n, t, op, oid)
              \/ UNCHANGED <<held, tidLocks>> /\ QueueShrinks
<1>1. UNCHANGED lockQueue => QueueShrinks
  BY DEF QueueShrinks
<1>2. ASSUME NEW n \in LockNode, NEW t \in Tid, NEW op \in Op, NEW oid \in Oid,
             TryLock(n, t, op, oid)
      PROVE  \/ Granted(n, t, op, oid) /\ QueueShrinks
             \/ Enqueued(n, t, op, oid)
             \/ UNCHANGED <<held, tidLocks>> /\ QueueShrinks
  BY <1>1, <1>2, TryLockEffect
<1>3. ASSUME NEW n \in LockNode, TryWaiter(n)
      PROVE  \/ \E t \in Tid, op \in Op, oid \in Oid :
                    Granted(n, t, op, oid) /\ QueueShrinks
             \/ UNCHANGED <<held, tidLocks>> /\ QueueShrinks
  <2>1. PICK w \in job[n].try :
           LET verdict == CanLock(n, w.tid, LockOf(w.op), w.oid, FALSE)
           IN  \/ UNCHANGED <<held, tidLocks, lockQueue>>
               \/ /\ verdict = "yes"
                  /\ Dequeue(n, w)
                  /\ GrantLock(n, w.tid, w.op, w.oid)
               \/ Dequeue(n, w) /\ UNCHANGED <<held, tidLocks>>
    BY <1>3 DEF TryWaiter
  <2>2. w.tid \in Tid /\ w.op \in Op /\ w.oid \in Oid
    BY DEF TypeOK, Job, Waiter
  <2>3. CASE /\ CanLock(n, w.tid, LockOf(w.op), w.oid, FALSE) = "yes"
             /\ Dequeue(n, w)
             /\ GrantLock(n, w.tid, w.op, w.oid)
    <3>1. Granted(n, w.tid, w.op, w.oid)
      BY <2>3, YesMeansFree DEF Granted, GrantLock
    <3> QED
      BY <2>2, <2>3, <3>1, DequeueShrinks
  <2> QED
    BY <1>1, <2>1, <2>3, DequeueShrinks
<1>4. ASSUME NEW n \in LockNode, NEW t \in Tid, NEW op \in Op, NEW oid \in Oid,
             RequestLock(n, t, op, oid) \/ TestSetSticky(n, t, op, oid)
      PROVE  TryLock(n, t, op, oid) \/ UNCHANGED <<held, tidLocks, lockQueue>>
  BY <1>4 DEF RequestLock, TestSetSticky
<1>5. ASSUME NEW n \in LockNode,
             \/ RearrangeQueue(n) \/ ReleaseDone(n) \/ MoveSticky(n)
             \/ NodeDown(n) \/ Receive(n)
      PROVE  UNCHANGED <<held, tidLocks, lockQueue>>
  BY <1>5 DEF RearrangeQueue, ReleaseDone, MoveSticky, Stick, Unstick, NodeDown,
              ReleaseRemoteNonPending, Receive
<1>6. ASSUME NEW n \in LockNode, ReleaseNext(n) \/ Restart(n) \/ End(n)
      PROVE  \E t \in Tid : \E others, ack : ReleaseLocks(n, t, others, ack)
  <2>1. job[n].tids \subseteq Tid
    BY DEF TypeOK, Job
  <2> QED
    BY <1>6, <2>1 DEF ReleaseNext, Restart, End, SyncReleaseTid, ReleaseTid
<1> QED
  BY <1>1, <1>2, <1>3, <1>4, <1>5, <1>6
     DEF Next, Loop, Rearrange, AskLock, AskSticky

-----------------------------------------------------------------------------
(* Exclusion, and the bookkeeping of mnesia_tid_locks.                     *)

LockInv == TypeOK /\ LockExclusion /\ Tracked

\* A granted lock fits those in force.
LEMMA GrantKeepsLocks ==
    ASSUME LockInv, NEW n \in LockNode, NEW t \in Tid, NEW op \in Op,
           NEW oid \in Oid, Granted(n, t, op, oid), QueueShrinks
    PROVE  LockExclusion' /\ Tracked'
<1> DEFINE lock == LockOf(op)
           new == [oid |-> oid, op |-> lock, tid |-> t]
<1>1. CASE UNCHANGED <<held, tidLocks>>
  BY <1>1 DEF LockInv, LockExclusion, Tracked, QueueShrinks
<1>2. CASE SetLock(n, t, oid, lock)
  <2>1. /\ held' = [held EXCEPT ![n] = @ \cup {new}]
        /\ tidLocks' = [tidLocks EXCEPT ![n] =
                            @ \cup {[tid |-> t, oid |-> oid, op |-> lock]}]
    BY <1>2 DEF SetLock
  <2>2. \A m \in LockNode : held'[m] = IF m = n THEN held[n] \cup {new} ELSE held[m]
    BY <2>1 DEF LockInv, TypeOK
  <2>3. \A m \in LockNode : tidLocks'[m] =
            IF m = n THEN tidLocks[n] \cup {[tid |-> t, oid |-> oid, op |-> lock]}
                     ELSE tidLocks[m]
    BY <2>1 DEF LockInv, TypeOK
  <2>4. \A h \in held[n] :
            Overlap(h.oid, oid) /\ "write" \in {lock, h.op} => h.tid = t
    BY DEF Granted, Blockers
  <2>5. LockExclusion'
    <3> SUFFICES ASSUME NEW m \in LockNode, NEW g \in held'[m], NEW h \in held'[m],
                        Overlap(g.oid, h.oid), "write" \in {g.op, h.op}
                 PROVE  g.tid = h.tid
      BY DEF LockExclusion
    <3>1. CASE g \in held[m] /\ h \in held[m]
      BY <3>1 DEF LockInv, LockExclusion
    <3>2. CASE m = n /\ g = new /\ h \in held[n]
      BY <2>4, <3>2, OverlapSymmetric
    <3>3. CASE m = n /\ h = new /\ g \in held[n]
      BY <2>4, <3>3
    <3> QED
      BY <2>2, <3>1, <3>2, <3>3
  <2>6. Tracked'
    <3>1. lock # "queued"
      BY DEF LockOf
    <3> HIDE DEF lock
    <3>2. ASSUME NEW m \in LockNode, NEW h \in held'[m]
          PROVE  [tid |-> h.tid, oid |-> h.oid, op |-> h.op] \in tidLocks'[m]
      <4>1. CASE h \in held[m]
        BY <2>3, <4>1 DEF LockInv, Tracked
      <4>2. CASE m = n /\ h = new
        BY <2>3, <4>2
      <4> QED
        BY <2>2, <4>1, <4>2
    <3>3. \A m \in LockNode : \A w \in lockQueue'[m] :
             [tid |-> w.tid, oid |-> w.oid, op |-> "queued"] \in tidLocks'[m]
      BY <2>3 DEF LockInv, Tracked, QueueShrinks
    <3>4. \A m \in LockNode : \A l \in tidLocks'[m] : l.op # "queued" =>
             [oid |-> l.oid, op |-> l.op, tid |-> l.tid] \in held'[m]
      BY <2>2, <2>3 DEF LockInv, Tracked
    <3> QED
      BY <3>2, <3>3, <3>4 DEF Tracked
  <2> QED
    BY <2>5, <2>6
<1> QED
  BY <1>1, <1>2 DEF Granted

\* A queued request changes no lock.
LEMMA EnqueueKeepsLocks ==
    ASSUME LockInv, NEW n \in LockNode, NEW t \in Tid, NEW op \in Op,
           NEW oid \in Oid, Enqueued(n, t, op, oid)
    PROVE  LockExclusion' /\ Tracked'
<1>1. LockExclusion'
  BY DEF Enqueued, LockInv, LockExclusion
<1>2. \A m \in LockNode : lockQueue'[m] =
         IF m = n THEN lockQueue[n] \cup {[oid |-> oid, tid |-> t, op |-> op]}
                  ELSE lockQueue[m]
  BY DEF Enqueued, LockInv, TypeOK
<1>3. \A m \in LockNode : tidLocks'[m] =
         IF m = n THEN tidLocks[n] \cup {[tid |-> t, oid |-> oid, op |-> "queued"]}
                  ELSE tidLocks[m]
  BY DEF Enqueued, LockInv, TypeOK
<1>4. Tracked'
  BY <1>2, <1>3 DEF Enqueued, LockInv, Tracked
<1> QED
  BY <1>1, <1>4

\* Deleting all the locks of an item on which the transaction has a write
\* lock takes no lock from another transaction: by LockExclusion it has none.
LEMMA ReleaseKeepsLocks ==
    ASSUME LockInv, NEW n \in LockNode, NEW t \in Tid, NEW others, NEW ack,
           ReleaseLocks(n, t, others, ack)
    PROVE  LockExclusion' /\ Tracked'
<1> DEFINE locks == {l \in tidLocks[n] : l.tid = t}
<1>1. \A m \in LockNode : held'[m] =
         IF m = n THEN {h \in held[n] : ~Released(locks, h)} ELSE held[m]
  BY DEF ReleaseLocks, LockInv, TypeOK
<1>2. \A m \in LockNode : tidLocks'[m] =
         IF m = n THEN tidLocks[n] \ locks ELSE tidLocks[m]
  BY DEF ReleaseLocks, LockInv, TypeOK
<1>3. \A m \in LockNode : \A w \in lockQueue'[m] :
         /\ w \in lockQueue[m]
         /\ m = n => ~(w.tid = t /\ \E l \in locks : l.oid = w.oid /\ l.op = "queued")
  BY DEF ReleaseLocks, LockInv, TypeOK
<1>4. LockExclusion'
  BY <1>1, ZenonT(60) DEF LockInv, LockExclusion
<1>5. ASSUME NEW h \in held[n] PROVE Released(locks, h) <=> h.tid = t
  <2>1. [tid |-> h.tid, oid |-> h.oid, op |-> h.op] \in tidLocks[n]
    BY DEF LockInv, Tracked
  <2>2. h.op \in {"read", "write"}
    BY DEF LockInv, TypeOK, Held, LockKind
  <2>3. h.tid = t => Released(locks, h)
    BY <2>1, <2>2 DEF Released
  <2>4. ASSUME NEW l \in locks, l.oid = h.oid, l.op = "write" PROVE h.tid = t
    <3>1. [oid |-> l.oid, op |-> l.op, tid |-> l.tid] \in held[n]
      BY <2>4 DEF LockInv, Tracked
    <3>2. Overlap(l.oid, h.oid)
      BY <2>4 DEF Overlap
    <3> QED
      BY <2>4, <3>1, <3>2 DEF LockInv, LockExclusion
  <2> QED
    BY <2>3, <2>4 DEF Released
<1>6. Tracked'
  <2>1. ASSUME NEW m \in LockNode, NEW h \in held'[m]
        PROVE  [tid |-> h.tid, oid |-> h.oid, op |-> h.op] \in tidLocks'[m]
    BY <1>1, <1>2, <1>5, <2>1 DEF LockInv, Tracked
  <2>2. ASSUME NEW m \in LockNode, NEW w \in lockQueue'[m]
        PROVE  [tid |-> w.tid, oid |-> w.oid, op |-> "queued"] \in tidLocks'[m]
    BY <1>2, <1>3, <2>2 DEF LockInv, Tracked
  <2>3. ASSUME NEW m \in LockNode, NEW l \in tidLocks'[m], l.op # "queued"
        PROVE  [oid |-> l.oid, op |-> l.op, tid |-> l.tid] \in held'[m]
    BY <1>1, <1>2, <1>5, <2>3, ZenonT(60) DEF LockInv, Tracked
  <2> QED
    BY <2>1, <2>2, <2>3 DEF Tracked
<1> QED
  BY <1>4, <1>6

\* Every step of a lock manager keeps its locks compatible and its two tables
\* of locks in agreement.
THEOREM LockStep == LockInv /\ [Next]_vars => LockInv'
<1> SUFFICES ASSUME LockInv, [Next]_vars PROVE LockInv'
  OBVIOUS
<1>1. TypeOK'
  BY TypeStep DEF LockInv
<1>2. CASE UNCHANGED vars
  BY <1>1, <1>2 DEF vars, LockInv, LockExclusion, Tracked
<1>3. CASE Next
  <2>1. CASE UNCHANGED <<held, tidLocks>> /\ QueueShrinks
    BY <1>1, <2>1 DEF LockInv, LockExclusion, Tracked, QueueShrinks
  <2> QED
    BY <1>1, <1>3, <2>1, StepEffect, GrantKeepsLocks, EnqueueKeepsLocks,
       ReleaseKeepsLocks DEF LockInv
<1> QED
  BY <1>2, <1>3

\* Locks stay compatible, and the tables of locks in agreement.
THEOREM LockInvariant == Spec => []LockInv
<1>1. Init => LockInv
  BY DEF Init, LockInv, TypeOK, NoJob, Job, LockExclusion, Tracked
<1> QED
  BY <1>1, LockStep, PTL DEF Spec

\* Two transactions never hold incompatible locks at a lock manager.
THEOREM Exclusion == Spec => []LockExclusion
<1>1. LockInv => LockExclusion
  BY DEF LockInv
<1> QED
  BY <1>1, LockInvariant, PTL

\* A release finds, in mnesia_tid_locks, exactly what the transaction holds
\* and waits for, and takes nothing from anyone else.
THEOREM Bookkeeping == Spec => []Tracked
<1>1. LockInv => Tracked
  BY DEF LockInv
<1> QED
  BY <1>1, LockInvariant, PTL

-----------------------------------------------------------------------------
(* One answer per request.                                                 *)

\* The transaction neither waits nor has an answer in transit at n.
Silent(n, t) ==
    /\ \A w \in lockQueue[n] : w.tid # t
    /\ \A r \in replies[n] : r.tid # t

\* While a release goes on, the waiters still to be tried are in the queue
\* and the transaction to be acknowledged is silent.
JobInv ==
    \A n \in LockNode :
        /\ job[n].try \subseteq lockQueue[n]
        /\ \A t \in job[n].ack : Silent(n, t)

AnswerInv == TypeOK /\ OneAnswer /\ JobInv

NewReply(n, t) ==
    \E r : r.tid = t /\ replies' = [replies EXCEPT ![n] = @ \cup {r}]
NewWaiter(n, t) ==
    \E w : w.tid = t /\ lockQueue' = [lockQueue EXCEPT ![n] = @ \cup {w}]

\* An answer is one more reply.
LEMMA ReplyToEffect ==
    ASSUME NEW n, NEW t, NEW tag, NEW at, ReplyTo(n, t, tag, at)
    PROVE  NewReply(n, t)
BY DEF ReplyTo, NewReply

\* A request is answered or queued, and nothing else.
LEMMA RequestEffect ==
    ASSUME NEW n, NEW t, NEW op, NEW oid,
           RequestLock(n, t, op, oid) \/ TestSetSticky(n, t, op, oid)
    PROVE  /\ job[n] = NoJob /\ UNCHANGED job
           /\ \/ NewReply(n, t) /\ UNCHANGED lockQueue
              \/ NewWaiter(n, t) /\ UNCHANGED replies
<1>1. TryLock(n, t, op, oid) =>
         \/ NewReply(n, t) /\ UNCHANGED lockQueue
         \/ NewWaiter(n, t) /\ UNCHANGED replies
  <2>1. [oid |-> oid, tid |-> t, op |-> op].tid = t
    OBVIOUS
  <2> QED
    BY <2>1, ReplyToEffect DEF TryLock, GrantLock, NewWaiter
<1> QED
  BY <1>1, ReplyToEffect DEF RequestLock, TestSetSticky, Busy

\* A request of a transaction that is owed nothing keeps every request single.
LEMMA RequestKeepsAnswers ==
    ASSUME AnswerInv, TypeOK', NEW n \in LockNode, NEW t, Silent(n, t),
           job[n] = NoJob, UNCHANGED job,
           \/ NewReply(n, t) /\ UNCHANGED lockQueue
           \/ NewWaiter(n, t) /\ UNCHANGED replies
    PROVE  AnswerInv'
<1>1. CASE NewReply(n, t) /\ UNCHANGED lockQueue
  <2>1. PICK r : r.tid = t /\ replies' = [replies EXCEPT ![n] = @ \cup {r}]
    BY <1>1 DEF NewReply
  <2>2. \A m \in LockNode :
           replies'[m] = IF m = n THEN replies[n] \cup {r} ELSE replies[m]
    BY <2>1 DEF AnswerInv, TypeOK
  <2>3. OneAnswer'
    BY <1>1, <2>1, <2>2 DEF AnswerInv, OneAnswer, Silent
  <2>4. JobInv'
    BY <1>1, <2>2 DEF AnswerInv, JobInv, Silent, NoJob
  <2> QED
    BY <2>3, <2>4 DEF AnswerInv
<1>2. CASE NewWaiter(n, t) /\ UNCHANGED replies
  <2>1. PICK w : w.tid = t /\ lockQueue' = [lockQueue EXCEPT ![n] = @ \cup {w}]
    BY <1>2 DEF NewWaiter
  <2>2. \A m \in LockNode :
           lockQueue'[m] = IF m = n THEN lockQueue[n] \cup {w} ELSE lockQueue[m]
    BY <2>1 DEF AnswerInv, TypeOK
  <2>3. OneAnswer'
    BY <1>2, <2>1, <2>2 DEF AnswerInv, OneAnswer, Silent
  <2>4. JobInv'
    BY <1>2, <2>2 DEF AnswerInv, JobInv, Silent, NoJob
  <2> QED
    BY <2>3, <2>4 DEF AnswerInv
<1> QED
  BY <1>1, <1>2

\* A release keeps every request single.
LEMMA ReleaseKeepsAnswers ==
    ASSUME AnswerInv, TypeOK', NEW n \in LockNode, NEW t, NEW others, NEW ack,
           ReleaseLocks(n, t, others, ack), UNCHANGED replies,
           \A u \in ack : Silent(n, u)
    PROVE  AnswerInv'
<1>1. \A m \in LockNode : lockQueue'[m] \subseteq lockQueue[m]
  BY DEF ReleaseLocks, AnswerInv, TypeOK
<1>2. \A m \in LockNode :
         /\ m # n => job'[m] = job[m] /\ lockQueue'[m] = lockQueue[m]
         /\ m = n => job'[m].try = {} /\ job'[m].ack = ack
  BY DEF ReleaseLocks, AnswerInv, TypeOK
<1>3. OneAnswer'
  BY <1>1 DEF AnswerInv, OneAnswer
<1>4. JobInv'
  BY <1>1, <1>2 DEF AnswerInv, JobInv, Silent
<1> QED
  BY <1>3, <1>4 DEF AnswerInv

\* The waiter that is tried leaves the queue exactly when it is answered.
LEMMA TryWaiterKeepsAnswers ==
    ASSUME AnswerInv, TypeOK', NEW n \in LockNode, TryWaiter(n)
    PROVE  AnswerInv'
<1>1. PICK w \in job[n].try :
         \/ /\ job' = [job EXCEPT ![n].try = TriedAfterQueued(n, w)]
            /\ UNCHANGED <<lockQueue, replies>>
         \/ /\ Dequeue(n, w)
            /\ NewReply(n, w.tid)
            /\ job' = [job EXCEPT ![n].try = @ \ {w}]
  BY ReplyToEffect DEF TryWaiter, GrantLock
<1>2. w \in lockQueue[n]
  BY DEF AnswerInv, JobInv
<1>3. CASE /\ job' = [job EXCEPT ![n].try = TriedAfterQueued(n, w)]
           /\ UNCHANGED <<lockQueue, replies>>
  <2>1. TriedAfterQueued(n, w) \subseteq job[n].try
    BY DEF TriedAfterQueued
  <2>2. \A m \in LockNode : job'[m].try \subseteq job[m].try /\ job'[m].ack = job[m].ack
    BY <1>3, <2>1 DEF AnswerInv, TypeOK, Job
  <2> QED
    BY <1>3, <2>2 DEF AnswerInv, OneAnswer, JobInv, Silent
<1>4. CASE /\ Dequeue(n, w)
           /\ NewReply(n, w.tid)
           /\ job' = [job EXCEPT ![n].try = @ \ {w}]
  <2>1. PICK r : r.tid = w.tid /\ replies' = [replies EXCEPT ![n] = @ \cup {r}]
    BY <1>4 DEF NewReply
  <2>2. \A m \in LockNode :
           replies'[m] = IF m = n THEN replies[n] \cup {r} ELSE replies[m]
    BY <2>1 DEF AnswerInv, TypeOK
  <2>3. \A m \in LockNode :
           lockQueue'[m] = IF m = n THEN lockQueue[n] \ {w} ELSE lockQueue[m]
    BY <1>4 DEF Dequeue, AnswerInv, TypeOK
  <2>4. \A m \in LockNode :
           /\ job'[m].try = IF m = n THEN job[n].try \ {w} ELSE job[m].try
           /\ job'[m].ack = job[m].ack
    BY <1>4 DEF AnswerInv, TypeOK, Job
  <2>5. OneAnswer'
    BY <1>2, <2>1, <2>2, <2>3 DEF AnswerInv, OneAnswer
  <2>6. JobInv'
    BY <1>2, <2>1, <2>2, <2>3, <2>4 DEF AnswerInv, JobInv, Silent
  <2> QED
    BY <2>5, <2>6 DEF AnswerInv
<1> QED
  BY <1>1, <1>3, <1>4

\* Every step of a lock manager leaves each transaction with one request that
\* is queued or one answer.
THEOREM AnswerStep == AnswerInv /\ [Next]_vars => AnswerInv'
<1> SUFFICES ASSUME AnswerInv, [Next]_vars PROVE AnswerInv'
  OBVIOUS
<1>1. TypeOK'
  BY TypeStep DEF AnswerInv
<1>2. CASE UNCHANGED vars
  BY <1>1, <1>2 DEF vars, AnswerInv, OneAnswer, JobInv, Silent
<1>3. ASSUME NEW n \in LockNode, ReleaseNext(n) PROVE AnswerInv'
  BY <1>1, <1>3, ReleaseKeepsAnswers DEF ReleaseNext
<1>4. ASSUME NEW n \in LockNode, RearrangeQueue(n) PROVE AnswerInv'
  <2>1. PICK o : job' = [job EXCEPT ![n].oids = @ \ {o},
                                    ![n].try = Concerned(n, o),
                                    ![n].whole = (o.key = ALL)]
    BY <1>4 DEF RearrangeQueue
  <2>2. \A m \in LockNode :
           /\ job'[m].try = IF m = n THEN Concerned(n, o) ELSE job[m].try
           /\ job'[m].ack = job[m].ack
    BY <2>1 DEF AnswerInv, TypeOK, Job
  <2> QED
    BY <1>1, <1>4, <2>2, ZenonT(60) DEF RearrangeQueue, Concerned, AnswerInv, OneAnswer, JobInv, Silent
<1>5. ASSUME NEW n \in LockNode, TryWaiter(n) PROVE AnswerInv'
  BY <1>1, <1>5, TryWaiterKeepsAnswers
<1>6. ASSUME NEW n \in LockNode, ReleaseDone(n) PROVE AnswerInv'
  <2> DEFINE acks == {[tid |-> t, tag |-> "tid_released", at |-> n] : t \in job[n].ack}
  <2>1. \A m \in LockNode :
           replies'[m] = IF m = n THEN replies[n] \cup acks ELSE replies[m]
    BY <1>6 DEF ReleaseDone, AnswerInv, TypeOK
  <2>2. \A m \in LockNode : job'[m] = IF m = n THEN NoJob ELSE job[m]
    BY <1>6 DEF ReleaseDone, AnswerInv, TypeOK
  <2>3. OneAnswer'
    BY <1>6, <2>1 DEF ReleaseDone, AnswerInv, OneAnswer, JobInv, Silent
  <2>4. JobInv'
    BY <1>6, <2>1, <2>2 DEF ReleaseDone, AnswerInv, JobInv, Silent, NoJob
  <2> QED
    BY <1>1, <2>3, <2>4 DEF AnswerInv
<1>7. ASSUME NEW n \in LockNode, AskLock(n) \/ AskSticky(n) PROVE AnswerInv'
  <2>1. PICK t \in Tid, op \in Op, oid \in Oid :
           /\ Idle(n, t)
           /\ RequestLock(n, t, op, oid) \/ TestSetSticky(n, t, op, oid)
    BY <1>7 DEF AskLock, AskSticky
  <2>2. Silent(n, t)
    BY <2>1 DEF Idle, Silent
  <2> QED
    BY <1>1, <2>1, <2>2, RequestEffect, RequestKeepsAnswers
<1>8. ASSUME NEW n \in LockNode, MoveSticky(n) PROVE AnswerInv'
  BY <1>1, <1>8 DEF MoveSticky, Stick, Unstick, AnswerInv, OneAnswer, JobInv, Silent
<1>9. ASSUME NEW n \in LockNode, Restart(n) PROVE AnswerInv'
  <2>1. PICK t \in Tid : Idle(n, t) /\ ReleaseLocks(n, t, {}, {t}) /\ UNCHANGED replies
    BY <1>9 DEF Restart, SyncReleaseTid
  <2>2. \A u \in {t} : Silent(n, u)
    BY <2>1 DEF Idle, Silent
  <2> QED
    BY <1>1, <2>1, <2>2, ReleaseKeepsAnswers
<1>10. ASSUME NEW n \in LockNode, End(n) PROVE AnswerInv'
  <2>1. PICK t \in Tid : ReleaseLocks(n, t, {}, {}) /\ UNCHANGED replies
    BY <1>10 DEF End, ReleaseTid
  <2> QED
    BY <1>1, <2>1, ReleaseKeepsAnswers
<1>11. ASSUME NEW n \in LockNode, NodeDown(n) PROVE AnswerInv'
  <2>1. PICK gone : job' = [job EXCEPT ![n].tids = gone]
    BY <1>11 DEF NodeDown, ReleaseRemoteNonPending
  <2>2. \A m \in LockNode : job'[m].try = job[m].try /\ job'[m].ack = job[m].ack
    BY <2>1 DEF AnswerInv, TypeOK, Job
  <2>3. UNCHANGED <<lockQueue, replies>>
    BY <1>11 DEF NodeDown, ReleaseRemoteNonPending
  <2> QED
    BY <1>1, <2>2, <2>3 DEF AnswerInv, OneAnswer, JobInv, Silent
<1>12. ASSUME NEW n \in LockNode, Receive(n) PROVE AnswerInv'
  <2>1. \A m \in LockNode : replies'[m] \subseteq replies[m]
    BY <1>12 DEF Receive, AnswerInv, TypeOK
  <2>2. UNCHANGED <<lockQueue, job>>
    BY <1>12 DEF Receive
  <2> QED
    BY <1>1, <2>1, <2>2 DEF AnswerInv, OneAnswer, JobInv, Silent
<1> QED
  BY <1>2, <1>3, <1>4, <1>5, <1>6, <1>7, <1>8, <1>9, <1>10, <1>11, <1>12
     DEF Next, Loop, Rearrange

\* A request is queued or answered, and only once.
THEOREM AnswerInvariant == Spec => []AnswerInv
<1>1. Init => AnswerInv
  BY DEF Init, AnswerInv, TypeOK, NoJob, Job, OneAnswer, JobInv, Silent
<1> QED
  BY <1>1, AnswerStep, PTL DEF Spec

\* A transaction never waits twice at a lock manager, and never gets an
\* answer to a request while an earlier answer is in transit.
THEOREM AnsweredOnce == Spec => []OneAnswer
<1>1. AnswerInv => OneAnswer
  BY DEF AnswerInv
<1> QED
  BY <1>1, AnswerInvariant, PTL

-----------------------------------------------------------------------------
(* No lost wakeup.                                                         *)

\* The waiters collected for an item are all of its table, and unless the
\* item is the table itself they all overlap each other.
ScopeInv ==
    \A n \in LockNode : \A v, w \in job[n].try :
        v.oid.tab = w.oid.tab /\ (~job[n].whole => Overlap(v.oid, w.oid))

\* While a release goes on, a waiter may also be about to be tried.
Awaited(n, w) ==
    \/ \E t \in Tid : WakesUp(n, t, w)
    \/ w \in job[n].try
    \/ \E o \in job[n].oids : Overlap(o, w.oid)

WakeInv ==
    /\ LockInv /\ AnswerInv /\ ScopeInv
    /\ \A n \in LockNode : \A w \in lockQueue[n] : Awaited(n, w)

\* A request is only queued behind a transaction whose release will wake it.
LEMMA QueuedBehind ==
    ASSUME LockInv, NEW n \in LockNode, NEW w \in Waiter, NEW isNew \in BOOLEAN,
           CanLock(n, w.tid, LockOf(w.op), w.oid, isNew) = "queue"
    PROVE  \E t \in Tid : WakesUp(n, t, w)
<1> DEFINE blockers == Blockers(n, w.tid, LockOf(w.op), w.oid)
<1>1. ASSUME NEW u \in blockers PROVE
         u \in Tid /\ u # w.tid /\ \E l \in tidLocks[n] : l.tid = u /\ Overlap(l.oid, w.oid)
  <2>1. PICK h \in held[n] : h.tid = u /\ Overlap(h.oid, w.oid)
    BY <1>1 DEF Blockers
  <2>2. [tid |-> h.tid, oid |-> h.oid, op |-> h.op] \in tidLocks[n]
    BY DEF LockInv, Tracked
  <2>3. u \in Tid
    BY <2>1 DEF LockInv, TypeOK, Held
  <2>4. u # w.tid
    BY <1>1 DEF Blockers
  <2> QED
    BY <2>1, <2>2, <2>3, <2>4
<1>2. CASE blockers # {}
  <2>1. PICK u \in blockers : TRUE
    BY <1>2
  <2>2. MayWaitFor(w.tid, u) \/ PidOf[u] = PidOf[w.tid]
    BY <2>1 DEF CanLock
  <2> QED
    BY <1>1, <2>1, <2>2 DEF WakesUp
<1>3. ASSUME NEW u, u \in QueuedOn(n, w.oid) \/ u \in QueuedOn(n, WholeTab(w.oid)),
             MayWaitFor(w.tid, u)
      PROVE  \E t \in Tid : WakesUp(n, t, w)
  <2>1. PICK v \in lockQueue[n] :
           v.tid = u /\ (v.oid = w.oid \/ v.oid = WholeTab(w.oid))
    BY <1>3 DEF QueuedOn
  <2>2. [tid |-> v.tid, oid |-> v.oid, op |-> "queued"] \in tidLocks[n]
    BY DEF LockInv, Tracked
  <2>3. Overlap(v.oid, w.oid)
    BY <2>1 DEF Overlap, WholeTab
  <2>4. u \in Tid
    BY <2>1 DEF LockInv, TypeOK, Waiter
  <2> QED
    BY <1>3, <2>1, <2>2, <2>3, <2>4 DEF WakesUp
<1>4. CASE blockers = {}
  <2>1. CheckWaiters(n, w.tid, LockOf(w.op), w.oid) = "queue"
    BY <1>4 DEF CanLock
  <2>2. \/ \E u \in QueuedOn(n, w.oid) : MayWaitFor(w.tid, u)
        \/ \E u \in QueuedOn(n, WholeTab(w.oid)) : MayWaitFor(w.tid, u)
    BY <2>1 DEF CheckWaiters, CheckQueue
  <2> QED
    BY <1>3, <2>2
<1> QED
  BY <1>2, <1>4

\* New entries in mnesia_tid_locks take no reason away.
LEMMA MoreLocksWake ==
    ASSUME NEW n, NEW t, NEW w, WakesUp(n, t, w), tidLocks[n] \subseteq tidLocks'[n]
    PROVE  WakesUp(n, t, w)'
BY DEF WakesUp

\* To grant a lock removes none.
LEMMA GrantGrows ==
    ASSUME TypeOK, NEW n \in LockNode, NEW t, NEW op, NEW oid,
           GrantLock(n, t, op, oid) \/ TryLock(n, t, op, oid)
    PROVE  \A m \in LockNode : tidLocks[m] \subseteq tidLocks'[m]
BY ZenonT(60) DEF TypeOK, GrantLock, TryLock, SetLock

\* The waiters a release still has to try, when it goes on to the next.
LEMMA SetTry ==
    ASSUME TypeOK, NEW n \in LockNode, NEW left, job' = [job EXCEPT ![n].try = left]
    PROVE  /\ job'[n].try = left
           /\ job'[n].oids = job[n].oids
           /\ job'[n].whole = job[n].whole
<1>1. job[n] \in Job
  BY DEF TypeOK
<1>2. job'[n] = [job[n] EXCEPT !.try = left]
  BY DEF TypeOK
<1> QED
  BY <1>1, <1>2 DEF Job

\* The transactions a release still has to end, when it goes on to the next.
LEMMA SetTids ==
    ASSUME TypeOK, NEW n \in LockNode, NEW gone, job' = [job EXCEPT ![n].tids = gone]
    PROVE  \A m \in LockNode :
              /\ job'[m].try = job[m].try
              /\ job'[m].oids = job[m].oids
              /\ job'[m].whole = job[m].whole
<1>1. job[n] \in Job
  BY DEF TypeOK
<1>2. \A m \in LockNode :
         job'[m] = IF m = n THEN [job[n] EXCEPT !.tids = gone] ELSE job[m]
  BY DEF TypeOK
<1> QED
  BY <1>1, <1>2 DEF Job

\* What remains to be shown of a step, when the rest of WakeInv is known.
LEMMA RequestKeepsWakes ==
    ASSUME WakeInv, NEW n \in LockNode, NEW t \in Tid, NEW op \in Op,
           NEW oid \in Oid, RequestLock(n, t, op, oid) \/ TestSetSticky(n, t, op, oid)
    PROVE  \A m \in LockNode : \A w \in lockQueue'[m] : Awaited(m, w)'
<1>1. UNCHANGED job
  BY DEF RequestLock, TestSetSticky
<1>2. \A m \in LockNode : tidLocks[m] \subseteq tidLocks'[m]
  BY GrantGrows DEF WakeInv, LockInv, RequestLock, TestSetSticky
<1>3. ASSUME NEW m \in LockNode, NEW w \in lockQueue[m] PROVE Awaited(m, w)'
  BY <1>1, <1>2, <1>3, MoreLocksWake DEF WakeInv, Awaited
<1>4. CASE UNCHANGED lockQueue
  BY <1>3, <1>4
<1>5. CASE Enqueued(n, t, op, oid)
  <2> DEFINE new == [oid |-> oid, tid |-> t, op |-> op]
  <2>1. new \in Waiter
    BY DEF Waiter
  <2>2. CanLock(n, new.tid, LockOf(new.op), new.oid, TRUE) = "queue"
    BY <1>5 DEF Enqueued
  <2>3. \E u \in Tid : WakesUp(n, u, new)
    <3> HIDE DEF new
    <3> QED
      BY <2>1, <2>2, QueuedBehind DEF WakeInv
  <2>4. Awaited(n, new)'
    BY <1>2, <2>3, MoreLocksWake DEF Awaited
  <2>5. \A m \in LockNode : \A w \in lockQueue'[m] : w \in lockQueue[m] \/ (m = n /\ w = new)
    BY <1>5 DEF Enqueued, WakeInv, LockInv, TypeOK
  <2> QED
    BY <1>3, <2>4, <2>5
<1> QED
  BY <1>4, <1>5, TryLockEffect DEF RequestLock, TestSetSticky

\* A released transaction leaves its items behind for the queue to be
\* rearranged, so whoever waited for it is about to be tried.
LEMMA ReleaseKeepsWakes ==
    ASSUME WakeInv, NEW n \in LockNode, NEW t \in Tid, NEW others, NEW ack,
           ReleaseLocks(n, t, others, ack),
           job[n].try = {}, job[n].oids = {}
    PROVE  /\ ScopeInv'
           /\ \A m \in LockNode : \A w \in lockQueue'[m] : Awaited(m, w)'
<1> DEFINE locks == {l \in tidLocks[n] : l.tid = t}
<1>1. \A m \in LockNode : tidLocks'[m] =
         IF m = n THEN tidLocks[n] \ locks ELSE tidLocks[m]
  BY DEF ReleaseLocks, WakeInv, LockInv, TypeOK
<1>2. \A m \in LockNode :
         /\ lockQueue'[m] \subseteq lockQueue[m]
         /\ m # n => job'[m] = job[m]
  BY DEF ReleaseLocks, WakeInv, LockInv, TypeOK
<1>3. job'[n].try = {} /\ job'[n].oids = {l.oid : l \in locks}
  BY DEF ReleaseLocks, WakeInv, LockInv, TypeOK
<1>4. ScopeInv'
  BY <1>2, <1>3 DEF WakeInv, ScopeInv
<1>5. ASSUME NEW m \in LockNode, NEW w \in lockQueue'[m] PROVE Awaited(m, w)'
  <2>1. Awaited(m, w)
    BY <1>2 DEF WakeInv
  <2>2. CASE m # n
    BY <1>1, <1>2, <2>1, <2>2 DEF Awaited, WakesUp
  <2>3. CASE m = n
    <3>1. PICK u \in Tid : WakesUp(n, u, w)
      BY <2>1, <2>3 DEF Awaited
    <3>2. PICK l \in tidLocks[n] : l.tid = u /\ Overlap(l.oid, w.oid)
      BY <3>1 DEF WakesUp
    <3>3. CASE u = t
      <4>1. l.oid \in job'[n].oids
        BY <1>3, <3>2, <3>3
      <4> QED
        BY <2>3, <3>2, <4>1 DEF Awaited
    <3>4. CASE u # t
      <4>1. l \in tidLocks'[n]
        BY <1>1, <3>2, <3>4
      <4> QED
        BY <2>3, <3>1, <3>2, <4>1 DEF Awaited, WakesUp
    <3> QED
      BY <3>3, <3>4
  <2> QED
    BY <2>2, <2>3
<1> QED
  BY <1>4, <1>5

\* The waiters a release concerns are put on its list.
LEMMA RearrangeKeepsWakes ==
    ASSUME WakeInv, NEW n \in LockNode, RearrangeQueue(n)
    PROVE  /\ ScopeInv'
           /\ \A m \in LockNode : \A w \in lockQueue'[m] : Awaited(m, w)'
<1>1. PICK o \in job[n].oids : job' = [job EXCEPT ![n].oids = @ \ {o},
                                               ![n].try = Concerned(n, o),
                                               ![n].whole = (o.key = ALL)]
  BY DEF RearrangeQueue
<1>2. \A m \in LockNode : m # n => job'[m] = job[m]
  BY <1>1 DEF WakeInv, LockInv, TypeOK
<1>3. /\ job'[n].oids = job[n].oids \ {o}
      /\ job'[n].try = Concerned(n, o)
      /\ job'[n].whole = (o.key = ALL)
  BY <1>1 DEF WakeInv, LockInv, TypeOK, Job
<1>4. ScopeInv'
  <2>1. ASSUME NEW v \in Concerned(n, o), NEW w \in Concerned(n, o)
        PROVE  v.oid.tab = w.oid.tab /\ (o.key # ALL => Overlap(v.oid, w.oid))
    BY <2>1 DEF Concerned, Overlap
  <2>2. ASSUME NEW m \in LockNode, NEW v \in job'[m].try, NEW w \in job'[m].try
        PROVE  v.oid.tab = w.oid.tab /\ (~job'[m].whole => Overlap(v.oid, w.oid))
    <3>1. CASE m = n
      BY <1>3, <2>1, <2>2, <3>1
    <3>2. CASE m # n
      BY <1>2, <2>2, <3>2 DEF WakeInv, ScopeInv
    <3> QED
      BY <3>1, <3>2
  <2> QED
    BY <2>2 DEF ScopeInv
<1>5. ASSUME NEW m \in LockNode, NEW w \in lockQueue'[m] PROVE Awaited(m, w)'
  <2>1. Awaited(m, w) /\ w \in lockQueue[m] /\ tidLocks' = tidLocks
    BY DEF RearrangeQueue, WakeInv
  <2>2. CASE m # n
    BY <1>2, <2>1, <2>2 DEF Awaited, WakesUp
  <2>3. CASE m = n
    BY <1>3, <2>1, <2>3 DEF RearrangeQueue, Awaited, WakesUp, Concerned
  <2> QED
    BY <2>2, <2>3
<1> QED
  BY <1>4, <1>5

\* A waiter that stays in the queue is the reason of those that are not
\* tried because of it: they are older and their items overlap.
LEMMA PassedOver ==
    ASSUME WakeInv, NEW n \in LockNode, NEW w \in job[n].try, NextWaiter(n, w),
           NEW v \in job[n].try, v # w, v \notin TriedAfterQueued(n, w)
    PROVE  WakesUp(n, w.tid, v)
<1>1. v \in lockQueue[n] /\ w \in lockQueue[n]
  BY DEF WakeInv, AnswerInv, JobInv
<1>2. v.tid \in Nat /\ w.tid \in Nat
  <2>1. v \in Waiter /\ w \in Waiter
    BY <1>1 DEF WakeInv, LockInv, TypeOK
  <2> QED
    BY <2>1 DEF Waiter
<1>3. v.tid # w.tid
  BY <1>1 DEF WakeInv, AnswerInv, OneAnswer
<1>4. v.tid <= w.tid
  BY DEF NextWaiter
<1>5. MayWaitFor(v.tid, w.tid)
  BY <1>2, <1>3, <1>4 DEF MayWaitFor
<1>6. [tid |-> w.tid, oid |-> w.oid, op |-> "queued"] \in tidLocks[n]
  BY <1>1 DEF WakeInv, LockInv, Tracked
<1>7. Overlap(w.oid, v.oid)
  BY DEF WakeInv, ScopeInv, TriedAfterQueued, Overlap
<1> QED
  BY <1>5, <1>6, <1>7 DEF WakesUp

\* A waiter that is tried is answered, or waits for another transaction.
LEMMA TryWaiterKeepsWakes ==
    ASSUME WakeInv, NEW n \in LockNode, TryWaiter(n)
    PROVE  /\ ScopeInv'
           /\ \A m \in LockNode : \A v \in lockQueue'[m] : Awaited(m, v)'
<1>1. PICK w \in job[n].try :
         /\ NextWaiter(n, w)
         /\ \/ /\ CanLock(n, w.tid, LockOf(w.op), w.oid, FALSE) = "queue"
               /\ job' = [job EXCEPT ![n].try = TriedAfterQueued(n, w)]
               /\ UNCHANGED <<tidLocks, lockQueue>>
            \/ /\ Dequeue(n, w)
               /\ GrantLock(n, w.tid, w.op, w.oid) \/ UNCHANGED tidLocks
               /\ job' = [job EXCEPT ![n].try = @ \ {w}]
  BY DEF TryWaiter
<1>2. w \in lockQueue[n] /\ w \in Waiter
  BY DEF WakeInv, LockInv, TypeOK, AnswerInv, JobInv
<1>3. \A m \in LockNode : tidLocks[m] \subseteq tidLocks'[m]
  BY <1>1, GrantGrows DEF WakeInv, LockInv
<1>4. \A m \in LockNode : m # n => job'[m] = job[m]
  BY <1>1 DEF WakeInv, LockInv, TypeOK
<1>5. job'[n].oids = job[n].oids /\ job'[n].whole = job[n].whole
  BY <1>1, SetTry DEF WakeInv, LockInv
<1>6. \A m \in LockNode : lockQueue'[m] \subseteq lockQueue[m]
  BY <1>1, ZenonT(60) DEF Dequeue, WakeInv, LockInv, TypeOK
<1>7. job'[n].try \subseteq job[n].try
  <2>1. TriedAfterQueued(n, w) \subseteq job[n].try
    BY DEF TriedAfterQueued
  <2>2. PICK left : left \subseteq job[n].try /\ job' = [job EXCEPT ![n].try = left]
    BY <1>1, <2>1
  <2> QED
    BY <2>2, SetTry DEF WakeInv, LockInv
<1>8. ScopeInv'
  BY <1>4, <1>5, <1>7 DEF WakeInv, ScopeInv
<1>9. ASSUME NEW m \in LockNode, NEW v \in lockQueue'[m] PROVE Awaited(m, v)'
  <2>1. Awaited(m, v)
    BY <1>6 DEF WakeInv
  <2>2. CASE m # n \/ v \notin job[n].try
    BY <1>3, <1>4, <1>5, <2>1, <2>2, MoreLocksWake DEF Awaited
  <2>3. CASE m = n /\ v \in job'[n].try
    BY <2>3 DEF Awaited
  <2>4. CASE m = n /\ v \in job[n].try /\ v \notin job'[n].try
    <3>1. CASE /\ CanLock(n, w.tid, LockOf(w.op), w.oid, FALSE) = "queue"
               /\ job' = [job EXCEPT ![n].try = TriedAfterQueued(n, w)]
      <4>1. v \notin TriedAfterQueued(n, w)
        BY <2>4, <3>1, SetTry DEF WakeInv, LockInv
      <4>2. \E t \in Tid : WakesUp(n, t, v)
        <5>1. CASE v = w
          BY <1>2, <3>1, <5>1, QueuedBehind DEF WakeInv
        <5>2. CASE v # w
          BY <1>1, <1>2, <2>4, <4>1, <5>2, PassedOver DEF Waiter
        <5> QED
          BY <5>1, <5>2
      <4> QED
        BY <1>3, <2>4, <4>2, MoreLocksWake DEF Awaited
    <3>2. CASE Dequeue(n, w) /\ job' = [job EXCEPT ![n].try = @ \ {w}]
      <4>1. v = w
        BY <2>4, <3>2, SetTry DEF WakeInv, LockInv
      <4>2. w \notin lockQueue'[n]
        BY <3>2 DEF Dequeue, WakeInv, LockInv, TypeOK
      <4> QED
        BY <2>4, <4>1, <4>2
    <3> QED
      BY <1>1, <3>1, <3>2
  <2> QED
    BY <2>2, <2>3, <2>4
<1> QED
  BY <1>8, <1>9

\* The steps that change neither the queue nor what it waits for.
LEMMA OtherKeepsWakes ==
    ASSUME WakeInv, NEW n \in LockNode, UNCHANGED <<tidLocks, lockQueue>>,
           \A m \in LockNode :
              /\ job'[m].try = job[m].try
              /\ job'[m].oids = job[m].oids
              /\ job[m].try # {} => job'[m].whole = job[m].whole
    PROVE  /\ ScopeInv'
           /\ \A m \in LockNode : \A w \in lockQueue'[m] : Awaited(m, w)'
BY DEF WakeInv, ScopeInv, Awaited, WakesUp

\* Every step of a lock manager leaves each waiter with somebody who will have
\* it tried again.
THEOREM WakeStep == WakeInv /\ [Next]_vars => WakeInv'
<1> SUFFICES ASSUME WakeInv, [Next]_vars PROVE WakeInv'
  OBVIOUS
<1>1. LockInv' /\ AnswerInv'
  BY LockStep, AnswerStep DEF WakeInv
<1> SUFFICES /\ ScopeInv'
             /\ \A m \in LockNode : \A w \in lockQueue'[m] : Awaited(m, w)'
  BY <1>1 DEF WakeInv
<1>2. CASE UNCHANGED vars
  BY <1>2 DEF vars, WakeInv, ScopeInv, Awaited, WakesUp
<1>3. ASSUME NEW n \in LockNode, ReleaseNext(n)
      PROVE  /\ ScopeInv'
             /\ \A m \in LockNode : \A w \in lockQueue'[m] : Awaited(m, w)'
  <2>1. job[n].tids \subseteq Tid
    BY DEF WakeInv, LockInv, TypeOK, Job
  <2> QED
    BY <1>3, <2>1, ReleaseKeepsWakes DEF ReleaseNext
<1>4. ASSUME NEW n \in LockNode, Restart(n) \/ End(n)
      PROVE  /\ ScopeInv'
             /\ \A m \in LockNode : \A w \in lockQueue'[m] : Awaited(m, w)'
  <2>1. PICK t \in Tid, ack \in SUBSET Tid :
               job[n] = NoJob /\ ReleaseLocks(n, t, {}, ack)
    BY <1>4 DEF Restart, End, SyncReleaseTid, ReleaseTid, Busy
  <2>2. job[n].try = {} /\ job[n].oids = {}
    BY <2>1 DEF NoJob
  <2> QED
    BY <2>1, <2>2, ReleaseKeepsWakes
<1>5. ASSUME NEW n \in LockNode, AskLock(n) \/ AskSticky(n)
      PROVE  /\ ScopeInv'
             /\ \A m \in LockNode : \A w \in lockQueue'[m] : Awaited(m, w)'
  <2>1. PICK t \in Tid, op \in Op, oid \in Oid :
           RequestLock(n, t, op, oid) \/ TestSetSticky(n, t, op, oid)
    BY <1>5 DEF AskLock, AskSticky
  <2>2. UNCHANGED job
    BY <2>1 DEF RequestLock, TestSetSticky
  <2> QED
    BY <2>1, <2>2, RequestKeepsWakes DEF WakeInv, ScopeInv
<1>6. ASSUME NEW n \in LockNode, ReleaseDone(n)
      PROVE  /\ ScopeInv'
             /\ \A m \in LockNode : \A w \in lockQueue'[m] : Awaited(m, w)'
  <2>1. \A m \in LockNode : job'[m] = IF m = n THEN NoJob ELSE job[m]
    BY <1>6 DEF ReleaseDone, WakeInv, LockInv, TypeOK
  <2>2. job[n].try = {} /\ job[n].oids = {} /\ UNCHANGED <<tidLocks, lockQueue>>
    BY <1>6 DEF ReleaseDone
  <2>3. \A m \in LockNode :
           /\ job'[m].try = job[m].try
           /\ job'[m].oids = job[m].oids
           /\ job[m].try # {} => job'[m].whole = job[m].whole
    <3>1. job'[n].try = {} /\ job'[n].oids = {}
      BY <2>1 DEF NoJob
    <3>2. \A m \in LockNode : m # n => job'[m] = job[m]
      BY <2>1
    <3> QED
      BY <2>2, <3>1, <3>2
  <2> QED
    BY <2>2, <2>3, OtherKeepsWakes
<1>7. ASSUME NEW n \in LockNode, NodeDown(n)
      PROVE  /\ ScopeInv'
             /\ \A m \in LockNode : \A w \in lockQueue'[m] : Awaited(m, w)'
  <2>1. PICK gone : job' = [job EXCEPT ![n].tids = gone]
    BY <1>7 DEF NodeDown, ReleaseRemoteNonPending
  <2>2. UNCHANGED <<tidLocks, lockQueue>>
    BY <1>7 DEF NodeDown, ReleaseRemoteNonPending
  <2>3. \A m \in LockNode :
           /\ job'[m].try = job[m].try
           /\ job'[m].oids = job[m].oids
           /\ job'[m].whole = job[m].whole
    BY <2>1, SetTids DEF WakeInv, LockInv
  <2> QED
    BY <2>2, <2>3, OtherKeepsWakes
<1>8. ASSUME NEW n \in LockNode, MoveSticky(n) \/ Receive(n)
      PROVE  /\ ScopeInv'
             /\ \A m \in LockNode : \A w \in lockQueue'[m] : Awaited(m, w)'
  <2>1. UNCHANGED <<tidLocks, lockQueue, job>>
    BY <1>8 DEF MoveSticky, Stick, Unstick, Receive
  <2> QED
    BY <2>1, OtherKeepsWakes
<1> QED
  BY <1>2, <1>3, <1>4, <1>5, <1>6, <1>7, <1>8, RearrangeKeepsWakes, TryWaiterKeepsWakes
     DEF Next, Loop, Rearrange

\* Every waiter waits for a lock, or for a round of the release loop to come.
THEOREM WakeInvariant == Spec => []WakeInv
<1>1. Init => WakeInv
  BY DEF Init, WakeInv, LockInv, AnswerInv, TypeOK, NoJob, Job, LockExclusion, Tracked,
         OneAnswer, JobInv, Silent, ScopeInv
<1> QED
  BY <1>1, WakeStep, PTL DEF Spec

\* Whenever the lock manager is done with a message, every waiter waits for a
\* younger transaction, or for an earlier one of its own process, whose
\* release will have it tried again.
THEOREM WakeupsAreNotLost == Spec => []NoLostWakeup
<1>1. WakeInv => NoLostWakeup
  BY DEF WakeInv, NoLostWakeup, Awaited, Busy, NoJob
<1> QED
  BY <1>1, WakeInvariant, PTL

-----------------------------------------------------------------------------
(* Nobody is overtaken.                                                    *)

\* The waiters v and w stand in line for the same: the item of w or its table.
Behind(w, v) == v.oid \in {w.oid, WholeTab(w.oid)}

\* Behind a waiter still to be tried nobody younger has been left out.
InOrder ==
    \A n \in LockNode : \A w \in job[n].try : \A v \in lockQueue[n] :
        Behind(w, v) /\ v.tid > w.tid => v \in job[n].try

OrderInv == AnswerInv /\ InOrder

\* A step that leaves the queue and the waiters to be tried alone, or leaves
\* none of them to be tried, keeps the order.
LEMMA OtherKeepsOrder ==
    ASSUME OrderInv,
           \A m \in LockNode :
              \/ job'[m].try = {}
              \/ lockQueue'[m] \subseteq lockQueue[m] /\ job'[m].try = job[m].try
    PROVE  InOrder'
BY DEF OrderInv, InOrder

\* All the waiters a released item concerns are collected: who waits for the
\* same item, or for its table, is concerned as well.
LEMMA RearrangeKeepsOrder ==
    ASSUME OrderInv, NEW n \in LockNode, RearrangeQueue(n)
    PROVE  InOrder'
<1>1. PICK o \in job[n].oids : job' = [job EXCEPT ![n].oids = @ \ {o},
                                               ![n].try = Concerned(n, o),
                                               ![n].whole = (o.key = ALL)]
  BY DEF RearrangeQueue
<1>2. \A m \in LockNode : m # n => job'[m] = job[m]
  BY <1>1 DEF OrderInv, AnswerInv, TypeOK
<1>3. job'[n].try = Concerned(n, o)
  BY <1>1 DEF OrderInv, AnswerInv, TypeOK, Job
<1>4. ASSUME NEW w \in Concerned(n, o), NEW v \in lockQueue[n], Behind(w, v)
      PROVE  v \in Concerned(n, o)
  BY <1>4 DEF Concerned, Behind, Overlap, WholeTab
<1>5. UNCHANGED lockQueue
  BY DEF RearrangeQueue
<1> QED
  BY <1>2, <1>3, <1>4, <1>5 DEF OrderInv, InOrder

\* A waiter that stays takes with it all those of its own item.
LEMMA TryWaiterKeepsOrder ==
    ASSUME OrderInv, NEW n \in LockNode, TryWaiter(n)
    PROVE  InOrder'
<1>1. PICK w \in job[n].try :
         \/ /\ job' = [job EXCEPT ![n].try = TriedAfterQueued(n, w)]
            /\ UNCHANGED lockQueue
         \/ /\ Dequeue(n, w)
            /\ job' = [job EXCEPT ![n].try = @ \ {w}]
  BY DEF TryWaiter
<1>2. \A m \in LockNode : m # n => job'[m] = job[m] /\ lockQueue'[m] = lockQueue[m]
  BY <1>1 DEF OrderInv, AnswerInv, TypeOK, Dequeue
<1>3. CASE /\ job' = [job EXCEPT ![n].try = TriedAfterQueued(n, w)]
           /\ UNCHANGED lockQueue
  <2>1. job'[n].try = TriedAfterQueued(n, w)
    BY <1>3, SetTry DEF OrderInv, AnswerInv
  <2>2. ASSUME NEW x \in TriedAfterQueued(n, w), NEW v \in lockQueue[n],
               Behind(x, v), v.tid > x.tid
        PROVE  v \in TriedAfterQueued(n, w)
    <3>1. x \in job[n].try /\ x.oid # w.oid /\ w.oid.key # ALL
      BY <2>2 DEF TriedAfterQueued
    <3>2. v \in job[n].try
      BY <2>2, <3>1 DEF OrderInv, InOrder
    <3>3. v.oid # w.oid
      BY <2>2, <3>1 DEF Behind, WholeTab
    <3> QED
      BY <2>2, <3>2, <3>3 DEF TriedAfterQueued
  <2> QED
    BY <1>2, <1>3, <2>1, <2>2 DEF OrderInv, InOrder
<1>4. CASE /\ Dequeue(n, w)
           /\ job' = [job EXCEPT ![n].try = @ \ {w}]
  <2>1. job'[n].try = job[n].try \ {w} /\ lockQueue'[n] = lockQueue[n] \ {w}
    BY <1>4 DEF OrderInv, AnswerInv, TypeOK, Job, Dequeue
  <2> QED
    BY <1>2, <2>1 DEF OrderInv, InOrder
<1> QED
  BY <1>1, <1>3, <1>4

\* Every step of a lock manager keeps the waiters to be tried in line.
THEOREM OrderStep == OrderInv /\ [Next]_vars => OrderInv'
<1> SUFFICES ASSUME OrderInv, [Next]_vars PROVE InOrder'
  BY AnswerStep DEF OrderInv
<1>1. TypeOK
  BY DEF OrderInv, AnswerInv
<1>2. CASE UNCHANGED vars
  BY <1>2 DEF vars, OrderInv, InOrder
<1>3. ASSUME NEW n \in LockNode, ReleaseNext(n) \/ Restart(n) \/ End(n) PROVE InOrder'
  <2>1. PICK t, others, ack : ReleaseLocks(n, t, others, ack)
    BY <1>3 DEF ReleaseNext, Restart, End, SyncReleaseTid, ReleaseTid
  <2>2. \A m \in LockNode :
           \/ job'[m].try = {}
           \/ lockQueue'[m] \subseteq lockQueue[m] /\ job'[m].try = job[m].try
    BY <1>1, <2>1 DEF ReleaseLocks, TypeOK
  <2> QED
    BY <2>2, OtherKeepsOrder
<1>4. ASSUME NEW n \in LockNode, AskLock(n) \/ AskSticky(n) PROVE InOrder'
  <2>1. PICK t \in Tid, op \in Op, oid \in Oid :
           RequestLock(n, t, op, oid) \/ TestSetSticky(n, t, op, oid)
    BY <1>4 DEF AskLock, AskSticky
  <2>2. job[n] = NoJob /\ UNCHANGED job
    BY <2>1 DEF RequestLock, TestSetSticky, Busy
  <2>3. \A m \in LockNode : m # n => lockQueue'[m] = lockQueue[m]
    BY <1>1, <2>1 DEF RequestLock, TestSetSticky, TryLock, TypeOK
  <2> QED
    BY <2>2, <2>3, OtherKeepsOrder DEF NoJob
<1>5. ASSUME NEW n \in LockNode, ReleaseDone(n) PROVE InOrder'
  <2>1. \A m \in LockNode : job'[m] = IF m = n THEN NoJob ELSE job[m]
    BY <1>1, <1>5 DEF ReleaseDone, TypeOK
  <2> QED
    BY <1>5, <2>1, OtherKeepsOrder DEF ReleaseDone, NoJob
<1>6. ASSUME NEW n \in LockNode, NodeDown(n) PROVE InOrder'
  <2>1. UNCHANGED lockQueue /\ \E gone : job' = [job EXCEPT ![n].tids = gone]
    BY <1>6 DEF NodeDown, ReleaseRemoteNonPending
  <2> QED
    BY <1>1, <2>1, SetTids, OtherKeepsOrder
<1>7. ASSUME NEW n \in LockNode, MoveSticky(n) \/ Receive(n) PROVE InOrder'
  <2>1. UNCHANGED <<lockQueue, job>>
    BY <1>7 DEF MoveSticky, Stick, Unstick, Receive
  <2> QED
    BY <2>1, OtherKeepsOrder
<1> QED
  BY <1>2, <1>3, <1>4, <1>5, <1>6, <1>7, RearrangeKeepsOrder, TryWaiterKeepsOrder
     DEF Next, Loop, Rearrange

\* A new request finds nobody younger in the queue of the table, nor a reader
\* anybody in the queue of its record.
LEMMA NewInLine ==
    ASSUME NEW n, NEW t, NEW lock, NEW oid, CanLock(n, t, lock, oid, TRUE) = "yes"
    PROVE  /\ \A v \in lockQueue[n] : v.oid = WholeTab(oid) => ~(v.tid > t)
           /\ lock # "write" /\ oid.key # ALL => \A v \in lockQueue[n] : v.oid # oid
<1>1. CheckWaiters(n, t, lock, oid) = "yes"
  BY DEF CanLock
<1>2. CheckQueue(n, t, oid, "yes") = "yes"
  BY <1>1 DEF CheckWaiters, CheckQueue
<1>3. ~\E u \in QueuedOn(n, WholeTab(oid)) : MayWaitFor(t, u)
  BY <1>2 DEF CheckQueue
<1>4. \A v \in lockQueue[n] : v.oid = WholeTab(oid) => v.tid \in QueuedOn(n, WholeTab(oid))
  BY DEF QueuedOn
<1>5. lock # "write" /\ oid.key # ALL => QueuedOn(n, oid) = {}
  BY <1>1 DEF CheckWaiters, CheckQueue
<1>6. QueuedOn(n, oid) = {} => \A v \in lockQueue[n] : v.oid # oid
  BY DEF QueuedOn
<1> QED
  BY <1>3, <1>4, <1>5, <1>6 DEF MayWaitFor

\* Who is granted the lock h overtakes nobody in the queue that is left.
Overtakes(n, h) ==
    \E v \in lockQueue'[n] :
        /\ v.tid > h.tid
        /\ \/ v.oid = WholeTab(h.oid)
           \/ v.oid = h.oid /\ ~(h.op = "write" /\ h.tid \notin QueuedOn(n, h.oid))

\* The only lock a request can add is its own.
LEMMA GrantAddsOne ==
    ASSUME TypeOK, NEW n \in LockNode, NEW t, NEW op, NEW oid, GrantLock(n, t, op, oid),
           NEW m \in LockNode, NEW h \in held'[m] \ held[m]
    PROVE  m = n /\ h = [oid |-> oid, op |-> LockOf(op), tid |-> t]
BY DEF GrantLock, SetLock, TypeOK

\* A new request that is granted overtakes nobody.
LEMMA RequestOvertakesNobody ==
    ASSUME TypeOK, NEW n \in LockNode, NEW t \in Tid, NEW op \in Op, NEW oid \in Oid,
           Idle(n, t), RequestLock(n, t, op, oid) \/ TestSetSticky(n, t, op, oid),
           NEW m \in LockNode, NEW h \in held'[m] \ held[m]
    PROVE  ~Overtakes(m, h)
<1>1. /\ CanLock(n, t, LockOf(op), oid, TRUE) = "yes"
      /\ GrantLock(n, t, op, oid)
      /\ UNCHANGED lockQueue
  BY DEF RequestLock, TestSetSticky, TryLock
<1>2. m = n /\ h.oid = oid /\ h.op = LockOf(op) /\ h.tid = t
  BY <1>1, GrantAddsOne
<1>3. t \notin QueuedOn(n, oid)
  BY DEF Idle, QueuedOn
<1>4. oid.key = ALL => oid = WholeTab(oid)
  BY DEF Oid, WholeTab
<1>5. /\ \A v \in lockQueue[n] : v.oid = WholeTab(oid) => ~(v.tid > t)
      /\ LockOf(op) # "write" /\ oid.key # ALL => \A v \in lockQueue[n] : v.oid # oid
  <2> DEFINE lock == LockOf(op)
  <2>1. CanLock(n, t, lock, oid, TRUE) = "yes"
    BY <1>1
  <2> HIDE DEF lock
  <2>2. /\ \A v \in lockQueue[n] : v.oid = WholeTab(oid) => ~(v.tid > t)
        /\ lock # "write" /\ oid.key # ALL => \A v \in lockQueue[n] : v.oid # oid
    BY <2>1, NewInLine
  <2> QED
    BY <2>2 DEF lock
<1>6. ASSUME NEW v \in lockQueue[n], v.oid = oid, LockOf(op) # "write"
      PROVE  ~(v.tid > t)
  BY <1>4, <1>5, <1>6
<1> QED
  BY <1>1, <1>2, <1>3, <1>5, <1>6 DEF Overtakes

\* The waiter that is granted is the youngest of those that are tried.
LEMMA WaiterOvertakesNobody ==
    ASSUME OrderInv, NEW n \in LockNode, TryWaiter(n),
           NEW m \in LockNode, NEW h \in held'[m] \ held[m]
    PROVE  ~Overtakes(m, h)
<1>1. PICK w \in job[n].try : /\ NextWaiter(n, w)
                              /\ Dequeue(n, w)
                              /\ GrantLock(n, w.tid, w.op, w.oid)
  BY DEF TryWaiter
<1>2. m = n /\ h.oid = w.oid /\ h.tid = w.tid
  BY <1>1, GrantAddsOne DEF OrderInv, AnswerInv
<1>3. lockQueue'[n] \subseteq lockQueue[n]
  BY <1>1 DEF Dequeue, OrderInv, AnswerInv, TypeOK
<1>4. ASSUME NEW v \in lockQueue[n], Behind(w, v), v.tid > w.tid PROVE FALSE
  <2>1. v \in job[n].try
    BY <1>4 DEF OrderInv, InOrder
  <2>2. v.tid <= w.tid
    BY <1>1, <2>1 DEF NextWaiter
  <2>3. v \in Waiter /\ w \in Waiter
    BY DEF OrderInv, AnswerInv, TypeOK, Job
  <2>4. v.tid \in Nat /\ w.tid \in Nat
    BY <2>3 DEF Waiter
  <2> QED
    BY <1>4, <2>2, <2>4
<1> QED
  BY <1>2, <1>3, <1>4 DEF Overtakes, Behind

\* In every step the lock that is granted overtakes no younger waiter of the
\* table, nor one of the item if it comes out of the queue or is a read lock.
THEOREM ServedInOrder == Spec => YoungestFirst
<1>1. ASSUME OrderInv, [Next]_vars
      PROVE  \A n \in LockNode : \A h \in held'[n] \ held[n] : \A v \in lockQueue'[n] :
                v.tid > h.tid =>
                   /\ v.oid # WholeTab(h.oid)
                   /\ v.oid = h.oid => h.op = "write" /\ h.tid \notin QueuedOn(n, h.oid)
  <2> SUFFICES ASSUME NEW m \in LockNode, NEW h \in held'[m] \ held[m]
               PROVE  ~Overtakes(m, h)
    BY DEF Overtakes
  <2>1. TypeOK
    BY <1>1 DEF OrderInv, AnswerInv
  <2>2. CASE UNCHANGED vars
    BY <2>2 DEF vars
  <2>3. ASSUME NEW n \in LockNode, ReleaseNext(n) \/ Restart(n) \/ End(n) PROVE FALSE
    <3>1. PICK t, others, ack : ReleaseLocks(n, t, others, ack)
      BY <2>3 DEF ReleaseNext, Restart, End, SyncReleaseTid, ReleaseTid
    <3> QED
      BY <2>1, <3>1 DEF ReleaseLocks, TypeOK
  <2>4. ASSUME NEW n \in LockNode, AskLock(n) \/ AskSticky(n) PROVE ~Overtakes(m, h)
    <3>1. PICK t \in Tid, op \in Op, oid \in Oid :
             Idle(n, t) /\ (RequestLock(n, t, op, oid) \/ TestSetSticky(n, t, op, oid))
      BY <2>4 DEF AskLock, AskSticky
    <3> QED
      BY <2>1, <3>1, RequestOvertakesNobody
  <2>5. ASSUME NEW n \in LockNode,
               \/ RearrangeQueue(n) \/ ReleaseDone(n) \/ MoveSticky(n)
               \/ NodeDown(n) \/ Receive(n)
        PROVE  FALSE
    BY <2>5 DEF RearrangeQueue, ReleaseDone, MoveSticky, Stick, Unstick, NodeDown,
                ReleaseRemoteNonPending, Receive
  <2> QED
    BY <1>1, <2>2, <2>3, <2>4, <2>5, WaiterOvertakesNobody DEF Next, Loop, Rearrange
<1>2. Init => OrderInv
  BY DEF Init, OrderInv, InOrder, AnswerInv, TypeOK, NoJob, Job, OneAnswer, JobInv, Silent
<1> QED
  BY <1>1, <1>2, OrderStep, PTL DEF Spec, YoungestFirst
=============================================================================
