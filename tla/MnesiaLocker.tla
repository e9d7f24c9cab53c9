---------------------------- MODULE MnesiaLocker ----------------------------
(***************************************************************************)
(* The lock manager of Mnesia, mnesia_locker.erl: one registered process   *)
(* per node that grants, queues, refuses and releases the locks of         *)
(* transactions.  Its four ets tables are the variables held, tidLocks,    *)
(* stickyAt and lockQueue, each a function of the node of the process.     *)
(*                                                                         *)
(* The process handles one message at a time.  Releasing a transaction is  *)
(* a loop that retries queued requests one by one; the loop is modelled    *)
(* step by step (variable job), and while it runs the process takes no     *)
(* other message.                                                          *)
(*                                                                         *)
(* The module is open: the transactions that send the requests are only    *)
(* assumed to wait for the answer of a lock manager before they send it    *)
(* another request (actions under "The environment").                      *)
(***************************************************************************)
EXTENDS Naturals, FiniteSets

CONSTANTS
    Node,       \* the nodes
    LockNode,   \* the nodes on which a lock manager runs
    Tab,        \* the tables
    Key,        \* the keys of the records of a table
    ALL,        \* ?ALL: the key that stands for the whole table
    Volatile,   \* the tables whose local copy or index may disappear
    Tid,        \* the identities of transactions, in their order of age
    Pid,        \* the processes that run transactions
    PidOf,      \* the process of a transaction (the field #tid.pid)
    NodeOf,     \* the node of a process (the BIF node/1)
    NoNode      \* no node: the table is not stuck anywhere

ASSUME TidAssumption == Tid \subseteq Nat
ASSUME AllAssumption == ALL \notin Key
ASSUME NodeAssumption == LockNode \subseteq Node /\ NoNode \notin Node
ASSUME PidAssumption == PidOf \in [Tid -> Pid] /\ NodeOf \in [Pid -> Node]
ASSUME VolatileAssumption == Volatile \subseteq Tab

VARIABLES
    held,       \* mnesia_held_locks: the locks in force
    tidLocks,   \* mnesia_tid_locks: what a transaction holds or waits for
    stickyAt,   \* mnesia_sticky_locks: the node a table is stuck at
    lockQueue,  \* mnesia_lock_queue: the requests that wait
    job,        \* the rest of the release the process is busy with
    replies     \* the answers not yet received by the transactions

vars == <<held, tidLocks, stickyAt, lockQueue, job, replies>>

-----------------------------------------------------------------------------
(* Data.                                                                   *)

Oid == [tab : Tab, key : Key \cup {ALL}]
WholeTab(oid) == [tab |-> oid.tab, key |-> ALL]

LockKind == {"read", "write"}
Op == {"read", "write", "read_write", "ix_read"}

\* The lock a request asks for: read_write reads under a write lock, ix_read
\* reads an index under a read lock on the table.
LockOf(op) == IF op \in {"write", "read_write"} THEN "write" ELSE "read"

Held == [oid : Oid, op : LockKind, tid : Tid]
TidLock == [tid : Tid, oid : Oid, op : LockKind \cup {"queued"}]
Waiter == [oid : Oid, tid : Tid, op : Op]

\* {not_granted, #cyclic{}} and {not_granted, {no_exists, ...}} are two tags;
\* "at" is the node that a switch or stuck_elsewhere answer names.
ReplyTag == {"granted", "cyclic", "no_exists", "switch", "not_stuck",
             "stuck_elsewhere", "tid_released"}
Reply == [tid : Tid, tag : ReplyTag, at : Node]

\* What remains of a release: the transactions still to be released, the
\* lock items still to be rearranged, the waiters still to be tried for the
\* current item, whether that item is a table, and whom to answer at the end.
Job == [tids : SUBSET Tid, oids : SUBSET Oid, try : SUBSET Waiter,
        whole : BOOLEAN, ack : SUBSET Tid]
NoJob == [tids |-> {}, oids |-> {}, try |-> {}, whole |-> FALSE, ack |-> {}]

-----------------------------------------------------------------------------
(* The lock tables: who is in the way of a request.                        *)

\* Two items overlap if they are the same record or one is the table of the
\* other.  The same relation selects the locks a request is checked against
\* and the waiters a released item concerns.
Overlap(o1, o2) ==
    /\ o1.tab = o2.tab
    /\ o1.key = ALL \/ o2.key = ALL \/ o1.key = o2.key

\* Mutated form: the table locks are forgotten for a record.
BlockersOfItem(n, t, lock, oid) ==
    {h.tid : h \in {l \in held[n] : l.oid = oid /\ "write" \in {lock, l.op}}} \ {t}

\* The other transactions whose locks are incompatible with the request.
Blockers(n, t, lock, oid) ==
    {h.tid : h \in {l \in held[n] : /\ Overlap(l.oid, oid)
                                    /\ "write" \in {lock, l.op}}} \ {t}

QueuedOn(n, oid) == {w.tid : w \in {v \in lockQueue[n] : v.oid = oid}}

\* Mutated form: everybody may wait for everybody.
AlwaysWaits(t, u) == t # u

\* allowed_to_be_queued: a transaction may only wait for a higher tid.
MayWaitFor(t, u) == u > t

\* check_queue: nobody may overtake a transaction that waits for the table.
CheckQueue(n, t, oid, otherwise) ==
    LET ahead == QueuedOn(n, WholeTab(oid))
    IN  IF \E u \in ahead : MayWaitFor(t, u) THEN "queue"
        ELSE IF ahead = {} \/ t \in ahead THEN otherwise
        ELSE "no"

\* The clause of check_lock that is reached when no lock is in the way of a
\* new request; a reader of a record also respects the queue of the record.
CheckWaiters(n, t, lock, oid) ==
    LET ahead == QueuedOn(n, oid)
    IN  IF lock = "write" \/ oid.key = ALL \/ ahead = {}
          THEN CheckQueue(n, t, oid, "yes")
        ELSE IF \E u \in ahead : MayWaitFor(t, u)
          THEN CheckQueue(n, t, oid, "queue")
        ELSE "no"

\* can_lock and check_lock.  A lock of an older transaction refuses the
\* request, unless it belongs to the same process (it is about to be
\* released) and nobody waits.  The queues only matter to a new request.
CanLock(n, t, lock, oid, isNew) ==
    LET blockers == Blockers(n, t, lock, oid)
        haveQueue == QueuedOn(n, oid) \cup QueuedOn(n, WholeTab(oid)) # {}
        refuses(u) == /\ ~MayWaitFor(t, u)
                      /\ PidOf[u] # PidOf[t] \/ haveQueue
    IN  IF \E u \in blockers : refuses(u) THEN "no"
        ELSE IF blockers # {} THEN "queue"
        ELSE IF isNew THEN CheckWaiters(n, t, lock, oid)
        ELSE "yes"

-----------------------------------------------------------------------------
(* Helpers of the actions.                                                 *)

Busy(n) == job[n] # NoJob

ReplyTo(n, t, tag, at) ==
    replies' = [replies EXCEPT ![n] = @ \cup {[tid |-> t, tag |-> tag, at |-> at]}]

SetLock(n, t, oid, lock) ==
    /\ held' = [held EXCEPT ![n] = @ \cup {[oid |-> oid, op |-> lock, tid |-> t]}]
    /\ tidLocks' = [tidLocks EXCEPT ![n] =
                        @ \cup {[tid |-> t, oid |-> oid, op |-> lock]}]

\* The value is looked up by the lock manager, and may be gone with the
\* table, for the reader of a record on another node and for an index read.
LookupInServer(n, t, op, oid) ==
    \/ op = "ix_read"
    \/ /\ op \in {"read", "read_write"}
       /\ oid.key # ALL
       /\ NodeOf[PidOf[t]] # n

\* grant_lock: a failing lookup sets no lock.
GrantLock(n, t, op, oid) ==
    \/ /\ SetLock(n, t, oid, LockOf(op))
       /\ ReplyTo(n, t, "granted", n)
    \/ /\ LookupInServer(n, t, op, oid)
       /\ oid.tab \in Volatile
       /\ ReplyTo(n, t, IF op = "ix_read" THEN "no_exists" ELSE "cyclic", n)
       /\ UNCHANGED <<held, tidLocks>>

\* try_lock and set_read_lock_on_all_keys.
TryLock(n, t, op, oid) ==
    LET verdict == CanLock(n, t, LockOf(op), oid, TRUE)
    IN  \/ /\ verdict = "yes"
           /\ GrantLock(n, t, op, oid)
           /\ UNCHANGED lockQueue
        \/ /\ verdict = "no"
           /\ ReplyTo(n, t, "cyclic", n)
           /\ UNCHANGED <<held, tidLocks, lockQueue>>
        \/ /\ verdict = "queue"
           /\ lockQueue' = [lockQueue EXCEPT ![n] =
                                @ \cup {[oid |-> oid, tid |-> t, op |-> op]}]
           /\ tidLocks' = [tidLocks EXCEPT ![n] =
                                @ \cup {[tid |-> t, oid |-> oid, op |-> "queued"]}]
           /\ UNCHANGED <<held, replies>>

-----------------------------------------------------------------------------
(* The messages of the loop.                                               *)

\* Mutated form: the clause for a table that is not stuck is missing.
RequestLockAlwaysStuck(n, t, op, oid) ==
    /\ ~Busy(n)
    /\ op = "ix_read" => oid.key = ALL
    /\ \/ /\ stickyAt[n][oid.tab] = n
          /\ TryLock(n, t, op, oid)
       \/ /\ stickyAt[n][oid.tab] # n
          /\ ReplyTo(n, t, "switch", stickyAt[n][oid.tab])
          /\ UNCHANGED <<held, tidLocks, lockQueue>>
    /\ UNCHANGED <<stickyAt, job>>

\* {From, {write | read | read_write, Tid, Oid}} and
\* {From, {ix_read, Tid, Tab, IxKey, Pos}}: a table that is stuck elsewhere
\* is locked there.
RequestLock(n, t, op, oid) ==
    /\ ~Busy(n)
    /\ op = "ix_read" => oid.key = ALL
    /\ \/ /\ stickyAt[n][oid.tab] \in {NoNode, n}
          /\ TryLock(n, t, op, oid)
       \/ /\ stickyAt[n][oid.tab] \notin {NoNode, n}
          /\ ReplyTo(n, t, "switch", stickyAt[n][oid.tab])
          /\ UNCHANGED <<held, tidLocks, lockQueue>>
    /\ UNCHANGED <<stickyAt, job>>

\* {From, {test_set_sticky, Tid, Oid, Lock}}
TestSetSticky(n, t, op, oid) ==
    /\ ~Busy(n)
    /\ op \in {"write", "read_write"}
    /\ \/ /\ stickyAt[n][oid.tab] = NoNode
          /\ ReplyTo(n, t, "not_stuck", n)
          /\ UNCHANGED <<held, tidLocks, lockQueue>>
       \/ /\ stickyAt[n][oid.tab] = n
          /\ TryLock(n, t, op, oid)
       \/ /\ stickyAt[n][oid.tab] \notin {NoNode, n}
          /\ ReplyTo(n, t, "stuck_elsewhere", stickyAt[n][oid.tab])
          /\ UNCHANGED <<held, tidLocks, lockQueue>>
    /\ UNCHANGED <<stickyAt, job>>

\* {stick, Oid, N}
Stick(n, tab, m) ==
    /\ ~Busy(n)
    /\ stickyAt' = [stickyAt EXCEPT ![n][tab] = m]
    /\ UNCHANGED <<held, tidLocks, lockQueue, job, replies>>

\* {unstick, Tab}
Unstick(n, tab) ==
    /\ ~Busy(n)
    /\ stickyAt' = [stickyAt EXCEPT ![n][tab] = NoNode]
    /\ UNCHANGED <<held, tidLocks, lockQueue, job, replies>>

\* Mutated form: the read locks of the item go too.
ReleasedWithItem(locks, h) == \E l \in locks : l.oid = h.oid /\ l.op # "queued"

\* release_lock: a write lock takes every lock on its item with it.
Released(locks, h) ==
    \E l \in locks : /\ l.oid = h.oid
                     /\ \/ l.op = "write"
                        \/ l.op = "read" /\ h.op = "read" /\ h.tid = l.tid

\* do_release_tid up to rearrange_queue: forget the transaction.
ReleaseLocks(n, t, others, ack) ==
    LET locks == {l \in tidLocks[n] : l.tid = t}
        dequeued(w) ==
            w.tid = t /\ \E l \in locks : l.oid = w.oid /\ l.op = "queued"
    IN  /\ tidLocks' = [tidLocks EXCEPT ![n] = @ \ locks]
        /\ held' = [held EXCEPT ![n] = {h \in @ : ~Released(locks, h)}]
        /\ lockQueue' = [lockQueue EXCEPT ![n] = {w \in @ : ~dequeued(w)}]
        /\ job' = [job EXCEPT ![n] = [tids |-> others, oids |-> {l.oid : l \in locks},
                                      try |-> {}, whole |-> FALSE, ack |-> ack]]

\* {release_tid, Tid}
ReleaseTid(n, t) ==
    /\ ~Busy(n)
    /\ ReleaseLocks(n, t, {}, {})
    /\ UNCHANGED <<stickyAt, replies>>

\* {From, {sync_release_tid, Tid}}: answered when the release is complete.
SyncReleaseTid(n, t) ==
    /\ ~Busy(n)
    /\ ReleaseLocks(n, t, {}, {t})
    /\ UNCHANGED <<stickyAt, replies>>

\* {release_remote_non_pending, Node, Pending}: the node m is down; its
\* transactions are released, except those whose outcome is not known yet.
ReleaseRemoteNonPending(n, m, pending) ==
    LET gone == {t \in Tid : /\ NodeOf[PidOf[t]] = m
                             /\ t \notin pending
                             /\ \E l \in tidLocks[n] : l.tid = t}
    IN  /\ ~Busy(n)
        /\ stickyAt' = [stickyAt EXCEPT ![n] =
                [tab \in Tab |-> IF @[tab] = m THEN NoNode ELSE @[tab]]]
        /\ job' = [job EXCEPT ![n].tids = gone]
        /\ UNCHANGED <<held, tidLocks, lockQueue, replies>>

-----------------------------------------------------------------------------
(* The rest of a release.                                                  *)

\* do_release_tids: the next transaction of the list.
ReleaseNext(n) ==
    /\ job[n].oids = {} /\ job[n].try = {}
    /\ \E t \in job[n].tids : ReleaseLocks(n, t, job[n].tids \ {t}, {})
    /\ UNCHANGED <<stickyAt, replies>>

\* Mutated form: the waiters for the table of a record are forgotten.
ConcernedByRecord(n, o) == {w \in lockQueue[n] : w.oid = o}

\* The waiters a released item concerns.
Concerned(n, o) == {w \in lockQueue[n] : Overlap(o, w.oid)}

\* Mutated form: the loop goes on with the item it has just treated.
RearrangeAgain(n) ==
    /\ job[n].try = {}
    /\ \E o \in job[n].oids :
          job' = [job EXCEPT ![n].try = Concerned(n, o), ![n].whole = (o.key = ALL)]
    /\ UNCHANGED <<held, tidLocks, stickyAt, lockQueue, replies>>

\* rearrange_queue: take the next released item and collect its waiters.
RearrangeQueue(n) ==
    /\ job[n].try = {}
    /\ \E o \in job[n].oids :
          job' = [job EXCEPT ![n].oids = @ \ {o},
                             ![n].try = Concerned(n, o),
                             ![n].whole = (o.key = ALL)]
    /\ UNCHANGED <<held, tidLocks, stickyAt, lockQueue, replies>>

\* Mutated form: the queue is sorted the other way round.
NextOldestWaiter(n, w) == w \in job[n].try /\ \A v \in job[n].try : v.tid >= w.tid

\* sort_queue: the youngest waiter (highest tid) is tried first.
NextWaiter(n, w) == w \in job[n].try /\ \A v \in job[n].try : v.tid <= w.tid

\* What is left to try when w has to stay in the queue: nothing, except that
\* behind a record the waiters of other items of the table are still tried.
TriedAfterQueued(n, w) ==
    IF job[n].whole /\ w.oid.key # ALL
      THEN {v \in job[n].try : v.oid # w.oid}
      ELSE {}

\* Mutated form: the waiter stays in the queue when it has its answer.
KeepQueued(n, w) == UNCHANGED lockQueue

Dequeue(n, w) == lockQueue' = [lockQueue EXCEPT ![n] = @ \ {w}]

\* try_waiter: keep, grant or refuse.  tidLocks keeps its "queued" entry.
TryWaiter(n) ==
    \E w \in job[n].try :
        LET verdict == CanLock(n, w.tid, LockOf(w.op), w.oid, FALSE)
        IN  /\ NextWaiter(n, w)
            /\ \/ /\ verdict = "queue"
                  /\ job' = [job EXCEPT ![n].try = TriedAfterQueued(n, w)]
                  /\ UNCHANGED <<held, tidLocks, lockQueue, replies>>
               \/ /\ verdict = "yes"
                  /\ Dequeue(n, w)
                  /\ GrantLock(n, w.tid, w.op, w.oid)
                  /\ job' = [job EXCEPT ![n].try = @ \ {w}]
               \/ /\ verdict = "no"
                  /\ Dequeue(n, w)
                  /\ ReplyTo(n, w.tid, "cyclic", n)
                  /\ job' = [job EXCEPT ![n].try = @ \ {w}]
                  /\ UNCHANGED <<held, tidLocks>>
            /\ UNCHANGED stickyAt

\* The loop ends: a synchronous release is acknowledged.
ReleaseDone(n) ==
    /\ Busy(n)
    /\ job[n].tids = {} /\ job[n].oids = {} /\ job[n].try = {}
    /\ job' = [job EXCEPT ![n] = NoJob]
    /\ replies' = [replies EXCEPT ![n] = @ \cup
                     {[tid |-> t, tag |-> "tid_released", at |-> n] : t \in job[n].ack}]
    /\ UNCHANGED <<held, tidLocks, stickyAt, lockQueue>>

Rearrange(n) == RearrangeQueue(n) \/ TryWaiter(n)
Loop(n) == ReleaseNext(n) \/ Rearrange(n) \/ ReleaseDone(n)

-----------------------------------------------------------------------------
(* The environment: the processes that run transactions, mnesia_tm, which  *)
(* releases on their behalf when they commit or die, and mnesia_monitor.   *)

\* The transaction is not waiting for an answer of the lock manager at n, and
\* its process has not gone on to a later transaction.
Idle(n, t) ==
    /\ \A w \in lockQueue[n] : w.tid # t
    /\ \A r \in replies[n] : r.tid # t
    /\ \A l \in tidLocks[n] : PidOf[l.tid] = PidOf[t] => l.tid <= t

AskLock(n) ==
    \E t \in Tid, op \in Op, oid \in Oid :
        Idle(n, t) /\ RequestLock(n, t, op, oid)

AskSticky(n) ==
    \E t \in Tid, op \in Op, oid \in Oid :
        Idle(n, t) /\ NodeOf[PidOf[t]] = n /\ TestSetSticky(n, t, op, oid)

MoveSticky(n) ==
    \E tab \in Tab : Unstick(n, tab) \/ \E m \in Node : Stick(n, tab, m)

\* A transaction restarts: it waits for the answer.
Restart(n) == \E t \in Tid : Idle(n, t) /\ SyncReleaseTid(n, t)

\* A transaction ends, or its process dies, possibly while it waits.
End(n) == \E t \in Tid : ReleaseTid(n, t)

NodeDown(n) ==
    \E m \in Node \ {n} : \E pending \in SUBSET Tid :
        ReleaseRemoteNonPending(n, m, pending)

Receive(n) ==
    /\ \E r \in replies[n] : replies' = [replies EXCEPT ![n] = @ \ {r}]
    /\ UNCHANGED <<held, tidLocks, stickyAt, lockQueue, job>>

Init ==
    /\ held = [n \in LockNode |-> {}]
    /\ tidLocks = [n \in LockNode |-> {}]
    /\ stickyAt = [n \in LockNode |-> [tab \in Tab |-> NoNode]]
    /\ lockQueue = [n \in LockNode |-> {}]
    /\ job = [n \in LockNode |-> NoJob]
    /\ replies = [n \in LockNode |-> {}]

Next ==
    \E n \in LockNode :
        \/ Loop(n)
        \/ AskLock(n) \/ AskSticky(n) \/ MoveSticky(n)
        \/ Restart(n) \/ End(n) \/ NodeDown(n)
        \/ Receive(n)

\* The process runs whenever it has something to do.
Spec == Init /\ [][Next]_vars /\ \A n \in LockNode : WF_vars(Loop(n))

-----------------------------------------------------------------------------
(* Properties.                                                             *)

TypeOK ==
    /\ held \in [LockNode -> SUBSET Held]
    /\ tidLocks \in [LockNode -> SUBSET TidLock]
    /\ stickyAt \in [LockNode -> [Tab -> Node \cup {NoNode}]]
    /\ lockQueue \in [LockNode -> SUBSET Waiter]
    /\ job \in [LockNode -> Job]
    /\ replies \in [LockNode -> SUBSET Reply]

\* Two transactions never hold incompatible locks at one lock manager: a
\* write lock on a record excludes every other lock on the record and on its
\* table, a write lock on a table every lock on any of its records.
LockExclusion ==
    \A n \in LockNode : \A g, h \in held[n] :
        Overlap(g.oid, h.oid) /\ "write" \in {g.op, h.op} => g.tid = h.tid

\* mnesia_tid_locks, from which a release works, agrees with the tables it
\* cleans: no lock and no waiter outlives its transaction, and no release of
\* another transaction takes a lock away from its holder (a released write
\* lock deletes all the locks of its item).
Tracked ==
    \A n \in LockNode :
        /\ \A h \in held[n] : [tid |-> h.tid, oid |-> h.oid, op |-> h.op] \in tidLocks[n]
        /\ \A w \in lockQueue[n] :
              [tid |-> w.tid, oid |-> w.oid, op |-> "queued"] \in tidLocks[n]
        /\ \A l \in tidLocks[n] :
              l.op # "queued" => [oid |-> l.oid, op |-> l.op, tid |-> l.tid] \in held[n]

\* A transaction gets one answer per request: it is never waiting twice at a
\* lock manager, nor in the queue when its answer has been sent.
OneAnswer ==
    \A n \in LockNode :
        /\ \A v, w \in lockQueue[n] : v.tid = w.tid => v = w
        /\ \A q, r \in replies[n] : q.tid = r.tid => q = r
        /\ \A w \in lockQueue[n], r \in replies[n] : w.tid # r.tid

\* The transaction t whose release will make the lock manager at n try the
\* waiter w again.  A younger transaction (or an earlier one of the same
\* process) is registered on an item that overlaps with the waiter's.
WakesUp(n, t, w) ==
    /\ MayWaitFor(w.tid, t) \/ (PidOf[t] = PidOf[w.tid] /\ t # w.tid)
    /\ \E l \in tidLocks[n] : l.tid = t /\ Overlap(l.oid, w.oid)

\* No lost wakeup and no deadlock in the queues: whenever the lock manager is
\* done with a message, every waiter waits for some younger transaction (or
\* for an earlier one of its own process) whose release will have it tried
\* again.
NoLostWakeup ==
    \A n \in LockNode : ~Busy(n) =>
        \A w \in lockQueue[n] : \E t \in Tid : WakesUp(n, t, w)

\* Nobody who waits in the same line is overtaken: when a lock is granted, no
\* younger transaction is left waiting for the table of its item; and none for
\* the item itself, if the lock has come out of the queue ("when releasing the
\* tids from the queue always begin with youngest") or is a read lock, which
\* respects the queue of its record.  (A new writer may overtake the waiter of
\* a record whose own reason to wait has gone.)
YoungestFirst ==
    [][\A n \in LockNode : \A h \in held'[n] \ held[n] : \A v \in lockQueue'[n] :
          v.tid > h.tid =>
             /\ v.oid # WholeTab(h.oid)
             /\ v.oid = h.oid => h.op = "write" /\ h.tid \notin QueuedOn(n, h.oid)]_vars

\* The release loop, which blocks all the other requests of the node, ends.
ReleaseEnds == \A n \in LockNode : Busy(n) ~> ~Busy(n)

=============================================================================
