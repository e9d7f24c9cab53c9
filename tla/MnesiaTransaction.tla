-------------------------- MODULE MnesiaTransaction --------------------------
(***************************************************************************)
(* The transactions of Mnesia and the lock managers they talk to: the      *)
(* client half of mnesia_locker.erl, which sends the requests of a         *)
(* transaction to the lock managers of all the replicas and collects their *)
(* answers, and the part of mnesia_tm.erl that starts, restarts, aborts    *)
(* and ends a transaction.  The lock managers themselves are those of      *)
(* MnesiaLocker, one per node; here their messages come out of mailboxes.  *)
(*                                                                         *)
(* The record client[p] is the state of a process that runs transactions   *)
(* one after the other: its place in the code, the ets table "Store" of    *)
(* the transaction (nodes and locks), and the call in progress.  The       *)
(* commit protocol is one step: only what it does to the locks is here.    *)
(***************************************************************************)
EXTENDS MnesiaLocker, Sequences, Functions

CONSTANTS
    STICK,          \* ?STICK: the key locked by whoever sticks or unsticks
    WhereToRead,    \* where_to_read of a table, at a node
    WhereToWrite,   \* where_to_write: own replica first, the others sorted
    Calls,          \* the calls the functions of the transactions may make
    MaxCalls,       \* bound: calls of one run of a function
    Kills           \* the places at which a process may be killed

ASSUME StickAssumption == STICK \in Key
ASSUME WhereAssumption ==
    /\ WhereToRead \in [Tab -> [Node -> LockNode]]
    /\ WhereToWrite \in [Tab -> [Node -> Seq(LockNode)]]
\* Mnesia runs on all the nodes, and the table "schema" always exists.
ASSUME MnesiaAssumption == LockNode = Node /\ Tab # {}
\* The node a table is read from has an active replica, and a write locks
\* all of these.
ASSUME ReplicaAssumption ==
    \A tab \in Tab : \A a, b \in Node :
        \E i \in DOMAIN WhereToWrite[tab][b] : WhereToWrite[tab][b][i] = WhereToRead[tab][a]
ASSUME MaxCallsAssumption == MaxCalls \in Nat
ASSUME KillsAssumption == Kills \subseteq {"waiting", "sending", "restarting"}

VARIABLES
    client,     \* the processes that run transactions
    mail,       \* mail[p][n]: the messages from p to the lock manager at n
    ended       \* ended[n]: the transactions mnesia_tm will release at n

txVars == <<vars, client, mail, ended>>

-----------------------------------------------------------------------------
(* Data.                                                                   *)

\* The functions of mnesia_locker that take locks, and the casts that end a
\* sticky call.
LockCall == {"rlock", "wlock", "rwlock", "ixrlock", "sticky_wlock", "sticky_rwlock"}
Sticky == {"sticky_wlock", "sticky_rwlock"}
Cast == {"stick", "unstick"}
Step == [call : LockCall \cup Cast, oid : Oid]
ASSUME CallsAssumption == Calls \subseteq [call : LockCall, oid : Oid]
NoStep == [call |-> "none"]

Message == [kind : {"lock", "test_set_sticky", "release_tid", "sync_release_tid"} \cup Cast,
            tid : Tid, op : Op, oid : Oid]

Own(p) == NodeOf[p]
ReadNode(p, tab) == WhereToRead[tab][Own(p)]
WNodes(p, tab) == Range(WhereToWrite[tab][Own(p)])

\* A process between two transactions: pc tells where it is in the code, tid
\* is its last transaction, nodes and locks are the store.  Of the call in
\* progress: todo are the sets of nodes still to be asked, one after the
\* other, await the nodes that owe an answer, skip those whose answer will
\* be thrown away, got whether the record was read.  later: the steps left of
\* a sticky call.  why: the reason of a refusal.
Resting(age) ==
    [pc |-> "idle", tid |-> age, nodes |-> {}, locks |-> {}, calls |-> 0,
     step |-> NoStep, todo |-> <<>>, await |-> {}, skip |-> {}, got |-> FALSE,
     later |-> <<>>, why |-> "none"]

\* mnesia_tm:restart and start_outer: the store of a new run.
Running(p, t) == [Resting(t) EXCEPT !.pc = "run", !.nodes = {Own(p)}]

InProgress(p) == client[p].pc \notin {"idle", "dead"}

-----------------------------------------------------------------------------
(* What a call asks for.                                                   *)

\* need_lock: no lock in the store covers the item.
NeedLock(p, oid, kinds) ==
    ~\E l \in client[p].locks : l.op \in kinds /\ l.oid \in {oid, WholeTab(oid)}

\* A call that needs no lock changes nothing.
Needed(p, s) ==
    CASE s.call = "rlock" -> NeedLock(p, s.oid, LockKind)
      [] s.call = "ixrlock" -> \/ NeedLock(p, s.oid, {"read"})
                               \/ ReadNode(p, s.oid.tab) # Own(p)
      [] s.call \in Sticky -> /\ NeedLock(p, s.oid, {"write"})
                              /\ ReadNode(p, s.oid.tab) = Own(p)
      [] OTHER -> NeedLock(p, s.oid, {"write"})

OpAt(p, s, n) ==
    CASE s.call = "rlock" -> "read"
      [] s.call = "ixrlock" -> "ix_read"
      [] s.call = "rwlock" /\ n = ReadNode(p, s.oid.tab) -> "read_write"
      [] s.call = "sticky_rwlock" -> "read_write"
      [] OTHER -> "write"

\* Mutated form: only the first lock manager is asked.
FirstStage(p, tab) == <<{Head(WhereToWrite[tab][Own(p)])}>>

\* A stage, unless it is empty.
Stage(ns) == IF ns = {} THEN <<>> ELSE <<ns>>

\* get_wlocks_on_nodes and get_rwlocks_on_nodes: the own lock manager, then
\* the first of the others, then the rest at once.
WriteStages(p, tab) ==
    LET ns == WhereToWrite[tab][Own(p)]
        own == Range(ns) \cap {Own(p)}
        first == {ns[i] : i \in {j \in DOMAIN ns :
                        /\ ns[j] # Own(p)
                        /\ \A k \in DOMAIN ns : k < j => ns[k] = Own(p)}}
    IN  Stage(own) \o Stage(first) \o Stage(Range(ns) \ (own \cup first))

\* The nodes the call asks, in its stages.
Stages(p, s) ==
    CASE s.call \in {"rlock", "ixrlock"} -> <<{ReadNode(p, s.oid.tab)}>>
      [] s.call \in Sticky -> <<{Own(p)}>>
      [] OTHER -> WriteStages(p, s.oid.tab)

\* not_stuck and stuck_elsewhere: real locks first, then the cast.
StickySteps(oid, cast) ==
    <<[call |-> "rlock", oid |-> WholeTab(oid)],
      [call |-> "wlock", oid |-> oid],
      [call |-> "wlock", oid |-> [tab |-> oid.tab, key |-> STICK]],
      [call |-> cast, oid |-> oid]>>

-----------------------------------------------------------------------------
(* A process sends.                                                        *)

Msg(p, kind, op, oid) == [kind |-> kind, tid |-> client[p].tid, op |-> op, oid |-> oid]

\* A message whose op and oid do not matter.
Bare(p, kind) == Msg(p, kind, "read", CHOOSE oid \in Oid : TRUE)

Send(p, ns, MsgTo(_)) ==
    mail' = [mail EXCEPT ![p] = [n \in LockNode |->
                IF n \in ns THEN Append(@[n], MsgTo(n)) ELSE @[n]]]

Update(p, c) == client' = [client EXCEPT ![p] = c]

\* {From, start_outer}: mnesia_tm gives the transaction its identity.
Begin(p) ==
    /\ client[p].pc = "idle"
    /\ \E t \in Tid :
          /\ PidOf[t] = p /\ t > client[p].tid
          /\ \A u \in Tid : PidOf[u] = p /\ u > client[p].tid => t <= u
          /\ Update(p, Running(p, t))
    /\ UNCHANGED <<vars, mail, ended>>

\* wlock notes the lock in the store before it asks for it.
Start(p, s, c) ==
    Update(p, [c EXCEPT !.pc = "wait", !.step = s, !.todo = Stages(p, s), !.got = FALSE,
                        !.locks = IF s.call # "wlock" THEN @
                                  ELSE @ \cup {[oid |-> s.oid, op |-> "write"]}])

\* The user's function makes a call.
Call(p) ==
    /\ client[p].pc = "run" /\ client[p].later = <<>>
    /\ client[p].calls < MaxCalls
    /\ \E s \in Calls : /\ Needed(p, s)
                        /\ Start(p, s, [client[p] EXCEPT !.calls = @ + 1])
    /\ UNCHANGED <<vars, mail, ended>>

\* The next step of a sticky call.
Continue(p) ==
    LET s == Head(client[p].later)
        c == [client[p] EXCEPT !.later = Tail(@)]
    IN  /\ client[p].pc = "run" /\ client[p].later # <<>>
        /\ \/ /\ s.call \in Cast
              /\ Send(p, WNodes(p, s.oid.tab), LAMBDA n : Msg(p, s.call, "write", s.oid))
              /\ Update(p, c)
           \/ /\ s.call \notin Cast /\ Needed(p, s)
              /\ Start(p, s, c)
              /\ UNCHANGED mail
           \/ /\ s.call \notin Cast /\ ~Needed(p, s)
              /\ Update(p, c)
              /\ UNCHANGED mail
        /\ UNCHANGED <<vars, ended>>

\* A lock request is due.
Sending(p) == client[p].pc = "wait" /\ client[p].await = {} /\ client[p].todo # <<>>

SendRequests(p, ns) ==
    LET s == client[p].step
    IN  Send(p, ns, LAMBDA n :
                Msg(p, IF s.call \in Sticky THEN "test_set_sticky" ELSE "lock",
                    OpAt(p, s, n), s.oid))

\* Mutated form: the nodes that were asked are not put down in the store.
AskNextUnnoted(p) ==
    LET ns == Head(client[p].todo)
    IN  /\ Sending(p)
        /\ SendRequests(p, ns)
        /\ Update(p, [client[p] EXCEPT !.todo = Tail(@), !.await = ns])
        /\ UNCHANGED <<vars, ended>>

\* The next nodes are asked, and put down in the store.
AskNext(p) ==
    LET ns == Head(client[p].todo)
    IN  /\ Sending(p)
        /\ SendRequests(p, ns)
        /\ Update(p, [client[p] EXCEPT !.todo = Tail(@), !.await = ns,
                                       !.nodes = @ \cup ns])
        /\ UNCHANGED <<vars, ended>>

-----------------------------------------------------------------------------
(* A process receives.                                                     *)

\* The process goes on when nothing is awaited any more: with the next nodes
\* to ask, on its way out, or with the lock in its store.
Resumed(p, c) ==
    IF c.pc = "run" \/ c.await # {} \/ (c.todo # <<>> /\ c.why = "none") THEN c
    ELSE IF c.why # "none" THEN [c EXCEPT !.pc = "refused", !.todo = <<>>]
    ELSE [c EXCEPT !.pc = "run", !.step = NoStep,
                   !.locks = @ \cup {[oid |-> c.step.oid,
                                      op |-> LockOf(OpAt(p, c.step, Own(p)))]},
                   !.nodes = IF c.step.call \in Sticky
                             THEN @ \cup WNodes(p, c.step.oid.tab) ELSE @]

\* Mutated form: the answers still to come are not waited for.
RefusedAtOnce(c, why) == [c EXCEPT !.why = why, !.await = {}, !.skip = {}]

\* flush_remaining: the other answers are waited for, and thrown away.
Refused(c, why) == [c EXCEPT !.why = why, !.skip = c.await]

\* A local reader looks the record up itself; the table may be gone.
LookupInClient(p, s, n) ==
    /\ OpAt(p, s, n) \in {"read", "read_write"}
    /\ s.oid.key # ALL /\ s.oid.tab \in Volatile
    /\ n = Own(p)

\* {switch, N, Req}: a reader asks there; a writer is content with the lock
\* of the node the table is stuck at, and ignores the others.
Switched(c, at) ==
    IF c.step.call \in {"rlock", "ixrlock"}
      THEN [c EXCEPT !.nodes = @ \cup {at}, !.todo = <<{at}>>]
      ELSE [c EXCEPT !.skip = @ \cup (c.await \ {at})]

\* rlock_get_reply, receive_wlocks, sticky_flush, flush_remaining and
\* do_sticky_lock: what the process may become by the answer r of n.
Answered(p, n, r) ==
    LET c == [client[p] EXCEPT !.await = @ \ {n}, !.skip = @ \ {n}]
    IN  CASE n \in client[p].skip -> {c}
          [] n \notin client[p].skip /\ r.tag = "granted" ->
                {[c EXCEPT !.got = @ \/ OpAt(p, c.step, n) = "read_write"]}
                \cup (IF LookupInClient(p, c.step, n) THEN {Refused(c, "cyclic")} ELSE {})
          [] n \notin client[p].skip /\ r.tag \in {"cyclic", "no_exists"} ->
                {Refused(c, r.tag)}
          [] n \notin client[p].skip /\ r.tag = "switch" -> {Switched(c, r.at)}
          [] n \notin client[p].skip /\ r.tag = "not_stuck" ->
                {[c EXCEPT !.pc = "run", !.later = StickySteps(c.step.oid, "stick")]}
          [] OTHER ->
                {[c EXCEPT !.pc = "run", !.later = StickySteps(c.step.oid, "unstick")]}

\* The answer r of the lock manager at n is taken out of the mailbox.
Take(p, n, r) ==
    /\ r.tid = client[p].tid
    /\ replies' = [replies EXCEPT ![n] = @ \ {r}]
    /\ UNCHANGED <<held, tidLocks, stickyAt, lockQueue, job, mail, ended>>

GetAnswer(p) ==
    /\ client[p].pc = "wait"
    /\ \E n \in client[p].await : \E r \in replies[n] : \E c \in Answered(p, n, r) :
          Take(p, n, r) /\ Update(p, Resumed(p, c))

-----------------------------------------------------------------------------
(* A transaction restarts, aborts, commits, or is killed (mnesia_tm).      *)

\* Mutated form: the function is run again before the locks are released.
RestartedAtOnce(p) ==
    /\ client[p].pc = "refused" /\ client[p].why = "cyclic"
    /\ Send(p, client[p].nodes, LAMBDA n : Bare(p, "sync_release_tid"))
    /\ Update(p, Running(p, client[p].tid))
    /\ UNCHANGED <<vars, ended>>

\* restart: mnesia_tm clears the store, every lock manager is told.
RestartTransaction(p) ==
    /\ client[p].pc = "refused" /\ client[p].why = "cyclic"
    /\ Send(p, client[p].nodes, LAMBDA n : Bare(p, "sync_release_tid"))
    /\ Update(p, [Running(p, client[p].tid) EXCEPT !.pc = "acks",
                                                   !.await = client[p].nodes])
    /\ UNCHANGED <<vars, ended>>

\* receive_release_tid_acc; after the last one the function is run again.
GetAck(p) ==
    /\ client[p].pc = "acks"
    /\ \E n \in client[p].await : \E r \in replies[n] :
          /\ r.tag = "tid_released"
          /\ Take(p, n, r)
          /\ Update(p, IF client[p].await = {n} THEN Running(p, client[p].tid)
                       ELSE [client[p] EXCEPT !.await = @ \ {n}])

\* return_abort: the function aborts, an index is gone, or the process will
\* not try again.
Abort(p) ==
    /\ client[p].pc = "refused" \/ (client[p].pc = "run" /\ client[p].later = <<>>)
    /\ Send(p, client[p].nodes, LAMBDA n : Bare(p, "release_tid"))
    /\ Update(p, Resting(client[p].tid))
    /\ UNCHANGED <<vars, ended>>

\* mnesia_tm at the nodes ns is told the outcome and will release.
TellOutcome(p, ns) ==
    ended' = [n \in LockNode |-> IF n \in ns THEN ended[n] \cup {client[p].tid}
                                 ELSE ended[n]]

\* multi_commit: the process releases its locks here, mnesia_tm elsewhere.
Commit(p) ==
    /\ client[p].pc = "run" /\ client[p].later = <<>>
    /\ Send(p, {Own(p)}, LAMBDA n : Bare(p, "release_tid"))
    /\ TellOutcome(p, client[p].nodes \ {Own(p)})
    /\ Update(p, Resting(client[p].tid))
    /\ UNCHANGED vars

\* handle_exit and recover_coordinator: mnesia_tm finds the nodes in the store.
Exit(p, nodes) ==
    /\ TellOutcome(p, nodes)
    /\ Update(p, [Resting(client[p].tid) EXCEPT !.pc = "dead"])
    /\ UNCHANGED vars

\* The process is killed while it waits or computes.
KilledWaiting(p) ==
    /\ "waiting" \in Kills /\ InProgress(p)
    /\ Exit(p, client[p].nodes)
    /\ UNCHANGED mail

\* The process is killed between a request and its note in the store.
KilledSending(p) ==
    /\ "sending" \in Kills /\ Sending(p)
    /\ \E ns \in SUBSET Head(client[p].todo) : \E last \in ns :
          /\ SendRequests(p, ns)
          /\ Exit(p, client[p].nodes \cup (ns \ {last}))

\* The process is killed when mnesia_tm was told to clear the store but only
\* some lock managers were told to release.
KilledRestarting(p) ==
    /\ "restarting" \in Kills
    /\ client[p].pc = "refused" /\ client[p].why = "cyclic"
    /\ \E ns \in SUBSET client[p].nodes :
          Send(p, ns, LAMBDA n : Bare(p, "sync_release_tid"))
    /\ Exit(p, {Own(p)})

-----------------------------------------------------------------------------
(* Messages reach the lock managers.                                       *)

Deliver(p, n) ==
    LET m == Head(mail[p][n])
    IN  /\ mail[p][n] # <<>>
        /\ \/ m.kind = "lock" /\ RequestLock(n, m.tid, m.op, m.oid)
           \/ m.kind = "test_set_sticky" /\ TestSetSticky(n, m.tid, m.op, m.oid)
           \/ m.kind = "stick" /\ Stick(n, m.oid.tab, NodeOf[p])
           \/ m.kind = "unstick" /\ Unstick(n, m.oid.tab)
           \/ m.kind = "release_tid" /\ ReleaseTid(n, m.tid)
           \/ m.kind = "sync_release_tid" /\ SyncReleaseTid(n, m.tid)
        /\ mail' = [mail EXCEPT ![p][n] = Tail(@)]
        /\ UNCHANGED <<client, ended>>

\* mnesia_tm at n releases.  What the process itself sent came first: the
\* messages between two nodes share one connection.
ReleaseEnded(n) ==
    \E t \in ended[n] :
        /\ \A i \in DOMAIN mail[PidOf[t]][n] : mail[PidOf[t]][n][i].tid # t
        /\ ReleaseTid(n, t)
        /\ ended' = [ended EXCEPT ![n] = @ \ {t}]
        /\ UNCHANGED <<client, mail>>

\* An answer to a process that is dead.
Discard(p) ==
    /\ client[p].pc = "dead"
    /\ \E n \in LockNode : \E r \in replies[n] : Take(p, n, r)
    /\ UNCHANGED client

LockerStep(n) == Loop(n) /\ UNCHANGED <<client, mail, ended>>

TxInit ==
    /\ Init
    /\ client = [p \in Pid |-> Resting(0)]
    /\ mail = [p \in Pid |-> [n \in LockNode |-> <<>>]]
    /\ ended = [n \in LockNode |-> {}]

\* What a process does by itself once its transaction is started.
ProcessStep(p) ==
    \/ Call(p) \/ Continue(p) \/ AskNext(p) \/ GetAnswer(p)
    \/ RestartTransaction(p) \/ GetAck(p) \/ Abort(p) \/ Commit(p)

Kill(p) == KilledWaiting(p) \/ KilledSending(p) \/ KilledRestarting(p)

TxNext ==
    \/ \E p \in Pid : Begin(p) \/ ProcessStep(p) \/ Kill(p) \/ Discard(p)
    \/ \E p \in Pid, n \in LockNode : Deliver(p, n)
    \/ \E n \in LockNode : ReleaseEnded(n) \/ LockerStep(n)

\* Processes run, and a lock manager serves its mailbox in order: a message
\* that waits while the release loop is busy is taken sooner or later.
TxFairness ==
    /\ \A p \in Pid : WF_txVars(ProcessStep(p)) /\ WF_txVars(Discard(p))
    /\ \A n \in LockNode : WF_txVars(LockerStep(n)) /\ SF_txVars(ReleaseEnded(n))
    /\ \A p \in Pid, n \in LockNode : SF_txVars(Deliver(p, n))

TxSpec == TxInit /\ [][TxNext]_txVars /\ TxFairness

-----------------------------------------------------------------------------
(* Properties.                                                             *)

Client == [pc : {"idle", "run", "wait", "refused", "acks", "dead"},
           tid : Tid \cup {0}, nodes : SUBSET LockNode,
           locks : SUBSET [oid : Oid, op : LockKind], calls : 0 .. MaxCalls,
           step : Step \cup {NoStep}, todo : Seq(SUBSET LockNode),
           await : SUBSET LockNode, skip : SUBSET LockNode, got : BOOLEAN,
           later : Seq(Step), why : {"none", "cyclic", "no_exists"}]

TxTypeOK ==
    /\ TypeOK
    /\ client \in [Pid -> Client]
    /\ mail \in [Pid -> [LockNode -> Seq(Message)]]
    /\ ended \in [LockNode -> SUBSET Tid]

\* The lock managers, fed by these processes, behave as MnesiaLocker says:
\* a process never asks a lock manager that still owes it an answer, nor for
\* a transaction older than one it has already run there.
LockersRefined == Spec

\* The locks a transaction in progress has acquired.
Acquired(p) ==
    IF client[p].pc \in {"run", "wait"}
      THEN {l \in client[p].locks : client[p].pc = "run" \/ l.oid # client[p].step.oid}
      ELSE {}

\* Isolation: two transactions never work under incompatible locks, although
\* a write locks the replicas one by one and a read locks a single one.
Isolation ==
    \A p, q \in Pid : p # q =>
        \A l \in Acquired(p), m \in Acquired(q) :
            ~(Overlap(l.oid, m.oid) /\ "write" \in {l.op, m.op})

\* What the store of a transaction says is true: a lock it has acquired is in
\* force at every replica it concerns, and each of them will be told to release
\* it.  (For tables that are not sticky: a write lock of a sticky table is in
\* force at one node only.)
LockedAt(p, l) ==
    IF l.op = "write" THEN WNodes(p, l.oid.tab) ELSE {ReadNode(p, l.oid.tab)}
AcquiredIsHeld ==
    \A p \in Pid : \A l \in Acquired(p) : \A n \in LockedAt(p, l) :
        /\ n \in client[p].nodes
        /\ [oid |-> l.oid, op |-> l.op, tid |-> client[p].tid] \in held[n]
\* The store and all that the process and the lock managers keep of it.
StoresTrue == TxTypeOK /\ AcquiredIsHeld

\* No answer is lost, doubled or mistaken for another: a process waits for a
\* lock manager exactly as long as its request is in the mailbox, in the
\* queue or in the release loop, or the answer is on its way.
Asked(p, n) ==
    {m \in Range(mail[p][n]) :
        m.tid = client[p].tid
        /\ m.kind \in {"lock", "test_set_sticky", "sync_release_tid"}}
Pending(p, n) ==
    /\ \A r \in replies[n] : r.tid # client[p].tid
    /\ \/ Asked(p, n) # {}
       \/ \E w \in lockQueue[n] : w.tid = client[p].tid
       \/ client[p].tid \in job[n].ack
AnswersMatch ==
    \A p \in Pid : InProgress(p) => \A n \in LockNode :
        /\ n \in client[p].await <=>
              Pending(p, n) \/ \E r \in replies[n] : r.tid = client[p].tid
        /\ \A r \in replies[n] : r.tid = client[p].tid =>
              (r.tag = "tid_released" <=> client[p].pc = "acks")

\* The release of t at n is on its way.
ReleaseDue(t, n) ==
    \/ t \in ended[n]
    \/ \E m \in Range(mail[PidOf[t]][n]) :
          m.tid = t /\ m.kind \in {"release_tid", "sync_release_tid"}

\* "Tid has somehow terminated, clear up everything": no lock is left behind.
\* Whatever a lock manager keeps for a transaction, the transaction knows and
\* will release, or is already being released.
NothingLeftBehind ==
    \A n \in LockNode : \A l \in tidLocks[n] :
        LET p == PidOf[l.tid]
        IN  \/ InProgress(p) /\ client[p].tid = l.tid /\ n \in client[p].nodes
            \/ ReleaseDue(l.tid, n)

\* A transaction that is started ends: refusals and restarts do not go on
\* for ever, and no two transactions wait for each other at different nodes.
TransactionsEnd == \A p \in Pid : InProgress(p) ~> ~InProgress(p)

\* "Really do a read, but get hold of a write lock": rwlock returns the
\* record as one of the lock managers or the process itself has read it.
WreadReads ==
    [][\A p \in Pid :
          client[p].step # NoStep /\ client[p].step.call = "rwlock" /\ client'[p].pc = "run"
              => client'[p].got]_txVars

=============================================================================
