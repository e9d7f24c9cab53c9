---------------------- MODULE MnesiaTransactionProofs ----------------------
(***************************************************************************)
(* Proofs about MnesiaTransaction: the processes that run transactions and *)
(* the lock managers they talk to.                                         *)
(***************************************************************************)
EXTENDS MnesiaTransaction, MnesiaLockerProofs, SequenceTheorems

-----------------------------------------------------------------------------
(* What the lock manager at n owes the transaction t.                      *)

LockRequest == {"lock", "test_set_sticky"}
Request == LockRequest \cup {"sync_release_tid"}

\* A lock: t is queued, or the answer is on its way.
Waits(n, t) ==
    \/ \E w \in lockQueue[n] : w.tid = t
    \/ \E r \in replies[n] : r.tid = t /\ r.tag # "tid_released"

\* The acknowledgement of a release.
Frees(n, t) ==
    \/ t \in job[n].ack
    \/ \E r \in replies[n] : r.tid = t /\ r.tag = "tid_released"

Registered(n, t) == \E l \in tidLocks[n] : l.tid = t

\* The messages from p that the lock manager at n has still to take.
Sent(p, n) == Range(mail[p][n])

\* One of these kinds is among them, on behalf of t.
Mailed(p, n, t, kinds) == \E m \in Sent(p, n) : m.tid = t /\ m.kind \in kinds

-----------------------------------------------------------------------------
(* The transactions of a process follow one another, and so do the         *)
(* messages it sends on their behalf.                                      *)

OwnTid(p) ==
    client[p].pc # "idle" => client[p].tid \in Tid /\ PidOf[client[p].tid] = p

MailAges(p) ==
    \A n \in LockNode : \A m \in Sent(p, n) :
        PidOf[m.tid] = p /\ m.tid <= client[p].tid

\* Whoever is known to a lock manager or to mnesia_tm has been started, and
\* came before the messages that are still on their way.
KnownAges(p) ==
    \A n \in LockNode : \A t \in Tid : PidOf[t] = p =>
        /\ Registered(n, t) \/ Waits(n, t) \/ Frees(n, t) \/ t \in ended[n]
              => t <= client[p].tid
        /\ Registered(n, t) => \A m \in Sent(p, n) : t <= m.tid

Ages(p) == OwnTid(p) /\ MailAges(p) /\ KnownAges(p)

\* A request is the only one of its transaction on its way to a lock manager.
MailOrder ==
    \A p \in Pid, n \in LockNode : \A i, j \in DOMAIN mail[p][n] : i < j =>
        LET a == mail[p][n][i]
            b == mail[p][n][j]
        IN  a.tid <= b.tid /\ (a.kind \in Request /\ b.kind \in Request => a.tid # b.tid)

NoneDown == \A n \in LockNode : job[n].tids = {}

-----------------------------------------------------------------------------
(* One request at a time.                                                  *)

\* Nothing else is owed to the transaction of a request on its way.
OnlyRequest(p) ==
    \A n \in LockNode : \A m \in Sent(p, n) :
        m.kind \in Request => ~Waits(n, m.tid) /\ ~Frees(n, m.tid)

\* A process awaits what it is owed, and nothing else.
Awaits(p) ==
    /\ InProgress(p) => \A n \in LockNode :
          LET t == client[p].tid
          IN  /\ n \in client[p].await /\ client[p].pc = "wait"
                    <=> Mailed(p, n, t, LockRequest) \/ Waits(n, t)
              /\ n \in client[p].await /\ client[p].pc = "acks"
                    <=> Mailed(p, n, t, {"sync_release_tid"}) \/ Frees(n, t)
    /\ client[p].pc \notin {"wait", "acks"} => client[p].await = {}

\* A transaction in progress is not being released.
NotReleased(p) ==
    InProgress(p) => \A n \in LockNode :
        client[p].tid \notin ended[n] /\ ~Mailed(p, n, client[p].tid, {"release_tid"})

\* A waiting process is in the middle of a call; a sticky call only asks the
\* own lock manager, and only a sticky call is told about stickiness.
StickyAlone(p) ==
    /\ \A n \in LockNode : \A m \in Sent(p, n) : m.kind = "test_set_sticky" => n = Own(p)
    /\ client[p].pc = "wait" =>
          /\ client[p].step \in Step
          /\ client[p].step.call \in Sticky =>
                /\ client[p].await \subseteq {Own(p)}
                /\ \A ns \in Range(client[p].todo) : ns = {Own(p)}
          /\ client[p].step.call \notin Sticky => \A n \in LockNode :
                /\ \A r \in replies[n] : r.tid = client[p].tid
                      => r.tag \notin {"not_stuck", "stuck_elsewhere"}
                /\ ~Mailed(p, n, client[p].tid, {"test_set_sticky"})

Requests(p) == OnlyRequest(p) /\ Awaits(p) /\ NotReleased(p) /\ StickyAlone(p)

MailType == mail \in [Pid -> [LockNode -> Seq(Message)]]

ProcessInv ==
    /\ client \in [Pid -> Client] /\ MailType /\ ended \in [LockNode -> SUBSET Tid]
    /\ MailOrder /\ NoneDown
    /\ \A p \in Pid : Ages(p) /\ Requests(p)

TxInv == LockInv /\ AnswerInv /\ ProcessInv

-----------------------------------------------------------------------------
(* The store (plain calls).                                                *)

Plain == \A s \in Calls : s.call \notin Sticky

\* No table is sticky, and nobody hears of stickiness.
NotSticky ==
    \A n \in LockNode :
        /\ \A tab \in Tab : stickyAt[n][tab] = NoNode
        /\ \A r \in replies[n] : r.tag \in {"granted", "cyclic", "no_exists", "tid_released"}

PlainProcess(p) ==
    /\ \A n \in LockNode : \A m \in Sent(p, n) :
          m.kind \in {"lock", "release_tid", "sync_release_tid"}
    /\ client[p].later = <<>> /\ client[p].step.call \notin Sticky

Lock(p, oid, op) == [oid |-> oid, op |-> op, tid |-> client[p].tid]

\* What p asks for is what it waits for, and what it is granted is in force.
SameRequest(p) ==
    client[p].pc = "wait" => \A n \in LockNode :
        LET s == client[p].step
        IN  /\ \A m \in Sent(p, n) :
                  m.kind = "lock" /\ m.tid = client[p].tid
                      => m.op = OpAt(p, s, n) /\ m.oid = s.oid
            /\ \A w \in lockQueue[n] :
                  w.tid = client[p].tid => w.op = OpAt(p, s, n) /\ w.oid = s.oid
            /\ \A r \in replies[n] :
                  r.tid = client[p].tid /\ r.tag = "granted"
                      => Lock(p, s.oid, LockOf(OpAt(p, s, n))) \in held[n]

Target(p, s) == IF s.call \in {"rlock", "ixrlock"} THEN {ReadNode(p, s.oid.tab)}
                ELSE WNodes(p, s.oid.tab)

ToAsk(p) == UNION Range(client[p].todo)

\* What was asked and answered well is held.
HeldSoFar(p) ==
    /\ client[p].pc = "run" => client[p].why = "none"
    /\ client[p].pc \in {"run", "wait"} /\ client[p].why = "none" => client[p].skip = {}
    /\ client[p].pc = "wait" /\ client[p].why = "none" =>
          \A n \in Target(p, client[p].step) :
              \/ n \in ToAsk(p)
              \/ /\ n \in client[p].nodes
                 /\ \/ n \in client[p].await
                    \/ Lock(p, client[p].step.oid,
                            LockOf(OpAt(p, client[p].step, n))) \in held[n]

\* What is in the store is held, but for the lock wlock is about to ask for.
Asks(p, l) ==
    /\ client[p].pc = "wait" /\ client[p].step.call = "wlock"
    /\ l = [oid |-> client[p].step.oid, op |-> "write"]
StoreHeld(p) ==
    client[p].pc \in {"run", "wait"} => \A l \in client[p].locks :
        Asks(p, l) \/ \A n \in LockedAt(p, l) :
            n \in client[p].nodes /\ Lock(p, l.oid, l.op) \in held[n]

Store(p) == PlainProcess(p) /\ SameRequest(p) /\ HeldSoFar(p) /\ StoreHeld(p)

StoreInv == NotSticky /\ \A p \in Pid : Store(p)

-----------------------------------------------------------------------------
(* Releases.                                                               *)

Release == {"release_tid", "sync_release_tid"}

Alive(p, t, n) == InProgress(p) /\ client[p].tid = t /\ n \in client[p].nodes

\* What a lock manager has registered is known to its transaction, or its
\* release is on its way.
LocksFollowed ==
    \A n \in LockNode : \A t \in Tid : Registered(n, t) =>
        \/ Alive(PidOf[t], t, n) \/ t \in ended[n] \/ Mailed(PidOf[t], n, t, Release)

\* A request on its way is known to its transaction, or a release follows it.
FollowedBy(p, n, i) ==
    \E j \in DOMAIN mail[p][n] :
        i < j /\ mail[p][n][j].tid = mail[p][n][i].tid /\ mail[p][n][j].kind \in Release
RequestsFollowed ==
    \A p \in Pid, n \in LockNode : \A i \in DOMAIN mail[p][n] :
        mail[p][n][i].kind \in LockRequest =>
            \/ Alive(p, mail[p][n][i].tid, n)
            \/ mail[p][n][i].tid \in ended[n]
            \/ FollowedBy(p, n, i)

\* mnesia_tm has cleared the store of a process that waits to restart.
Cleared(p) == client[p].pc = "acks" => client[p].nodes = {Own(p)}

FollowInv == LocksFollowed /\ RequestsFollowed /\ \A p \in Pid : Cleared(p)

-----------------------------------------------------------------------------
(* Types.                                                                  *)

\* The record of a process that is between transactions, or dead.
LEMMA RestingType ==
    ASSUME NEW age \in Tid \cup {0}
    PROVE  /\ Resting(age) \in Client
           /\ [Resting(age) EXCEPT !.pc = "dead"] \in Client
<1>1. <<>> \in Seq(SUBSET LockNode) /\ <<>> \in Seq(Step)
  OBVIOUS
<1>2. 0 \in 0 .. MaxCalls
  BY MaxCallsAssumption
<1>3. Resting(age) \in Client
  BY <1>1, <1>2 DEF Resting, Client
<1>4. [Resting(age) EXCEPT !.pc = "dead"] \in Client
  BY <1>3 DEF Client
<1> QED
  BY <1>3, <1>4

\* The record of a process whose function has just been started or waits to be.
LEMMA RunningType ==
    ASSUME NEW p \in Pid, NEW t \in Tid \cup {0}, NEW ns \in SUBSET LockNode
    PROVE  /\ Running(p, t) \in Client
           /\ [Running(p, t) EXCEPT !.pc = "acks", !.await = ns] \in Client
<1>1. Own(p) \in LockNode
  BY PidAssumption, MnesiaAssumption DEF Own
<1>2. Running(p, t) \in Client
  BY <1>1, RestingType, ZenonT(60) DEF Running, Client
<1> QED
  BY <1>2 DEF Client

\* The nodes a process reads from and writes to are nodes with a lock manager.
LEMMA ReplicaType ==
    ASSUME NEW p \in Pid, NEW tab \in Tab
    PROVE  /\ Own(p) \in LockNode
           /\ ReadNode(p, tab) \in LockNode
           /\ WNodes(p, tab) \subseteq LockNode
<1>1. Own(p) \in LockNode
  BY PidAssumption, MnesiaAssumption DEF Own
<1>2. WhereToWrite[tab][Own(p)] \in Seq(LockNode)
  BY <1>1, WhereAssumption, MnesiaAssumption
<1> QED
  BY <1>1, <1>2, WhereAssumption, MnesiaAssumption DEF ReadNode, WNodes, Range

\* One stage after the other.
LEMMA StageProperties ==
    ASSUME NEW a \in SUBSET LockNode, NEW b \in SUBSET LockNode
    PROVE  /\ Stage(a) \in Seq(SUBSET LockNode)
           /\ UNION Range(Stage(a)) = a
<1>1. CASE a = {}
  BY <1>1 DEF Stage, Range
<1>2. CASE a # {}
  <2>1. Stage(a) = <<a>>
    BY <1>2 DEF Stage
  <2>2. Range(<<a>>) = {a}
    BY DEF Range
  <2> QED
    BY <2>1, <2>2
<1> QED
  BY <1>1, <1>2

\* The elements of two sequences put together are those of both.
LEMMA RangeOfConcat ==
    ASSUME NEW S, NEW s \in Seq(S), NEW t \in Seq(S)
    PROVE  Range(s \o t) = Range(s) \cup Range(t)
<1>1. /\ s \o t \in Seq(S)
      /\ Len(s \o t) = Len(s) + Len(t)
      /\ \A i \in 1 .. Len(s) + Len(t) :
            (s \o t)[i] = IF i <= Len(s) THEN s[i] ELSE t[i - Len(s)]
  BY ConcatProperties
<1>2. Len(s) \in Nat /\ Len(t) \in Nat
  BY LenProperties
<1>3. DOMAIN s = 1 .. Len(s) /\ DOMAIN t = 1 .. Len(t) /\ DOMAIN (s \o t) = 1 .. Len(s) + Len(t)
  BY <1>1, LenProperties
<1>4. ASSUME NEW x \in Range(s) PROVE x \in Range(s \o t)
  BY <1>1, <1>2, <1>3 DEF Range
<1>5. ASSUME NEW j \in 1 .. Len(t) PROVE t[j] \in Range(s \o t)
  <2>1. /\ j + Len(s) \in 1 .. Len(s) + Len(t)
        /\ ~(j + Len(s) <= Len(s))
        /\ (j + Len(s)) - Len(s) = j
    BY <1>2
  <2>2. (s \o t)[j + Len(s)] = t[j]
    BY <1>1, <2>1
  <2> QED
    BY <1>3, <2>1, <2>2 DEF Range
<1>6. ASSUME NEW i \in 1 .. Len(s) + Len(t) PROVE (s \o t)[i] \in Range(s) \cup Range(t)
  <2>1. CASE i <= Len(s)
    BY <1>1, <1>2, <1>3, <2>1 DEF Range
  <2>2. CASE ~(i <= Len(s))
    <3>1. i - Len(s) \in 1 .. Len(t)
      BY <1>2, <2>2
    <3> QED
      BY <1>1, <1>3, <2>2, <3>1 DEF Range
  <2> QED
    BY <2>1, <2>2
<1> QED
  BY <1>3, <1>4, <1>5, <1>6 DEF Range

\* The stages of a write reach all the replicas.
LEMMA WriteStagesProperties ==
    ASSUME NEW p \in Pid, NEW tab \in Tab
    PROVE  /\ WriteStages(p, tab) \in Seq(SUBSET LockNode)
           /\ UNION Range(WriteStages(p, tab)) = WNodes(p, tab)
<1> DEFINE ns == WhereToWrite[tab][Own(p)]
           own == Range(ns) \cap {Own(p)}
           first == {ns[i] : i \in {j \in DOMAIN ns :
                        /\ ns[j] # Own(p)
                        /\ \A k \in DOMAIN ns : k < j => ns[k] = Own(p)}}
           rest == Range(ns) \ (own \cup first)
<1>1. WriteStages(p, tab) = Stage(own) \o Stage(first) \o Stage(rest)
  BY DEF WriteStages
<1>2. Range(ns) = WNodes(p, tab) /\ Range(ns) \subseteq LockNode
  BY ReplicaType DEF WNodes
<1>3. first \subseteq Range(ns)
  BY DEF Range
<1> HIDE DEF ns, own, first
<1>4. /\ own \in SUBSET LockNode /\ first \in SUBSET LockNode /\ rest \in SUBSET LockNode
      /\ own \subseteq Range(ns)
  BY <1>2, <1>3 DEF own
<1> HIDE DEF rest
<1>5. /\ Stage(own) \in Seq(SUBSET LockNode) /\ UNION Range(Stage(own)) = own
      /\ Stage(first) \in Seq(SUBSET LockNode) /\ UNION Range(Stage(first)) = first
      /\ Stage(rest) \in Seq(SUBSET LockNode) /\ UNION Range(Stage(rest)) = rest
  BY <1>4, StageProperties
<1>6. Stage(own) \o Stage(first) \in Seq(SUBSET LockNode)
  BY <1>5, ConcatProperties
<1>7. /\ Range(Stage(own) \o Stage(first)) = Range(Stage(own)) \cup Range(Stage(first))
      /\ Range((Stage(own) \o Stage(first)) \o Stage(rest))
             = Range(Stage(own) \o Stage(first)) \cup Range(Stage(rest))
  <2>1. ASSUME NEW s \in Seq(SUBSET LockNode), NEW t \in Seq(SUBSET LockNode)
        PROVE  Range(s \o t) = Range(s) \cup Range(t)
    BY RangeOfConcat
  <2> QED
    BY <1>5, <1>6, <2>1
<1>8. (Stage(own) \o Stage(first)) \o Stage(rest) \in Seq(SUBSET LockNode)
  BY <1>5, <1>6, ConcatProperties
<1>9. UNION Range((Stage(own) \o Stage(first)) \o Stage(rest)) = own \cup first \cup rest
  BY <1>5, <1>7
<1>10. own \cup first \cup rest = Range(ns)
  BY <1>3, <1>4 DEF rest
<1> QED
  BY <1>1, <1>2, <1>8, <1>9, <1>10

\* What the stages of each kind of call are.
LEMMA StagesProperties ==
    ASSUME NEW p \in Pid, NEW s \in Step
    PROVE  /\ Stages(p, s) \in Seq(SUBSET LockNode)
           /\ s.call \in {"rlock", "ixrlock"} => Stages(p, s) = <<{ReadNode(p, s.oid.tab)}>>
           /\ s.call \in Sticky => Stages(p, s) = <<{Own(p)}>>
           /\ s.call \notin Sticky \cup {"rlock", "ixrlock"} =>
                 Stages(p, s) = WriteStages(p, s.oid.tab)
<1>1. s.oid.tab \in Tab
  BY DEF Step, Oid
<1>2. /\ Own(p) \in LockNode /\ ReadNode(p, s.oid.tab) \in LockNode
      /\ WriteStages(p, s.oid.tab) \in Seq(SUBSET LockNode)
  BY <1>1, ReplicaType, WriteStagesProperties
<1>3. /\ <<{Own(p)}>> \in Seq(SUBSET LockNode)
      /\ <<{ReadNode(p, s.oid.tab)}>> \in Seq(SUBSET LockNode)
  BY <1>2
<1>4. CASE s.call \in {"rlock", "ixrlock"}
  BY <1>3, <1>4 DEF Stages, Sticky
<1>5. CASE s.call \in Sticky
  BY <1>3, <1>5 DEF Stages, Sticky
<1>6. CASE s.call \notin Sticky \cup {"rlock", "ixrlock"}
  BY <1>2, <1>6 DEF Stages
<1> QED
  BY <1>4, <1>5, <1>6

\* A request is for one of the operations a lock manager knows.
LEMMA OpAtType ==
    ASSUME NEW p, NEW s, NEW n
    PROVE  OpAt(p, s, n) \in Op
BY DEF OpAt, Op

\* The steps left of a sticky call are calls and casts.
LEMMA StickyStepsType ==
    ASSUME NEW oid \in Oid, NEW cast \in Cast
    PROVE  StickySteps(oid, cast) \in Seq(Step)
<1>1. WholeTab(oid) \in Oid /\ [tab |-> oid.tab, key |-> STICK] \in Oid
  BY WholeTabType, StickAssumption DEF Oid
<1>2. /\ [call |-> "rlock", oid |-> WholeTab(oid)] \in Step
      /\ [call |-> "wlock", oid |-> oid] \in Step
      /\ [call |-> "wlock", oid |-> [tab |-> oid.tab, key |-> STICK]] \in Step
      /\ [call |-> cast, oid |-> oid] \in Step
  BY <1>1 DEF Step, LockCall
<1> QED
  BY <1>2 DEF StickySteps

\* What is left of a call, or of a sticky call, stays typed.
LEMMA ResumedType ==
    ASSUME NEW p \in Pid, NEW c \in Client, c.pc # "run" => c.step \in Step
    PROVE  Resumed(p, c) \in Client
<1>1. CASE c.pc = "run" \/ c.await # {} \/ (c.todo # <<>> /\ c.why = "none")
  BY <1>1 DEF Resumed
<1>2. CASE /\ ~(c.pc = "run" \/ c.await # {} \/ (c.todo # <<>> /\ c.why = "none"))
           /\ c.why # "none"
  <2>1. Resumed(p, c) = [c EXCEPT !.pc = "refused", !.todo = <<>>]
    BY <1>2 DEF Resumed
  <2>2. <<>> \in Seq(SUBSET LockNode)
    OBVIOUS
  <2> QED
    BY <2>1, <2>2, ZenonT(60) DEF Client
<1>3. CASE /\ ~(c.pc = "run" \/ c.await # {} \/ (c.todo # <<>> /\ c.why = "none"))
           /\ c.why = "none"
  <2> DEFINE lock == [oid |-> c.step.oid, op |-> LockOf(OpAt(p, c.step, Own(p)))]
             ns == IF c.step.call \in Sticky
                   THEN c.nodes \cup WNodes(p, c.step.oid.tab) ELSE c.nodes
  <2>1. Resumed(p, c) = [c EXCEPT !.pc = "run", !.step = NoStep,
                                  !.locks = c.locks \cup {lock}, !.nodes = ns]
    BY <1>3 DEF Resumed
  <2>2. c.step.oid \in Oid /\ c.step.oid.tab \in Tab
    BY <1>3 DEF Step, Oid
  <2>3. lock \in [oid : Oid, op : LockKind]
    BY <2>2 DEF LockOf, LockKind
  <2>4. ns \in SUBSET LockNode
    BY <2>2, ReplicaType DEF Client
  <2>5. c.locks \cup {lock} \in SUBSET [oid : Oid, op : LockKind]
    BY <2>3 DEF Client
  <2> HIDE DEF lock, ns
  <2> QED
    BY <2>1, <2>4, <2>5, ZenonT(60) DEF Client
<1> QED
  BY <1>1, <1>2, <1>3

\* An answer leaves the step of a call alone, and the awaited nodes too but
\* for the one it comes from.
LEMMA AnsweredType ==
    ASSUME NEW p \in Pid, NEW n \in LockNode, NEW r \in Reply, client[p] \in Client,
           client[p].pc = "wait", client[p].step \in Step,
           NEW c \in Answered(p, n, r)
    PROVE  /\ c \in Client
           /\ c.step = client[p].step
           /\ c.tid = client[p].tid
           /\ c.await = client[p].await \ {n}
           /\ c.locks = client[p].locks
           /\ c.calls = client[p].calls
           /\ c.todo = client[p].todo \/ c.step.call \in {"rlock", "ixrlock"}
           /\ c.pc \in {"wait", "run"}
           /\ c.pc = "run" => r.tag \in {"not_stuck", "stuck_elsewhere", "tid_released"}
<1> DEFINE d == [client[p] EXCEPT !.await = @ \ {n}, !.skip = @ \ {n}]
<1>1. d \in Client /\ d.step = client[p].step /\ d.tid = client[p].tid /\ d.pc = "wait"
         /\ d.await = client[p].await \ {n}
         /\ d.locks = client[p].locks /\ d.calls = client[p].calls
         /\ d.todo = client[p].todo
  BY DEF Client
<1>2. r.at \in LockNode
  BY MnesiaAssumption DEF Reply
<1>3. StickySteps(d.step.oid, "stick") \in Seq(Step) /\ StickySteps(d.step.oid, "unstick") \in Seq(Step)
  BY <1>1, StickyStepsType DEF Step, Cast
<1>4. <<{r.at}>> \in Seq(SUBSET LockNode)
  BY <1>2
<1> HIDE DEF d
<1>5. \/ c = d
      \/ c = [d EXCEPT !.got = d.got \/ OpAt(p, d.step, n) = "read_write"]
      \/ c = Refused(d, "cyclic")
      \/ r.tag \in {"cyclic", "no_exists"} /\ c = Refused(d, r.tag)
      \/ c = Switched(d, r.at)
      \/ /\ r.tag \in {"not_stuck", "stuck_elsewhere", "tid_released"}
         /\ \/ c = [d EXCEPT !.pc = "run", !.later = StickySteps(d.step.oid, "stick")]
            \/ c = [d EXCEPT !.pc = "run", !.later = StickySteps(d.step.oid, "unstick")]
  BY DEF Answered, d, Reply, ReplyTag
<1>6. CASE c = [d EXCEPT !.got = d.got \/ OpAt(p, d.step, n) = "read_write"]
  <2>1. (d.got \/ OpAt(p, d.step, n) = "read_write") \in BOOLEAN
    OBVIOUS
  <2> QED
    BY <1>1, <1>6, <2>1, ZenonT(60) DEF Client
<1>7. ASSUME NEW why \in {"cyclic", "no_exists"}, c = Refused(d, why)
      PROVE  /\ c \in Client /\ c.step = d.step /\ c.tid = d.tid /\ c.await = d.await
             /\ c.locks = d.locks /\ c.calls = d.calls /\ c.todo = d.todo /\ c.pc = "wait"
  BY <1>1, <1>7 DEF Refused, Client
<1>8. CASE c = Switched(d, r.at)
  <2>1. CASE d.step.call \in {"rlock", "ixrlock"}
    <3>1. c = [d EXCEPT !.nodes = d.nodes \cup {r.at}, !.todo = <<{r.at}>>]
      BY <1>8, <2>1 DEF Switched
    <3>2. c \in Client
      BY <1>1, <1>2, <1>4, <3>1, ZenonT(60) DEF Client
    <3>3. /\ c.step = d.step /\ c.tid = d.tid /\ c.await = d.await /\ c.pc = d.pc
          /\ c.locks = d.locks /\ c.calls = d.calls
      BY <1>1, <3>1 DEF Client
    <3> QED
      BY <1>1, <2>1, <3>2, <3>3
  <2>2. CASE d.step.call \notin {"rlock", "ixrlock"}
    <3>1. c = [d EXCEPT !.skip = d.skip \cup (d.await \ {r.at})]
      BY <1>8, <2>2 DEF Switched
    <3> QED
      BY <1>1, <1>2, <3>1 DEF Client
  <2> QED
    BY <2>1, <2>2
<1>9. ASSUME NEW steps \in Seq(Step), c = [d EXCEPT !.pc = "run", !.later = steps]
      PROVE  /\ c \in Client /\ c.step = d.step /\ c.tid = d.tid /\ c.await = d.await
             /\ c.locks = d.locks /\ c.calls = d.calls /\ c.todo = d.todo /\ c.pc = "run"
  BY <1>1, <1>9 DEF Client
<1>10. CASE c = d
  BY <1>1, <1>10
<1>11. CASE \/ c = Refused(d, "cyclic")
            \/ r.tag \in {"cyclic", "no_exists"} /\ c = Refused(d, r.tag)
  BY <1>1, <1>7, <1>11
<1>12. CASE /\ r.tag \in {"not_stuck", "stuck_elsewhere", "tid_released"}
            /\ \/ c = [d EXCEPT !.pc = "run", !.later = StickySteps(d.step.oid, "stick")]
               \/ c = [d EXCEPT !.pc = "run", !.later = StickySteps(d.step.oid, "unstick")]
  <2>1. PICK a \in Seq(Step), b \in Seq(Step) :
           a = StickySteps(d.step.oid, "stick") /\ b = StickySteps(d.step.oid, "unstick")
    BY <1>3
  <2>2. \/ c = [d EXCEPT !.pc = "run", !.later = a]
        \/ c = [d EXCEPT !.pc = "run", !.later = b]
    BY <1>12, <2>1
  <2>3. /\ c \in Client /\ c.step = d.step /\ c.tid = d.tid /\ c.await = d.await
        /\ c.locks = d.locks /\ c.calls = d.calls /\ c.todo = d.todo /\ c.pc = "run"
    BY <1>9, <2>2
  <2> QED
    BY <1>1, <1>12, <2>3
<1> QED
  BY <1>5, <1>6, <1>8, <1>10, <1>11, <1>12

-----------------------------------------------------------------------------
(* What the steps of a lock manager do to the transactions.                *)

Others(n, t) ==
    \A m \in LockNode : \A u : m # n \/ u # t =>
        /\ Waits(m, u)' <=> Waits(m, u)
        /\ Frees(m, u)' <=> Frees(m, u)
        /\ Registered(m, u)' => Registered(m, u)

\* A lock manager that answers sends one more reply.
LEMMA ReplyEffect ==
    ASSUME TypeOK, NEW n \in LockNode, NEW t, NEW tag, NEW at, ReplyTo(n, t, tag, at)
    PROVE  \A m \in LockNode : replies'[m] =
              IF m = n THEN replies[n] \cup {[tid |-> t, tag |-> tag, at |-> at]} ELSE replies[m]
BY DEF TypeOK, ReplyTo

\* A new entry for t, a reply or a place in the queue, is all that changes.
LEMMA OwedEffect ==
    ASSUME TypeOK, NEW n \in LockNode, NEW t, UNCHANGED job,
           \A m \in LockNode : \A l \in tidLocks'[m] :
                 l \in tidLocks[m] \/ (m = n /\ l.tid = t),
           \/ /\ \E r : /\ r.tid = t /\ r.tag # "tid_released"
                       /\ \A m \in LockNode : replies'[m] =
                             IF m = n THEN replies[n] \cup {r} ELSE replies[m]
              /\ UNCHANGED lockQueue
           \/ /\ \E w : /\ w.tid = t
                       /\ \A m \in LockNode : lockQueue'[m] =
                             IF m = n THEN lockQueue[n] \cup {w} ELSE lockQueue[m]
              /\ UNCHANGED replies
    PROVE  /\ Others(n, t)
           /\ Waits(n, t)'
           /\ Frees(n, t)' <=> Frees(n, t)
<1>1. ASSUME NEW m \in LockNode, NEW u, m # n \/ u # t
      PROVE  Waits(m, u)' <=> Waits(m, u)
  BY <1>1 DEF Waits
<1>2. ASSUME NEW m \in LockNode, NEW u
      PROVE  Frees(m, u)' <=> Frees(m, u)
  BY DEF Frees
<1>3. ASSUME NEW m \in LockNode, NEW u, m # n \/ u # t, Registered(m, u)'
      PROVE  Registered(m, u)
  BY <1>3 DEF Registered
<1>4. Waits(n, t)'
  BY DEF Waits
<1> QED
  BY <1>1, <1>2, <1>3, <1>4 DEF Others

\* try_lock answers with one reply or one place in the queue, and registers nobody else.
LEMMA TryLockOwes ==
    ASSUME TypeOK, NEW n \in LockNode, NEW t \in Tid, NEW op \in Op, NEW oid \in Oid,
           TryLock(n, t, op, oid)
    PROVE  /\ \A m \in LockNode : \A l \in tidLocks'[m] :
                 l \in tidLocks[m] \/ (m = n /\ l.tid = t)
           /\ \/ /\ \E r : /\ r.tid = t /\ r.tag \in {"granted", "cyclic", "no_exists"}
                          /\ \A m \in LockNode : replies'[m] =
                                IF m = n THEN replies[n] \cup {r} ELSE replies[m]
                 /\ UNCHANGED lockQueue
              \/ /\ \E w : /\ w.tid = t
                          /\ \A m \in LockNode : lockQueue'[m] =
                                IF m = n THEN lockQueue[n] \cup {w} ELSE lockQueue[m]
                 /\ UNCHANGED replies
<1>1. CASE GrantLock(n, t, op, oid) /\ UNCHANGED lockQueue
  <2>1. \A m \in LockNode : \A l \in tidLocks'[m] :
                 l \in tidLocks[m] \/ (m = n /\ l.tid = t)
    BY <1>1 DEF GrantLock, SetLock, TypeOK
  <2>2. \E tag \in {"granted", "cyclic", "no_exists"} : ReplyTo(n, t, tag, n)
    BY <1>1 DEF GrantLock
  <2>3. PICK tag \in {"granted", "cyclic", "no_exists"} : ReplyTo(n, t, tag, n)
    BY <2>2
  <2>4. \A m \in LockNode : replies'[m] =
           IF m = n THEN replies[n] \cup {[tid |-> t, tag |-> tag, at |-> n]} ELSE replies[m]
    BY <2>3, ReplyEffect
  <2> QED
    BY <1>1, <2>1, <2>4
<1>2. CASE ReplyTo(n, t, "cyclic", n) /\ UNCHANGED <<held, tidLocks, lockQueue>>
  <2>1. \A m \in LockNode : replies'[m] =
           IF m = n THEN replies[n] \cup {[tid |-> t, tag |-> "cyclic", at |-> n]} ELSE replies[m]
    BY <1>2, ReplyEffect
  <2> QED
    BY <1>2, <2>1
<1>3. CASE /\ lockQueue' = [lockQueue EXCEPT ![n] = @ \cup {[oid |-> oid, tid |-> t, op |-> op]}]
           /\ tidLocks' = [tidLocks EXCEPT ![n] =
                              @ \cup {[tid |-> t, oid |-> oid, op |-> "queued"]}]
           /\ UNCHANGED <<held, replies>>
  <2>1. \A m \in LockNode : lockQueue'[m] =
           IF m = n THEN lockQueue[n] \cup {[oid |-> oid, tid |-> t, op |-> op]}
           ELSE lockQueue[m]
    BY <1>3 DEF TypeOK
  <2>2. \A m \in LockNode : \A l \in tidLocks'[m] :
           l \in tidLocks[m] \/ (m = n /\ l.tid = t)
    BY <1>3 DEF TypeOK
  <2> QED
    BY <1>3, <2>1, <2>2
<1> QED
  BY <1>1, <1>2, <1>3 DEF TryLock

\* A request is answered or queued.
LEMMA AskEffect ==
    ASSUME TypeOK, NEW n \in LockNode, NEW t \in Tid, NEW op \in Op, NEW oid \in Oid,
           RequestLock(n, t, op, oid) \/ TestSetSticky(n, t, op, oid)
    PROVE  /\ Others(n, t)
           /\ Waits(n, t)'
           /\ Frees(n, t)' <=> Frees(n, t)
           /\ UNCHANGED <<job, stickyAt>>
           /\ \A m \in LockNode : \A r \in replies'[m] : r \in replies[m] \/
                 /\ m = n /\ r.tid = t
                 /\ r.tag \in {"not_stuck", "stuck_elsewhere"} => TestSetSticky(n, t, op, oid)
<1> DEFINE Asked1(tag) == tag \in {"not_stuck", "stuck_elsewhere"} => TestSetSticky(n, t, op, oid)
           Adds(r) == \A m \in LockNode : replies'[m] =
                         IF m = n THEN replies[n] \cup {r} ELSE replies[m]
           Replies == \E r : r.tid = t /\ r.tag # "tid_released" /\ Asked1(r.tag) /\ Adds(r)
           Queues == \E w : /\ w.tid = t
                            /\ \A m \in LockNode : lockQueue'[m] =
                                  IF m = n THEN lockQueue[n] \cup {w} ELSE lockQueue[m]
           Registers == \A m \in LockNode : \A l \in tidLocks'[m] :
                           l \in tidLocks[m] \/ (m = n /\ l.tid = t)
<1> HIDE DEF Asked1, Adds, Replies, Queues, Registers
<1>1. UNCHANGED <<job, stickyAt>>
  BY DEF RequestLock, TestSetSticky
<1>2. ASSUME NEW tag, NEW at, tag # "tid_released", Asked1(tag), ReplyTo(n, t, tag, at)
      PROVE  Replies
  <2>1. Adds([tid |-> t, tag |-> tag, at |-> at])
    BY <1>2, ReplyEffect DEF Adds
  <2> QED
    BY <1>2, <2>1 DEF Replies
<1>3. Registers /\ ((Replies /\ UNCHANGED lockQueue) \/ (Queues /\ UNCHANGED replies))
  <2>1. CASE TryLock(n, t, op, oid)
    <3>1. /\ Registers
          /\ \/ /\ \E r : r.tid = t /\ r.tag \in {"granted", "cyclic", "no_exists"} /\ Adds(r)
                /\ UNCHANGED lockQueue
             \/ (Queues /\ UNCHANGED replies)
      BY <2>1, TryLockOwes DEF Registers, Adds, Queues
    <3>2. ASSUME NEW tag, tag \in {"granted", "cyclic", "no_exists"}
          PROVE  tag # "tid_released" /\ Asked1(tag)
      BY <3>2 DEF Asked1
    <3> QED
      BY <3>1, <3>2 DEF Replies
  <2>2. CASE \E tag, at : /\ tag # "tid_released" /\ Asked1(tag) /\ ReplyTo(n, t, tag, at)
                          /\ UNCHANGED <<tidLocks, lockQueue>>
    <3>1. Replies /\ UNCHANGED <<tidLocks, lockQueue>>
      BY <1>2, <2>2
    <3>2. Registers
      BY <3>1 DEF Registers
    <3> QED
      BY <3>1, <3>2
  <2>3. CASE RequestLock(n, t, op, oid) /\ ~TryLock(n, t, op, oid)
    <3>1. /\ ReplyTo(n, t, "switch", stickyAt[n][oid.tab])
          /\ UNCHANGED <<tidLocks, lockQueue>>
      BY <2>3 DEF RequestLock
    <3> QED
      BY <2>2, <3>1 DEF Asked1
  <2>4. CASE TestSetSticky(n, t, op, oid) /\ ~TryLock(n, t, op, oid)
    <3>1. \E tag \in {"not_stuck", "stuck_elsewhere"} : \E at :
             ReplyTo(n, t, tag, at) /\ UNCHANGED <<tidLocks, lockQueue>>
      BY <2>4 DEF TestSetSticky
    <3> QED
      BY <2>2, <2>4, <3>1 DEF Asked1
  <2> QED
    BY <2>1, <2>3, <2>4
<1>4. Others(n, t) /\ Waits(n, t)' /\ (Frees(n, t)' <=> Frees(n, t))
  <2>1. Replies => \E r : r.tid = t /\ r.tag # "tid_released" /\ Adds(r)
    BY DEF Replies
  <2> QED
    BY <1>1, <1>3, <2>1, OwedEffect DEF Adds, Queues, Registers
<1>5. \A m \in LockNode : \A r \in replies'[m] :
         r \in replies[m] \/ (m = n /\ r.tid = t /\ Asked1(r.tag))
  <2>1. CASE Replies
    BY <2>1 DEF Replies, Adds
  <2>2. CASE UNCHANGED replies
    BY <2>2
  <2> QED
    BY <1>3, <2>1, <2>2
<1> QED
  BY <1>1, <1>4, <1>5 DEF Asked1

\* The loop of a lock manager takes nothing from the owed answers: a waiter
\* that leaves the queue is answered, an acknowledgement that is due is sent.
LEMMA TryWaiterEffect ==
    ASSUME LockInv, AnswerInv, NEW n \in LockNode, TryWaiter(n)
    PROVE  /\ \A m \in LockNode : \A u :
                 /\ Waits(m, u)' <=> Waits(m, u)
                 /\ Frees(m, u)' <=> Frees(m, u)
                 /\ Registered(m, u)' => Registered(m, u)
           /\ \A m \in LockNode : \A r \in replies'[m] \ replies[m] :
                 r.tag \in {"granted", "cyclic", "no_exists"}
<1> USE DEF LockInv, TypeOK
<1>1. PICK w \in job[n].try :
         \/ /\ \E left : job' = [job EXCEPT ![n].try = left]
            /\ UNCHANGED <<tidLocks, lockQueue, replies>>
         \/ /\ \E left : job' = [job EXCEPT ![n].try = left]
            /\ Dequeue(n, w)
            /\ \E tag \in {"granted", "cyclic", "no_exists"} : ReplyTo(n, w.tid, tag, n)
            /\ \/ SetLock(n, w.tid, w.oid, LockOf(w.op))
               \/ UNCHANGED tidLocks
  BY DEF TryWaiter, GrantLock
<1>2. w \in lockQueue[n] /\ w.tid \in Tid
  BY DEF AnswerInv, JobInv, Waiter
<1>3. Registered(n, w.tid)
  BY <1>2 DEF Tracked, Registered
<1>4. \A m \in LockNode : job'[m].ack = job[m].ack
  BY <1>1, ZenonT(60) DEF Job
<1>5. ASSUME NEW m \in LockNode, NEW u, Registered(m, u)' PROVE Registered(m, u)
  BY <1>1, <1>3, <1>5 DEF Registered, SetLock
<1>6. CASE UNCHANGED <<lockQueue, replies>>
  BY <1>4, <1>5, <1>6 DEF Waits, Frees
<1>7. ASSUME NEW tag \in {"granted", "cyclic", "no_exists"},
             Dequeue(n, w), ReplyTo(n, w.tid, tag, n)
      PROVE  /\ \A m \in LockNode : \A u :
                   (Waits(m, u)' <=> Waits(m, u)) /\ (Frees(m, u)' <=> Frees(m, u))
             /\ \A m \in LockNode : \A q \in replies'[m] \ replies[m] : q.tag = tag
  <2> DEFINE r == [tid |-> w.tid, tag |-> tag, at |-> n]
  <2>1. \A m \in LockNode : replies'[m] = IF m = n THEN replies[n] \cup {r} ELSE replies[m]
    BY <1>7, ReplyEffect
  <2>2. \A m \in LockNode : lockQueue'[m] = IF m = n THEN lockQueue[n] \ {w} ELSE lockQueue[m]
    BY <1>7 DEF Dequeue
  <2>3. r.tid = w.tid /\ r.tag = tag
    BY <1>7
  <2> HIDE DEF r
  <2>4. ASSUME NEW m \in LockNode, NEW u PROVE Waits(m, u)' <=> Waits(m, u)
    BY <1>2, <2>1, <2>2, <2>3 DEF Waits
  <2>5. ASSUME NEW m \in LockNode, NEW u PROVE Frees(m, u)' <=> Frees(m, u)
    BY <1>4, <2>1, <2>3 DEF Frees
  <2> QED
    BY <2>1, <2>3, <2>4, <2>5
<1> QED
  BY <1>1, <1>5, <1>6, <1>7

\* A step of the release loop changes nothing that is owed, and registers nobody.
LEMMA LoopEffect ==
    ASSUME LockInv, AnswerInv, NoneDown, NEW n \in LockNode, Loop(n)
    PROVE  /\ \A m \in LockNode : \A u :
                 /\ Waits(m, u)' <=> Waits(m, u)
                 /\ Frees(m, u)' <=> Frees(m, u)
                 /\ Registered(m, u)' => Registered(m, u)
           /\ NoneDown'
           /\ UNCHANGED stickyAt
           /\ \A m \in LockNode : \A r \in replies'[m] \ replies[m] :
                 r.tag \in {"granted", "cyclic", "no_exists", "tid_released"}
<1> USE DEF LockInv, TypeOK
<1>1. ~ReleaseNext(n)
  BY DEF ReleaseNext, NoneDown
<1>2. CASE RearrangeQueue(n)
  <2>1. UNCHANGED <<held, tidLocks, stickyAt, lockQueue, replies>>
    BY <1>2 DEF RearrangeQueue
  <2>2. \A m \in LockNode : job'[m].ack = job[m].ack /\ job'[m].tids = job[m].tids
    BY <1>2 DEF RearrangeQueue, Job
  <2> QED
    BY <2>1, <2>2 DEF Waits, Frees, Registered, NoneDown
<1>3. CASE TryWaiter(n)
  <2>1. NoneDown' /\ UNCHANGED stickyAt
    BY <1>3, ZenonT(60) DEF TryWaiter, NoneDown, Job
  <2> QED
    BY <1>3, <2>1, TryWaiterEffect
<1>4. CASE ReleaseDone(n)
  <2> DEFINE acks == {[tid |-> t, tag |-> "tid_released", at |-> n] : t \in job[n].ack}
  <2>1. UNCHANGED <<held, tidLocks, stickyAt, lockQueue>>
    BY <1>4 DEF ReleaseDone
  <2>2. \A m \in LockNode : replies'[m] = IF m = n THEN replies[n] \cup acks ELSE replies[m]
    BY <1>4 DEF ReleaseDone
  <2>3. \A m \in LockNode : job'[m] = IF m = n THEN NoJob ELSE job[m]
    BY <1>4 DEF ReleaseDone
  <2>8. \A a \in acks : a.tag = "tid_released" /\ a.tid \in job[n].ack
    OBVIOUS
  <2>9. \A t \in job[n].ack : [tid |-> t, tag |-> "tid_released", at |-> n] \in acks
    OBVIOUS
  <2> HIDE DEF acks
  <2>4. NoneDown'
    BY <2>3 DEF NoneDown, NoJob
  <2>5. ASSUME NEW m \in LockNode, NEW u PROVE Waits(m, u)' <=> Waits(m, u)
    BY <2>1, <2>2, <2>8 DEF Waits
  <2>6. ASSUME NEW m \in LockNode, NEW u PROVE Frees(m, u)' <=> Frees(m, u)
    <3>1. CASE m # n
      BY <2>2, <2>3, <3>1 DEF Frees
    <3>2. ASSUME Frees(n, u)' PROVE Frees(n, u)
      BY <2>2, <2>3, <2>8, <3>2 DEF Frees, NoJob
    <3>3. ASSUME u \in job[n].ack PROVE Frees(n, u)'
      <4>1. [tid |-> u, tag |-> "tid_released", at |-> n] \in replies'[n]
        BY <2>2, <2>9, <3>3
      <4> QED
        BY <4>1 DEF Frees
    <3>4. ASSUME Frees(n, u) PROVE Frees(n, u)'
      BY <2>2, <3>3, <3>4 DEF Frees
    <3> QED
      BY <3>1, <3>2, <3>4
  <2>7. \A m \in LockNode : \A r \in replies'[m] \ replies[m] : r.tag = "tid_released"
    BY <2>2, <2>8
  <2> QED
    BY <2>1, <2>4, <2>5, <2>6, <2>7 DEF Registered
<1> QED
  BY <1>1, <1>2, <1>3, <1>4 DEF Loop, Rearrange

\* A release forgets the transaction; whom it answers is acknowledged.
LEMMA ReleaseEffect ==
    ASSUME TypeOK, NoneDown, NEW n \in LockNode, NEW t \in Tid, NEW ack \in SUBSET Tid,
           job[n] = NoJob, ReleaseLocks(n, t, {}, ack), UNCHANGED <<stickyAt, replies>>
    PROVE  /\ \A m \in LockNode : \A u :
                 /\ Waits(m, u)' => Waits(m, u)
                 /\ m # n \/ u # t => (Waits(m, u)' <=> Waits(m, u))
                 /\ Frees(m, u)' <=> (Frees(m, u) \/ (m = n /\ u \in ack))
                 /\ Registered(m, u)' => Registered(m, u) /\ (m # n \/ u # t)
           /\ NoneDown'
<1> DEFINE locks == {l \in tidLocks[n] : l.tid = t}
<1>1. \A m \in LockNode : tidLocks'[m] =
         IF m = n THEN tidLocks[n] \ locks ELSE tidLocks[m]
  BY DEF ReleaseLocks, TypeOK
<1>2. \A m \in LockNode : \A w :
         /\ w \in lockQueue'[m] => w \in lockQueue[m]
         /\ w \in lockQueue[m] /\ (m # n \/ w.tid # t) => w \in lockQueue'[m]
  BY DEF ReleaseLocks, TypeOK
<1>3. \A m \in LockNode :
         /\ job'[m].ack = IF m = n THEN ack ELSE job[m].ack
         /\ job'[m].tids = IF m = n THEN {} ELSE job[m].tids
  BY DEF ReleaseLocks, TypeOK
<1>4. job[n].ack = {}
  BY DEF NoJob
<1>5. ASSUME NEW m \in LockNode, NEW u
      PROVE  /\ Waits(m, u)' => Waits(m, u)
             /\ m # n \/ u # t => (Waits(m, u)' <=> Waits(m, u))
  BY <1>2 DEF Waits
<1>6. ASSUME NEW m \in LockNode, NEW u
      PROVE  Frees(m, u)' <=> (Frees(m, u) \/ (m = n /\ u \in ack))
  BY <1>3, <1>4 DEF Frees
<1>7. ASSUME NEW m \in LockNode, NEW u, Registered(m, u)'
      PROVE  Registered(m, u) /\ (m # n \/ u # t)
  BY <1>1, <1>7 DEF Registered
<1>8. NoneDown'
  BY <1>3 DEF NoneDown
<1> QED
  BY <1>5, <1>6, <1>7, <1>8

\* An answer that is taken was the only thing owed.
LEMMA TakeEffect ==
    ASSUME AnswerInv, NEW n \in LockNode, NEW r \in replies[n],
           replies' = [replies EXCEPT ![n] = @ \ {r}],
           UNCHANGED <<held, tidLocks, stickyAt, lockQueue, job>>
    PROVE  /\ ~Waits(n, r.tid)' /\ ~Frees(n, r.tid)'
           /\ IF r.tag = "tid_released" THEN Frees(n, r.tid) /\ ~Waits(n, r.tid)
              ELSE Waits(n, r.tid) /\ ~Frees(n, r.tid)
           /\ \A m \in LockNode : \A u : m # n \/ u # r.tid =>
                 (Waits(m, u)' <=> Waits(m, u)) /\ (Frees(m, u)' <=> Frees(m, u))
           /\ \A m \in LockNode : \A u : Registered(m, u)' <=> Registered(m, u)
<1>1. \A m \in LockNode : replies'[m] = IF m = n THEN replies[n] \ {r} ELSE replies[m]
  BY DEF AnswerInv, TypeOK
<1>2. /\ \A w \in lockQueue[n] : w.tid # r.tid
      /\ \A q \in replies[n] : q.tid = r.tid => q = r
      /\ r.tid \notin job[n].ack
  BY DEF AnswerInv, OneAnswer, JobInv, Silent
<1>3. \A m \in LockNode : \A u : Registered(m, u)' <=> Registered(m, u)
  BY DEF Registered
<1>4. ASSUME NEW m \in LockNode, NEW u, m # n \/ u # r.tid
      PROVE  (Waits(m, u)' <=> Waits(m, u)) /\ (Frees(m, u)' <=> Frees(m, u))
  BY <1>1, <1>4 DEF Waits, Frees
<1>5. ~Waits(n, r.tid)' /\ ~Frees(n, r.tid)'
  BY <1>1, <1>2 DEF Waits, Frees
<1>6. IF r.tag = "tid_released" THEN Frees(n, r.tid) /\ ~Waits(n, r.tid)
      ELSE Waits(n, r.tid) /\ ~Frees(n, r.tid)
  BY <1>2 DEF Waits, Frees
<1> QED
  BY <1>3, <1>4, <1>5, <1>6

-----------------------------------------------------------------------------
(* What sending and delivering do to the mailboxes.                        *)

\* The elements and places of a sequence with one more at its end.
LEMMA AppendRange ==
    ASSUME NEW S, NEW s \in Seq(S), NEW x \in S
    PROVE  /\ Append(s, x) \in Seq(S)
           /\ DOMAIN s = 1 .. Len(s) /\ Len(s) \in Nat
           /\ DOMAIN Append(s, x) = 1 .. Len(s) + 1
           /\ \A i \in 1 .. Len(s) : Append(s, x)[i] = s[i]
           /\ Append(s, x)[Len(s) + 1] = x
           /\ Range(Append(s, x)) = Range(s) \cup {x}
<1>1. /\ Append(s, x) \in Seq(S)
      /\ DOMAIN s = 1 .. Len(s) /\ Len(s) \in Nat
      /\ DOMAIN Append(s, x) = 1 .. Len(s) + 1
      /\ \A i \in 1 .. Len(s) : Append(s, x)[i] = s[i]
      /\ Append(s, x)[Len(s) + 1] = x
  OBVIOUS
<1>2. \A i \in 1 .. Len(s) + 1 : i \in 1 .. Len(s) \/ i = Len(s) + 1
  BY <1>1
<1>3. \A i \in 1 .. Len(s) : i \in 1 .. Len(s) + 1
  BY <1>1
<1>4. Len(s) + 1 \in 1 .. Len(s) + 1
  BY <1>1
<1> QED
  BY <1>1, <1>2, <1>3, <1>4 DEF Range

\* The elements and places of a sequence without its first.
LEMMA TailRange ==
    ASSUME NEW S, NEW s \in Seq(S), s # <<>>
    PROVE  /\ Tail(s) \in Seq(S) /\ Head(s) \in S /\ Head(s) = s[1]
           /\ DOMAIN s = 1 .. Len(s) /\ Len(s) \in Nat \ {0}
           /\ DOMAIN Tail(s) = 1 .. Len(s) - 1
           /\ \A i \in 1 .. Len(s) - 1 : Tail(s)[i] = s[i + 1]
           /\ Range(Tail(s)) \subseteq Range(s)
           /\ Head(s) \in Range(s)
           /\ Range(s) \subseteq Range(Tail(s)) \cup {Head(s)}
<1>1. /\ Tail(s) \in Seq(S) /\ Head(s) \in S
      /\ Len(Tail(s)) = Len(s) - 1
      /\ \A i \in 1 .. Len(Tail(s)) : Tail(s)[i] = s[i + 1]
  BY HeadTailProperties
<1>2. DOMAIN s = 1 .. Len(s) /\ Len(s) \in Nat \ {0}
  BY EmptySeq, LenProperties
<1>3. DOMAIN Tail(s) = 1 .. Len(s) - 1
  BY <1>1, LenProperties
<1>4. Head(s) = s[1]
  BY <1>2
<1>5. 1 \in 1 .. Len(s) /\ \A i \in 1 .. Len(s) - 1 : i + 1 \in 1 .. Len(s)
  BY <1>2
<1>6. \A i \in 1 .. Len(s) : i = 1 \/ (i - 1 \in 1 .. Len(s) - 1 /\ (i - 1) + 1 = i)
  BY <1>2
<1>7. Range(Tail(s)) \subseteq Range(s) /\ Head(s) \in Range(s)
  <2>1. \A i \in 1 .. Len(s) : s[i] \in Range(s)
    BY <1>2 DEF Range
  <2>2. \A i \in 1 .. Len(s) - 1 : Tail(s)[i] \in Range(s)
    BY <1>1, <1>5, <2>1
  <2> QED
    BY <1>3, <1>4, <1>5, <2>1, <2>2 DEF Range
<1>8. ASSUME NEW i \in 1 .. Len(s) PROVE s[i] \in Range(Tail(s)) \cup {Head(s)}
  <2>1. CASE i = 1
    BY <1>4, <2>1
  <2>2. CASE i # 1
    <3>1. i - 1 \in 1 .. Len(s) - 1 /\ (i - 1) + 1 = i
      BY <1>6, <2>2
    <3>2. Tail(s)[i - 1] = s[i]
      BY <1>1, <3>1
    <3>3. Tail(s)[i - 1] \in Range(Tail(s))
      BY <1>3, <3>1 DEF Range
    <3> QED
      BY <3>2, <3>3
  <2> QED
    BY <2>1, <2>2
<1> QED
  BY <1>1, <1>2, <1>3, <1>4, <1>7, <1>8 DEF Range

\* What is in a mailbox is a message.
LEMMA SentType ==
    ASSUME MailType, NEW p \in Pid, NEW n \in LockNode
    PROVE  \A m \in Sent(p, n) : m \in Message /\ m.tid \in Tid
<1>1. mail[p][n] \in Seq(Message)
  BY DEF MailType
<1>2. DOMAIN mail[p][n] = 1 .. Len(mail[p][n])
         /\ \A i \in 1 .. Len(mail[p][n]) : mail[p][n][i] \in Message
  BY <1>1, LenProperties, ElementOfSeq
<1> QED
  BY <1>2 DEF Sent, Range, Message

\* p sends a message of this kind to each node of ns.
Posted(p, ns, kind) ==
    /\ mail' = [q \in Pid |-> [n \in LockNode |-> mail'[q][n]]]
    /\ \A q \in Pid, n \in LockNode :
          IF q = p /\ n \in ns
            THEN \E m \in Message : /\ m.tid = client[p].tid /\ m.kind = kind
                                    /\ mail'[p][n] = Append(mail[p][n], m)
            ELSE mail'[q][n] = mail[q][n]

\* The lock manager at n takes the first message of p.
Taken(p, n) ==
    /\ mail[p][n] # <<>>
    /\ mail' = [mail EXCEPT ![p][n] = Tail(@)]

\* What is in the mailboxes after a process has sent.
LEMMA PostedEffect ==
    ASSUME MailType, NEW p \in Pid, NEW ns, NEW kind, Posted(p, ns, kind)
    PROVE  /\ MailType'
           /\ \A q \in Pid, n \in LockNode : Sent(q, n) \subseteq Sent(q, n)'
           /\ \A q \in Pid, n \in LockNode : \A m \in Sent(q, n)' :
                 m \in Sent(q, n) \/ /\ q = p /\ n \in ns
                                     /\ m.tid = client[p].tid /\ m.kind = kind
           /\ \A n \in LockNode : n \in ns =>
                 \E m \in Sent(p, n)' : m.tid = client[p].tid /\ m.kind = kind
<1>1. ASSUME NEW q \in Pid, NEW n \in LockNode
      PROVE  /\ mail'[q][n] \in Seq(Message)
             /\ Sent(q, n) \subseteq Sent(q, n)'
             /\ \A m \in Sent(q, n)' :
                  m \in Sent(q, n) \/ /\ q = p /\ n \in ns
                                      /\ m.tid = client[p].tid /\ m.kind = kind
             /\ q = p /\ n \in ns =>
                  \E m \in Sent(p, n)' : m.tid = client[p].tid /\ m.kind = kind
  <2>1. CASE q = p /\ n \in ns
    <3>1. PICK m \in Message : /\ m.tid = client[p].tid /\ m.kind = kind
                               /\ mail'[p][n] = Append(mail[p][n], m)
      BY <2>1 DEF Posted
    <3>2. mail[p][n] \in Seq(Message)
      BY DEF MailType
    <3>3. /\ mail'[p][n] \in Seq(Message)
          /\ Range(mail'[p][n]) = Range(mail[p][n]) \cup {m}
      BY <3>1, <3>2, AppendRange
    <3> QED
      BY <2>1, <3>1, <3>3 DEF Sent
  <2>2. CASE ~(q = p /\ n \in ns)
    BY <2>2 DEF Posted, MailType, Sent
  <2> QED
    BY <2>1, <2>2
<1>2. MailType'
  BY <1>1 DEF Posted, MailType
<1> QED
  BY <1>1, <1>2

\* Messages on behalf of the last transaction, one request at a time, keep
\* the order of the mailboxes.
LEMMA PostedOrder ==
    ASSUME client \in [Pid -> Client], MailType, MailOrder, NEW p \in Pid, MailAges(p), NEW ns, NEW kind, Posted(p, ns, kind),
           kind \in Request =>
              \A n \in LockNode : n \in ns => ~Mailed(p, n, client[p].tid, Request)
    PROVE  MailOrder'
<1> SUFFICES ASSUME NEW q \in Pid, NEW n \in LockNode,
                    NEW i \in DOMAIN mail'[q][n], NEW j \in DOMAIN mail'[q][n], i < j
             PROVE  LET a == mail'[q][n][i]
                        b == mail'[q][n][j]
                    IN  /\ a.tid <= b.tid
                        /\ a.kind \in Request /\ b.kind \in Request => a.tid # b.tid
  BY DEF MailOrder
<1>1. mail[q][n] \in Seq(Message)
  BY DEF MailType
<1>2. CASE ~(q = p /\ n \in ns)
  BY <1>2, SMTT(60) DEF Posted, MailOrder
<1>3. CASE q = p /\ n \in ns
  <2> DEFINE s == mail[q][n]
  <2>1. PICK m \in Message : /\ m.tid = client[p].tid /\ m.kind = kind
                             /\ mail'[q][n] = Append(s, m)
    BY <1>3 DEF Posted
  <2>2. /\ DOMAIN s = 1 .. Len(s) /\ Len(s) \in Nat
        /\ DOMAIN Append(s, m) = 1 .. Len(s) + 1
        /\ \A k \in 1 .. Len(s) : Append(s, m)[k] = s[k]
        /\ Append(s, m)[Len(s) + 1] = m
    BY <1>1, AppendRange
  <2>3. i \in 1 .. Len(s) /\ (j \in 1 .. Len(s) \/ j = Len(s) + 1)
    BY <2>1, <2>2, SMTT(60)
  <2>4. mail'[q][n][i] = s[i] /\ s[i] \in Sent(p, n)
    BY <1>3, <2>1, <2>2, <2>3 DEF Sent, Range
  <2>5. CASE j \in 1 .. Len(s)
    <3>1. mail'[q][n][j] = s[j]
      BY <2>1, <2>2, <2>5
    <3> QED
      BY <2>2, <2>3, <2>4, <2>5, <3>1 DEF MailOrder
  <2>6. CASE j = Len(s) + 1
    <3>1. mail'[q][n][j] = m
      BY <2>1, <2>2, <2>6
    <3>2. s[i].tid <= client[p].tid
      BY <2>4 DEF MailAges
    <3>3. kind \in Request /\ s[i].kind \in Request => s[i].tid # client[p].tid
      BY <1>3, <2>4 DEF Mailed
    <3> QED
      BY <2>1, <2>4, <3>1, <3>2, <3>3
  <2> QED
    BY <2>3, <2>5, <2>6
<1> QED
  BY <1>2, <1>3

\* What is in the mailboxes after a lock manager has taken a message.
LEMMA TakenEffect ==
    ASSUME MailType, MailOrder, NEW p \in Pid, NEW n \in LockNode, Taken(p, n)
    PROVE  LET m == Head(mail[p][n])
           IN  /\ m \in Message /\ m \in Sent(p, n)
               /\ MailType' /\ MailOrder'
               /\ \A q \in Pid, k \in LockNode : Sent(q, k)' \subseteq Sent(q, k)
               /\ \A q \in Pid, k \in LockNode : \A a \in Sent(q, k) :
                     a \in Sent(q, k)' \/ (q = p /\ k = n /\ a = m)
               /\ \A a \in Sent(p, n)' :
                     m.tid <= a.tid /\ (m.kind \in Request /\ a.kind \in Request => a.tid # m.tid)
<1> DEFINE s == mail[p][n]
           m == Head(s)
<1>1. s \in Seq(Message) /\ s # <<>>
  BY DEF MailType, Taken
<1>2. /\ Tail(s) \in Seq(Message) /\ m \in Message /\ m = s[1]
      /\ DOMAIN s = 1 .. Len(s) /\ Len(s) \in Nat \ {0}
      /\ DOMAIN Tail(s) = 1 .. Len(s) - 1
      /\ \A i \in 1 .. Len(s) - 1 : Tail(s)[i] = s[i + 1]
      /\ Range(Tail(s)) \subseteq Range(s)
      /\ m \in Range(s)
      /\ Range(s) \subseteq Range(Tail(s)) \cup {m}
  BY <1>1, TailRange
<1>3. \A q \in Pid, k \in LockNode :
         mail'[q][k] = IF q = p /\ k = n THEN Tail(s) ELSE mail[q][k]
  BY DEF MailType, Taken
<1>4. MailType'
  BY <1>2 DEF MailType, Taken
<1> HIDE DEF s, m
<1>5. \A q \in Pid, k \in LockNode : Sent(q, k)' \subseteq Sent(q, k)
  BY <1>2, <1>3 DEF Sent, s
<1>6. \A q \in Pid, k \in LockNode : \A a \in Sent(q, k) :
         a \in Sent(q, k)' \/ (q = p /\ k = n /\ a = m)
  BY <1>2, <1>3 DEF Sent, s
<1>7. \A i \in 1 .. Len(s) - 1 : 1 < i + 1 /\ 1 \in 1 .. Len(s) /\ i + 1 \in 1 .. Len(s)
  BY <1>2
<1>8. \A i \in 1 .. Len(s) - 1 :
         /\ m.tid <= Tail(s)[i].tid
         /\ m.kind \in Request /\ Tail(s)[i].kind \in Request => Tail(s)[i].tid # m.tid
  <2>1. \A i, j \in DOMAIN s : i < j =>
           /\ s[i].tid <= s[j].tid
           /\ s[i].kind \in Request /\ s[j].kind \in Request => s[i].tid # s[j].tid
    BY DEF MailOrder, s
  <2> QED
    BY <1>2, <1>7, <2>1
<1>9. \A a \in Sent(p, n)' :
         m.tid <= a.tid /\ (m.kind \in Request /\ a.kind \in Request => a.tid # m.tid)
  <2>1. mail'[p][n] = Tail(s)
    BY <1>3
  <2> QED
    BY <1>2, <1>8, <2>1 DEF Sent, Range
<1>10. MailOrder'
  <2> SUFFICES ASSUME NEW q \in Pid, NEW k \in LockNode,
                      NEW i \in DOMAIN mail'[q][k], NEW j \in DOMAIN mail'[q][k], i < j
               PROVE  LET a == mail'[q][k][i]
                          b == mail'[q][k][j]
                      IN  /\ a.tid <= b.tid
                          /\ a.kind \in Request /\ b.kind \in Request => a.tid # b.tid
    BY DEF MailOrder
  <2>1. CASE ~(q = p /\ k = n)
    BY <1>3, <2>1 DEF MailOrder
  <2>2. CASE q = p /\ k = n
    <3>1. mail'[q][k] = Tail(s)
      BY <1>3, <2>2
    <3>2. /\ i + 1 \in DOMAIN s /\ j + 1 \in DOMAIN s /\ i + 1 < j + 1
          /\ Tail(s)[i] = s[i + 1] /\ Tail(s)[j] = s[j + 1]
      BY <1>2, <3>1
    <3> QED
      BY <3>1, <3>2 DEF MailOrder, s
  <2> QED
    BY <2>1, <2>2
<1> QED
  BY <1>2, <1>4, <1>5, <1>6, <1>9, <1>10 DEF Sent, s, m

-----------------------------------------------------------------------------
(* The lock managers behave as MnesiaLocker says.                          *)

\* A message that is taken is one the module MnesiaLocker allows for.
LEMMA DeliverRefined ==
    ASSUME TxInv, NEW p \in Pid, NEW n \in LockNode, Deliver(p, n)
    PROVE  Next
<1> DEFINE m == Head(mail[p][n])
<1>1. Taken(p, n)
  BY DEF Deliver, Taken
<1>2. m \in Message /\ m \in Sent(p, n)
  BY <1>1, TakenEffect DEF TxInv, ProcessInv
<1>3. /\ m.tid \in Tid /\ m.op \in Op /\ m.oid \in Oid /\ m.oid.tab \in Tab
      /\ Own(p) \in Node
  BY <1>2, ReplicaType, MnesiaAssumption DEF Message, Oid
<1>4. Ages(p) /\ Requests(p)
  BY DEF TxInv, ProcessInv
<1>5. PidOf[m.tid] = p
  BY <1>2, <1>4 DEF Ages, MailAges
<1>6. ASSUME m.kind \in Request PROVE Idle(n, m.tid)
  <2>1. ~Waits(n, m.tid) /\ ~Frees(n, m.tid)
    BY <1>2, <1>4, <1>6 DEF Requests, OnlyRequest
  <2>2. \A l \in tidLocks[n] : l.tid \in Tid
    BY DEF TxInv, LockInv, TypeOK, TidLock
  <2>3. \A l \in tidLocks[n] : PidOf[l.tid] = p => l.tid <= m.tid
    BY <1>2, <1>4, <2>2 DEF Ages, KnownAges, Registered
  <2> QED
    BY <1>5, <2>1, <2>3 DEF Idle, Waits, Frees
<1> HIDE DEF m
<1>7. CASE m.kind = "lock" /\ RequestLock(n, m.tid, m.op, m.oid)
  BY <1>3, <1>6, <1>7 DEF Next, AskLock, Request, LockRequest
<1>8. CASE m.kind = "test_set_sticky" /\ TestSetSticky(n, m.tid, m.op, m.oid)
  <2>1. NodeOf[PidOf[m.tid]] = n
    BY <1>2, <1>4, <1>5, <1>8 DEF Requests, StickyAlone, Own
  <2> QED
    BY <1>3, <1>6, <1>8, <2>1 DEF Next, AskSticky, Request, LockRequest
<1>9. CASE Stick(n, m.oid.tab, NodeOf[p]) \/ Unstick(n, m.oid.tab)
  BY <1>3, <1>9 DEF Next, MoveSticky, Own
<1>10. CASE ReleaseTid(n, m.tid)
  BY <1>3, <1>10 DEF Next, End
<1>11. CASE m.kind = "sync_release_tid" /\ SyncReleaseTid(n, m.tid)
  BY <1>3, <1>6, <1>11 DEF Next, Restart, Request
<1> QED
  BY <1>7, <1>8, <1>9, <1>10, <1>11 DEF Deliver, m

\* To take an answer is the step Receive of MnesiaLocker.
LEMMA TakeRefined ==
    ASSUME TypeOK, NEW p, NEW n \in LockNode, NEW r \in replies[n], Take(p, n, r)
    PROVE  Next
BY DEF Take, Next, Receive

\* Every step of the processes and the lock managers is one that MnesiaLocker
\* allows its environment or its lock managers, or is none of its business.
THEOREM StepRefined == TxInv /\ [TxNext]_txVars => [Next]_vars
<1> SUFFICES ASSUME TxInv, [TxNext]_txVars PROVE [Next]_vars
  OBVIOUS
<1>1. TypeOK
  BY DEF TxInv, LockInv
<1>2. CASE UNCHANGED txVars
  BY <1>2 DEF txVars
<1>3. ASSUME NEW p \in Pid,
             \/ Begin(p) \/ Call(p) \/ Continue(p) \/ AskNext(p)
             \/ RestartTransaction(p) \/ Abort(p) \/ Commit(p) \/ Kill(p)
      PROVE  UNCHANGED vars
  BY <1>3 DEF Begin, Call, Continue, AskNext, RestartTransaction, Abort, Commit, Kill,
              KilledWaiting, KilledSending, KilledRestarting, Exit
<1>4. ASSUME NEW p \in Pid, GetAnswer(p) \/ GetAck(p) \/ Discard(p) PROVE Next
  <2>1. \E n \in LockNode : \E r \in replies[n] : Take(p, n, r)
    <3>1. client[p].await \subseteq LockNode
      BY DEF TxInv, ProcessInv, Client
    <3> QED
      BY <1>4, <3>1 DEF GetAnswer, GetAck, Discard
  <2> QED
    BY <1>1, <2>1, TakeRefined
<1>5. ASSUME NEW n \in LockNode, ReleaseEnded(n) PROVE Next
  <2>1. PICK t \in ended[n] : ReleaseTid(n, t)
    BY <1>5 DEF ReleaseEnded
  <2>2. t \in Tid
    BY DEF TxInv, ProcessInv
  <2> QED
    BY <2>1, <2>2 DEF Next, End
<1>6. ASSUME NEW n \in LockNode, LockerStep(n) PROVE Next
  BY <1>6 DEF LockerStep, Next
<1> QED
  BY <1>2, <1>3, <1>4, <1>5, <1>6, DeliverRefined DEF TxNext, ProcessStep

-----------------------------------------------------------------------------
(* What concerns one process leaves the others alone.                      *)

\* What a process knows stays true when messages of its own are taken and
\* answers come, as long as nothing of what it is owed appears or disappears.
LEMMA OwedFrame ==
    ASSUME client \in [Pid -> Client], MailType,
           NEW q \in Pid, Ages(q), Requests(q), client'[q] = client[q],
           \A n \in LockNode : Sent(q, n)' \subseteq Sent(q, n),
           \A n \in LockNode : \A u \in Tid : PidOf[u] = q =>
              /\ Registered(n, u)' \/ Waits(n, u)' \/ Frees(n, u)' \/ u \in ended'[n] =>
                    \/ Registered(n, u) \/ Waits(n, u) \/ Frees(n, u) \/ u \in ended[n]
                    \/ \E m \in Sent(q, n) : m.tid = u
              /\ Registered(n, u)' =>
                    Registered(n, u) \/ \A a \in Sent(q, n)' : u <= a.tid
              /\ Waits(n, u)' \/ Frees(n, u)' =>
                    \/ Waits(n, u) \/ Frees(n, u)
                    \/ \A a \in Sent(q, n)' : a.kind \in Request => a.tid # u,
           \A n \in LockNode : \A u \in Tid : InProgress(q) /\ u = client[q].tid =>
              /\ Mailed(q, n, u, LockRequest)' \/ Waits(n, u)'
                    <=> Mailed(q, n, u, LockRequest) \/ Waits(n, u)
              /\ Mailed(q, n, u, {"sync_release_tid"})' \/ Frees(n, u)'
                    <=> Mailed(q, n, u, {"sync_release_tid"}) \/ Frees(n, u)
              /\ u \in ended'[n] => u \in ended[n],
           \A n \in LockNode : \A r \in replies'[n] \ replies[n] :
              PidOf[r.tid] = q /\ r.tag \in {"not_stuck", "stuck_elsewhere"} =>
                 Mailed(q, n, r.tid, {"test_set_sticky"})
    PROVE  Ages(q)' /\ Requests(q)'
<1>1. \A n \in LockNode : \A m \in Sent(q, n) : m.tid \in Tid /\ PidOf[m.tid] = q
  BY SentType DEF Ages, MailAges
<1>2. InProgress(q) => client[q].tid \in Tid /\ PidOf[client[q].tid] = q
  BY DEF Ages, OwnTid, InProgress
<1>4. InProgress(q)' <=> InProgress(q)
  BY DEF InProgress
<1>5. OwnTid(q)' /\ MailAges(q)'
  BY DEF Ages, OwnTid, MailAges
<1>6. KnownAges(q)'
  BY DEF Ages, KnownAges, MailAges
<1>7. OnlyRequest(q)'
  BY <1>1 DEF Requests, OnlyRequest
<1>8. Awaits(q)'
  <2>1. InProgress(q) => \A n \in LockNode : \A u \in Tid : u = client[q].tid =>
           /\ n \in client[q].await /\ client[q].pc = "wait"
                 <=> Mailed(q, n, u, LockRequest)' \/ Waits(n, u)'
           /\ n \in client[q].await /\ client[q].pc = "acks"
                 <=> Mailed(q, n, u, {"sync_release_tid"})' \/ Frees(n, u)'
    BY DEF Requests, Awaits
  <2> QED
    BY <1>2, <1>4, <2>1 DEF Requests, Awaits
<1>9. NotReleased(q)'
  BY <1>2, <1>4 DEF Requests, NotReleased, Mailed
<1>10. StickyAlone(q)'
  <2>1. client[q].pc = "wait" => client[q].tid \in Tid /\ PidOf[client[q].tid] = q
    BY <1>2 DEF InProgress
  <2>2. \A n \in LockNode :
           Mailed(q, n, client[q].tid, {"test_set_sticky"})' =>
              Mailed(q, n, client[q].tid, {"test_set_sticky"})
    BY DEF Mailed
  <2> QED
    BY <2>1, <2>2 DEF Requests, StickyAlone
<1> QED
  BY <1>5, <1>6, <1>7, <1>8, <1>9, <1>10 DEF Ages, Requests

\* A step that changes nothing owed to a process leaves its bookkeeping true.
LEMMA Frame ==
    ASSUME client \in [Pid -> Client], MailType,
           NEW q \in Pid, Ages(q), Requests(q), client'[q] = client[q],
           \A n \in LockNode : Sent(q, n)' = Sent(q, n),
           \A n \in LockNode : \A u \in Tid : PidOf[u] = q =>
              /\ Waits(n, u)' <=> Waits(n, u)
              /\ Frees(n, u)' <=> Frees(n, u)
              /\ Registered(n, u)' => Registered(n, u)
              /\ u \in ended'[n] => u \in ended[n],
           \A n \in LockNode : \A r \in replies'[n] \ replies[n] :
              PidOf[r.tid] = q => r.tag \notin {"not_stuck", "stuck_elsewhere"}
    PROVE  Ages(q)' /\ Requests(q)'
<1>1. \A n \in LockNode : \A u, kinds : Mailed(q, n, u, kinds)' <=> Mailed(q, n, u, kinds)
  BY DEF Mailed
<1>2. \A u \in Tid : InProgress(q) /\ u = client[q].tid => PidOf[u] = q
  BY DEF Ages, OwnTid, InProgress
<1> QED
  BY <1>1, <1>2, OwedFrame

\* A process that awaits nothing is owed nothing.
LEMMA Quiet ==
    ASSUME NEW p \in Pid, Awaits(p), InProgress(p), client[p].await = {}, NEW n \in LockNode
    PROVE  LET t == client[p].tid
           IN  ~Mailed(p, n, t, Request) /\ ~Waits(n, t) /\ ~Frees(n, t)
BY DEF Awaits, Mailed, Request

\* Only the record of the process that moves changes.
LEMMA UpdateEffect ==
    ASSUME client \in [Pid -> Client], NEW p \in Pid, NEW c \in Client, Update(p, c)
    PROVE  /\ client' \in [Pid -> Client]
           /\ client'[p] = c
           /\ \A q \in Pid : q # p => client'[q] = client[q]
BY DEF Update

\* A step of one process is no concern of the others.
LEMMA ProcessFrame ==
    ASSUME ProcessInv, NEW p \in Pid, UNCHANGED vars,
           client' \in [Pid -> Client], MailType', MailOrder',
           \A q \in Pid : q # p => client'[q] = client[q],
           \A q \in Pid, n \in LockNode : q # p => Sent(q, n)' = Sent(q, n),
           ended' \in [LockNode -> SUBSET Tid],
           \A n \in LockNode : \A t \in ended'[n] : t \in ended[n] \/ PidOf[t] = p,
           Ages(p)', Requests(p)'
    PROVE  ProcessInv'
<1>1. ASSUME NEW q \in Pid, q # p PROVE Ages(q)' /\ Requests(q)'
  <2>1. /\ \A n \in LockNode : \A u \in Tid : PidOf[u] = q =>
              /\ Waits(n, u)' <=> Waits(n, u)
              /\ Frees(n, u)' <=> Frees(n, u)
              /\ Registered(n, u)' => Registered(n, u)
              /\ u \in ended'[n] => u \in ended[n]
        /\ \A n \in LockNode : replies'[n] \ replies[n] = {}
    BY <1>1 DEF vars, Waits, Frees, Registered
  <2>2. Ages(q) /\ Requests(q) /\ client \in [Pid -> Client] /\ MailType
    BY DEF ProcessInv
  <2> QED
    BY <1>1, <2>1, <2>2, Frame
<1>2. NoneDown'
  BY DEF ProcessInv, NoneDown, vars
<1> QED
  BY <1>1, <1>2 DEF ProcessInv

\* A new transaction is younger than all that its process has sent before.
LEMMA BeginKeeps ==
    ASSUME ProcessInv, NEW p \in Pid, Begin(p)
    PROVE  ProcessInv'
<1>1. PICK t \in Tid : /\ PidOf[t] = p /\ t > client[p].tid
                       /\ Update(p, Running(p, t))
  BY DEF Begin
<1>2. UNCHANGED <<vars, mail, ended>>
  BY DEF Begin
<1>3. Running(p, t) \in Client
  BY RunningType
<1>4. client[p] \in Client /\ Ages(p) /\ Requests(p) /\ MailType
  BY DEF ProcessInv
<1>5. /\ client' \in [Pid -> Client] /\ client'[p] = Running(p, t)
      /\ \A q \in Pid : q # p => client'[q] = client[q]
  BY <1>1, <1>3, UpdateEffect DEF ProcessInv
<1>6. /\ client'[p].tid = t /\ client'[p].pc = "run" /\ client'[p].await = {}
      /\ client[p].tid \in Nat /\ t \in Nat
  BY <1>4, <1>5, TidAssumption DEF Running, Resting, Client
<1>7. \A n \in LockNode : \A u :
         /\ Waits(n, u)' <=> Waits(n, u)
         /\ Frees(n, u)' <=> Frees(n, u)
         /\ Registered(n, u)' <=> Registered(n, u)
         /\ u \in ended'[n] <=> u \in ended[n]
  BY <1>2 DEF vars, Waits, Frees, Registered
<1>8. \A q \in Pid, n \in LockNode : Sent(q, n)' = Sent(q, n)
  BY <1>2 DEF Sent
<1>9. \A n \in LockNode : \A m \in Sent(p, n) :
         m.tid \in Nat /\ m.tid <= client[p].tid /\ m.tid # t
  <2>1. \A n \in LockNode : \A m \in Sent(p, n) : m.tid \in Nat
    BY <1>4, SentType, TidAssumption
  <2>2. \A n \in LockNode : \A m \in Sent(p, n) : m.tid <= client[p].tid
    BY <1>4 DEF Ages, MailAges
  <2>3. \A u \in Nat : u <= client[p].tid => u # t
    BY <1>1, <1>6
  <2> QED
    BY <2>1, <2>2, <2>3
<1>10. \A n \in LockNode : ~Waits(n, t) /\ ~Frees(n, t) /\ t \notin ended[n]
  BY <1>1, <1>4, <1>6 DEF Ages, KnownAges
<1>11. Ages(p)'
  <2>1. OwnTid(p)'
    BY <1>1, <1>6 DEF OwnTid
  <2>2. MailAges(p)'
    BY <1>1, <1>4, <1>6, <1>8, <1>9 DEF Ages, MailAges
  <2>3. KnownAges(p)'
    <3>1. ASSUME NEW n \in LockNode, NEW u \in Tid, u <= client[p].tid
          PROVE  u <= client'[p].tid
      BY <1>1, <1>6, <3>1, TidAssumption
    <3> QED
      BY <1>4, <1>7, <1>8, <3>1 DEF Ages, KnownAges
  <2> QED
    BY <2>1, <2>2, <2>3 DEF Ages
<1>12. Requests(p)'
  <2>1. OnlyRequest(p)'
    BY <1>4, <1>7, <1>8 DEF Requests, OnlyRequest
  <2>2. \A n \in LockNode : \A kinds : ~Mailed(p, n, t, kinds)'
    BY <1>8, <1>9 DEF Mailed
  <2>3. Awaits(p)'
    BY <1>6, <1>7, <1>10, <2>2 DEF Awaits
  <2>4. NotReleased(p)'
    BY <1>6, <1>7, <1>10, <2>2 DEF NotReleased
  <2>5. StickyAlone(p)'
    BY <1>4, <1>6, <1>8 DEF Requests, StickyAlone
  <2> QED
    BY <2>1, <2>3, <2>4, <2>5 DEF Requests
<1>13. MailType' /\ MailOrder' /\ ended' \in [LockNode -> SUBSET Tid]
  BY <1>2 DEF ProcessInv, MailType, MailOrder
<1> QED
  BY <1>2, <1>5, <1>7, <1>8, <1>11, <1>12, <1>13, ProcessFrame

\* A process that computes, sends nothing and awaits nothing.
LEMMA ComputeKeeps ==
    ASSUME ProcessInv, NEW p \in Pid, client[p].pc = "run",
           UNCHANGED <<vars, mail, ended>>,
           NEW c \in Client, Update(p, c),
           c.tid = client[p].tid, c.await = {}, c.pc \in {"run", "wait"},
           c.pc = "wait" =>
              /\ c.step \in Step
              /\ c.step.call \in Sticky => \A ns \in Range(c.todo) : ns = {Own(p)}
    PROVE  ProcessInv'
<1>1. Ages(p) /\ Requests(p) /\ MailType /\ client \in [Pid -> Client]
  BY DEF ProcessInv
<1>2. /\ client' \in [Pid -> Client] /\ client'[p] = c
      /\ \A q \in Pid : q # p => client'[q] = client[q]
  BY <1>1, UpdateEffect
<1>3. InProgress(p) /\ client[p].await = {}
  BY <1>1 DEF InProgress, Requests, Awaits
<1>4. \A n \in LockNode : \A u :
         /\ Waits(n, u)' <=> Waits(n, u)
         /\ Frees(n, u)' <=> Frees(n, u)
         /\ Registered(n, u)' <=> Registered(n, u)
         /\ u \in ended'[n] <=> u \in ended[n]
  BY DEF vars, Waits, Frees, Registered
<1>5. \A q \in Pid, n \in LockNode : Sent(q, n)' = Sent(q, n)
  BY DEF Sent
<1>6. \A n \in LockNode : \A t, kinds : Mailed(p, n, t, kinds)' <=> Mailed(p, n, t, kinds)
  BY <1>5 DEF Mailed
<1>7. \A n \in LockNode : LET t == client[p].tid
         IN  ~Mailed(p, n, t, Request) /\ ~Waits(n, t) /\ ~Frees(n, t)
  BY <1>1, <1>3, Quiet DEF Requests
<1>8. Ages(p)'
  <2>1. OwnTid(p)'
    BY <1>1, <1>2 DEF Ages, OwnTid
  <2>2. MailAges(p)' /\ KnownAges(p)'
    BY <1>1, <1>2, <1>4, <1>5 DEF Ages, MailAges, KnownAges
  <2> QED
    BY <2>1, <2>2 DEF Ages
<1>9. Requests(p)'
  <2>1. OnlyRequest(p)'
    BY <1>1, <1>4, <1>5 DEF Requests, OnlyRequest
  <2>2. \A n \in LockNode : LET t == client[p].tid
           IN  /\ ~Mailed(p, n, t, LockRequest)' /\ ~Mailed(p, n, t, {"sync_release_tid"})'
               /\ ~Mailed(p, n, t, {"test_set_sticky"})'
    BY <1>2, <1>5, <1>7 DEF Mailed, Request, LockRequest
  <2>3. Awaits(p)'
    BY <1>2, <1>4, <1>7, <2>2 DEF Awaits
  <2>4. NotReleased(p)'
    BY <1>1, <1>2, <1>3, <1>4, <1>6 DEF Requests, NotReleased
  <2>5. StickyAlone(p)'
    <3>1. \A n \in LockNode : \A r \in replies'[n] : r.tid # client[p].tid
      BY <1>7 DEF Waits, Frees, vars
    <3> QED
      BY <1>1, <1>2, <1>5, <2>2, <3>1 DEF Requests, StickyAlone
  <2> QED
    BY <2>1, <2>3, <2>4, <2>5 DEF Requests
<1>10. MailType' /\ MailOrder' /\ ended' \in [LockNode -> SUBSET Tid]
  BY DEF ProcessInv, MailType, MailOrder
<1> QED
  BY <1>2, <1>4, <1>5, <1>8, <1>9, <1>10, ProcessFrame

\* The record of a process that starts to ask for a lock.
Started(p, s, c, d) ==
    /\ d.pc = "wait" /\ d.step = s
    /\ d.todo = Stages(p, s) /\ d.tid = c.tid /\ d.await = c.await
    /\ d.nodes = c.nodes /\ d.skip = c.skip /\ d.why = c.why /\ d.later = c.later
    /\ d.locks = IF s.call # "wlock" THEN c.locks
                 ELSE c.locks \cup {[oid |-> s.oid, op |-> "write"]}

\* A process that starts a call gets the record of one that waits.
LEMMA StartType ==
    ASSUME NEW p \in Pid, NEW c \in Client, NEW s \in Step, s.call \notin Cast,
           Start(p, s, c)
    PROVE  \E d \in Client : Update(p, d) /\ Started(p, s, c, d)
<1> DEFINE locks == IF s.call # "wlock" THEN c.locks
                    ELSE c.locks \cup {[oid |-> s.oid, op |-> "write"]}
           d == [c EXCEPT !.pc = "wait", !.step = s, !.todo = Stages(p, s),
                          !.got = FALSE, !.locks = locks]
<1>1. Update(p, d)
  BY DEF Start
<1>2. Stages(p, s) \in Seq(SUBSET LockNode)
  BY StagesProperties
<1>3. locks \in SUBSET [oid : Oid, op : LockKind]
  BY DEF Client, LockKind, Step
<1> HIDE DEF locks
<1>4. d \in Client
  BY <1>2, <1>3 DEF Client
<1>5. /\ d.pc = "wait" /\ d.step = s /\ d.todo = Stages(p, s) /\ d.tid = c.tid
      /\ d.await = c.await /\ d.nodes = c.nodes /\ d.skip = c.skip /\ d.why = c.why
      /\ d.later = c.later /\ d.locks = locks
  BY DEF Client
<1> HIDE DEF d
<1> QED
  BY <1>1, <1>4, <1>5 DEF locks, Started

\* A sticky call asks its own lock manager only.
LEMMA StickyStages ==
    ASSUME NEW p \in Pid, NEW s \in Step, s.call \in Sticky
    PROVE  \A ns \in Range(Stages(p, s)) : ns = {Own(p)}
<1>1. Stages(p, s) = <<{Own(p)}>>
  BY StagesProperties
<1> QED
  BY <1>1 DEF Range

\* The function makes a call.
LEMMA CallKeeps ==
    ASSUME ProcessInv, NEW p \in Pid, Call(p)
    PROVE  ProcessInv'
<1>1. client[p] \in Client /\ client[p].await = {} /\ client[p].pc = "run"
  BY DEF ProcessInv, Requests, Awaits, Call
<1>2. client[p].calls + 1 \in 0 .. MaxCalls
  BY <1>1, MaxCallsAssumption DEF Call, Client
<1>3. [client[p] EXCEPT !.calls = @ + 1] \in Client
  BY <1>1, <1>2 DEF Client
<1>4. PICK c \in Client : c = [client[p] EXCEPT !.calls = @ + 1]
  BY <1>3
<1>5. c.tid = client[p].tid /\ c.await = {}
  BY <1>1, <1>4 DEF Client
<1>6. PICK s \in Calls : Start(p, s, c)
  <2>1. \E s \in Calls : Start(p, s, [client[p] EXCEPT !.calls = @ + 1])
    BY DEF Call
  <2> QED
    BY <1>4, <2>1 DEF Start, Update
<1>7. s \in Step /\ s.call \notin Cast
  BY CallsAssumption DEF Step, LockCall, Cast
<1>8. PICK d \in Client : Update(p, d) /\ Started(p, s, c, d)
  BY <1>6, <1>7, StartType
<1> QED
  BY <1>1, <1>5, <1>7, <1>8, StickyStages, ComputeKeeps DEF Call, Started

\* A process that sends stays in the mailboxes of its own nodes.
LEMMA PostedAges ==
    ASSUME ProcessInv, NEW p \in Pid, InProgress(p), UNCHANGED vars,
           NEW ns, NEW kind, Posted(p, ns, kind),
           client'[p].tid = client[p].tid,
           \A n \in LockNode : \A t \in ended'[n] : t \in ended[n] \/ t = client[p].tid
    PROVE  Ages(p)'
<1>1. Ages(p) /\ MailType /\ client[p] \in Client
  BY DEF ProcessInv
<1>2. client[p].tid \in Tid /\ PidOf[client[p].tid] = p /\ client[p].tid \in Nat
  BY <1>1, TidAssumption DEF Ages, OwnTid, InProgress
<1>3. \A n \in LockNode : \A m \in Sent(p, n)' : m \in Sent(p, n) \/ m.tid = client[p].tid
  BY <1>1, PostedEffect
<1>4. \A n \in LockNode : \A u :
         /\ Waits(n, u)' <=> Waits(n, u)
         /\ Frees(n, u)' <=> Frees(n, u)
         /\ Registered(n, u)' <=> Registered(n, u)
  BY DEF vars, Waits, Frees, Registered
<1>5. OwnTid(p)'
  BY <1>2 DEF OwnTid
<1>6. MailAges(p)'
  BY <1>1, <1>2, <1>3 DEF Ages, MailAges
<1>7. KnownAges(p)'
  BY <1>1, <1>2, <1>3, <1>4 DEF Ages, KnownAges
<1> QED
  BY <1>5, <1>6, <1>7 DEF Ages

\* A request is only sent when nothing is awaited.
LEMMA PostedOnly ==
    ASSUME ProcessInv, NEW p \in Pid, InProgress(p), UNCHANGED vars,
           NEW ns, NEW kind, Posted(p, ns, kind),
           kind \in Request => client[p].await = {}
    PROVE  OnlyRequest(p)' /\ MailOrder'
<1>1. Ages(p) /\ Requests(p) /\ MailType /\ MailOrder /\ client \in [Pid -> Client]
  BY DEF ProcessInv
<1>2. ASSUME kind \in Request, NEW n \in LockNode
      PROVE  LET t == client[p].tid
             IN  ~Mailed(p, n, t, Request) /\ ~Waits(n, t) /\ ~Frees(n, t)
  BY <1>1, <1>2, Quiet DEF Requests
<1>3. \A n \in LockNode : \A m \in Sent(p, n)' :
         m \in Sent(p, n) \/ (m.tid = client[p].tid /\ m.kind = kind)
  BY <1>1, PostedEffect
<1>4. \A n \in LockNode : \A u : (Waits(n, u)' <=> Waits(n, u)) /\ (Frees(n, u)' <=> Frees(n, u))
  BY DEF vars, Waits, Frees
<1>5. OnlyRequest(p)'
  BY <1>1, <1>2, <1>3, <1>4 DEF Requests, OnlyRequest
<1>6. MailOrder'
  BY <1>1, <1>2, PostedOrder DEF Ages
<1> QED
  BY <1>5, <1>6

\* A process that sends, with what is left to show of its own record.
LEMMA PostedFrame ==
    ASSUME ProcessInv, NEW p \in Pid, InProgress(p), UNCHANGED vars,
           NEW ns, NEW kind, Posted(p, ns, kind),
           NEW c \in Client, Update(p, c), c.tid = client[p].tid,
           kind \in Request => client[p].await = {},
           ended' \in [LockNode -> SUBSET Tid],
           \A n \in LockNode : \A t \in ended'[n] : t \in ended[n] \/ t = client[p].tid,
           Awaits(p)', NotReleased(p)', StickyAlone(p)'
    PROVE  ProcessInv'
<1>1. Ages(p) /\ MailType /\ client \in [Pid -> Client]
  BY DEF ProcessInv
<1>2. PidOf[client[p].tid] = p
  BY <1>1 DEF Ages, OwnTid, InProgress
<1>3. /\ client' \in [Pid -> Client] /\ client'[p] = c
      /\ \A q \in Pid : q # p => client'[q] = client[q]
  BY <1>1, UpdateEffect
<1>4. MailType' /\ \A q \in Pid, n \in LockNode : q # p => Sent(q, n)' = Sent(q, n)
  <2>1. MailType'
    BY <1>1, PostedEffect
  <2>2. \A q \in Pid, n \in LockNode : q # p => Sent(q, n)' = Sent(q, n)
    BY DEF Posted, Sent
  <2> QED
    BY <2>1, <2>2
<1>5. Ages(p)'
  BY <1>3, PostedAges
<1>6. OnlyRequest(p)' /\ MailOrder'
  BY PostedOnly
<1>7. Requests(p)'
  BY <1>6 DEF Requests
<1> QED
  BY <1>2, <1>3, <1>4, <1>5, <1>6, <1>7, ProcessFrame

\* A process that sends and goes on waits for those it has asked.
LEMMA SendKeeps ==
    ASSUME ProcessInv, NEW p \in Pid, InProgress(p), client[p].await = {},
           UNCHANGED <<vars, ended>>,
           NEW ns \in SUBSET LockNode, NEW kind, Posted(p, ns, kind),
           NEW c \in Client, Update(p, c), c.tid = client[p].tid,
           \/ c.pc = "run" /\ kind \in Cast /\ c.await = {}
           \/ c.pc = "acks" /\ kind = "sync_release_tid" /\ c.await = ns
           \/ /\ c.pc = "wait" /\ kind \in LockRequest /\ c.await = ns /\ c.step \in Step
              /\ kind = "test_set_sticky" <=> c.step.call \in Sticky
              /\ kind = "test_set_sticky" =>
                    ns \subseteq {Own(p)} /\ \A ms \in Range(c.todo) : ms = {Own(p)}
    PROVE  ProcessInv'
<1> USE DEF Request, LockRequest, Cast
<1>1. Ages(p) /\ Requests(p) /\ MailType /\ client \in [Pid -> Client]
  BY DEF ProcessInv
<1>2. client'[p] = c
  BY <1>1, UpdateEffect
<1>3. /\ \A n \in LockNode : Sent(p, n) \subseteq Sent(p, n)'
      /\ \A n \in LockNode : \A m \in Sent(p, n)' :
            m \in Sent(p, n) \/ (n \in ns /\ m.tid = client[p].tid /\ m.kind = kind)
      /\ \A n \in LockNode : n \in ns =>
            \E m \in Sent(p, n)' : m.tid = client[p].tid /\ m.kind = kind
  BY <1>1, PostedEffect
<1>4. \A n \in LockNode : LET t == client[p].tid
         IN  ~Mailed(p, n, t, Request) /\ ~Waits(n, t) /\ ~Frees(n, t)
  BY <1>1, Quiet DEF Requests
<1>5. \A n \in LockNode : \A u : (Waits(n, u)' <=> Waits(n, u)) /\ (Frees(n, u)' <=> Frees(n, u))
  BY DEF vars, Waits, Frees
<1>6. ASSUME NEW n \in LockNode, NEW kinds
      PROVE  Mailed(p, n, client[p].tid, kinds)' <=>
                Mailed(p, n, client[p].tid, kinds) \/ (n \in ns /\ kind \in kinds)
  BY <1>2, <1>3 DEF Mailed
<1>7. \A n \in LockNode : LET t == client[p].tid
         IN  ~Mailed(p, n, t, LockRequest) /\ ~Mailed(p, n, t, {"sync_release_tid"})
  BY <1>4 DEF Mailed
<1>8. Awaits(p)'
  BY <1>2, <1>4, <1>5, <1>6, <1>7 DEF Awaits
<1>9. NotReleased(p)'
  BY <1>1, <1>2, <1>6 DEF Requests, NotReleased
<1>10. StickyAlone(p)'
  <2>1. \A n \in LockNode : \A m \in Sent(p, n)' : m.kind = "test_set_sticky" => n = Own(p)
    BY <1>1, <1>3 DEF Requests, StickyAlone
  <2>2. \A n \in LockNode : \A r \in replies'[n] : r.tid # client[p].tid
    BY <1>4 DEF Waits, Frees, vars
  <2>3. ASSUME c.pc = "wait", c.step.call \notin Sticky, NEW n \in LockNode,
               NEW m \in Sent(p, n)', m.tid = client[p].tid
        PROVE  m.kind # "test_set_sticky"
    BY <1>3, <1>4, <2>3 DEF Mailed
  <2> QED
    BY <1>2, <2>1, <2>2, <2>3 DEF StickyAlone, Mailed
<1>11. ended' \in [LockNode -> SUBSET Tid]
  BY DEF ProcessInv
<1> QED
  BY <1>8, <1>9, <1>10, <1>11, PostedFrame

\* A process that leaves its transaction, or is killed, waits for nobody.
LEMMA LeaveKeeps ==
    ASSUME ProcessInv, NEW p \in Pid, InProgress(p), UNCHANGED vars,
           NEW ns \in SUBSET LockNode, NEW kind, Posted(p, ns, kind),
           NEW c \in Client, Update(p, c), c.tid = client[p].tid,
           c.pc \in {"idle", "dead"}, c.await = {},
           kind \in Request => client[p].await = {},
           kind = "test_set_sticky" => ns \subseteq {Own(p)},
           ended' \in [LockNode -> SUBSET Tid],
           \A n \in LockNode : \A t \in ended'[n] : t \in ended[n] \/ t = client[p].tid
    PROVE  ProcessInv'
<1>1. Requests(p) /\ MailType /\ client \in [Pid -> Client]
  BY DEF ProcessInv
<1>2. client'[p] = c
  BY <1>1, UpdateEffect
<1>3. Awaits(p)' /\ NotReleased(p)'
  BY <1>2 DEF Awaits, NotReleased, InProgress
<1>4. \A n \in LockNode : \A m \in Sent(p, n)' :
            m \in Sent(p, n) \/ (n \in ns /\ m.kind = kind)
  BY <1>1, PostedEffect
<1>5. StickyAlone(p)'
  BY <1>1, <1>2, <1>4 DEF Requests, StickyAlone
<1> QED
  BY <1>3, <1>5, PostedFrame

\* The messages of a process carry its transaction.
LEMMA SendPosted ==
    ASSUME MailType, NEW p \in Pid, NEW ns, NEW kind, NEW to \in [LockNode -> Message],
           \A n \in LockNode : to[n].tid = client[p].tid /\ to[n].kind = kind,
           mail' = [mail EXCEPT ![p] = [n \in LockNode |->
                        IF n \in ns THEN Append(@[n], to[n]) ELSE @[n]]]
    PROVE  Posted(p, ns, kind)
BY DEF Posted, MailType

SendBare(p, ns, kind) == Send(p, ns, LAMBDA n : Bare(p, kind))
SendCast(p, ns, s) == Send(p, ns, LAMBDA n : Msg(p, s.call, "write", s.oid))

\* The messages that release are posted for the transaction of the process.
LEMMA BarePosted ==
    ASSUME MailType, NEW p \in Pid, client[p].tid \in Tid, NEW ns,
           NEW kind \in {"release_tid", "sync_release_tid"},
           SendBare(p, ns, kind)
    PROVE  Posted(p, ns, kind)
<1>1. PICK o \in Oid : o = CHOOSE oid \in Oid : TRUE
  <2>1. PICK tab \in Tab : TRUE
    BY MnesiaAssumption
  <2>2. [tab |-> tab, key |-> ALL] \in Oid
    BY DEF Oid
  <2>3. \E oid \in Oid : TRUE
    BY <2>2
  <2> QED
    BY <2>3
<1>2. Bare(p, kind) \in Message /\ Bare(p, kind).tid = client[p].tid /\ Bare(p, kind).kind = kind
  <2>1. Bare(p, kind) = [kind |-> kind, tid |-> client[p].tid, op |-> "read", oid |-> o]
    BY <1>1 DEF Bare, Msg
  <2> QED
    BY <2>1 DEF Message, Op
<1> DEFINE to == [n \in LockNode |-> Bare(p, kind)]
<1>3. to \in [LockNode -> Message]
  BY <1>2
<1>4. mail' = [mail EXCEPT ![p] = [n \in LockNode |->
                  IF n \in ns THEN Append(@[n], to[n]) ELSE @[n]]]
  BY DEF SendBare, Send
<1>5. \A n \in LockNode : to[n].tid = client[p].tid /\ to[n].kind = kind
  BY <1>2
<1> HIDE DEF to
<1> QED
  BY <1>3, <1>4, <1>5, SendPosted

\* The requests of a call are posted for the transaction of the process.
LEMMA RequestsPosted ==
    ASSUME MailType, NEW p \in Pid, client[p].tid \in Tid, client[p].step \in Step, NEW ns,
           SendRequests(p, ns)
    PROVE  Posted(p, ns, IF client[p].step.call \in Sticky THEN "test_set_sticky" ELSE "lock")
<1> DEFINE s == client[p].step
           kind == IF s.call \in Sticky THEN "test_set_sticky" ELSE "lock"
           to == [n \in LockNode |-> Msg(p, kind, OpAt(p, s, n), s.oid)]
<1>1. ASSUME NEW n \in LockNode
      PROVE  to[n] \in Message /\ to[n].tid = client[p].tid /\ to[n].kind = kind
  <2>1. OpAt(p, s, n) \in Op
    BY OpAtType
  <2> QED
    BY <2>1 DEF Msg, Message, Step
<1>2. to \in [LockNode -> Message]
  BY <1>1
<1>3. mail' = [mail EXCEPT ![p] = [n \in LockNode |->
                  IF n \in ns THEN Append(@[n], to[n]) ELSE @[n]]]
  BY DEF SendRequests, Send
<1> HIDE DEF to, kind
<1>4. Posted(p, ns, kind)
  BY <1>1, <1>2, <1>3, SendPosted
<1> QED
  BY <1>4 DEF kind

\* The casts of a sticky call are posted for the transaction of the process.
LEMMA CastPosted ==
    ASSUME MailType, NEW p \in Pid, client[p].tid \in Tid, NEW ns, NEW s \in Step,
           s.call \in Cast, SendCast(p, ns, s)
    PROVE  Posted(p, ns, s.call)
<1> DEFINE to == [n \in LockNode |-> Msg(p, s.call, "write", s.oid)]
<1>1. ASSUME NEW n \in LockNode
      PROVE  to[n] \in Message /\ to[n].tid = client[p].tid /\ to[n].kind = s.call
  <2>1. to[n] = [kind |-> s.call, tid |-> client[p].tid, op |-> "write", oid |-> s.oid]
    BY DEF Msg
  <2>2. s.oid \in Oid
    BY DEF Step
  <2> HIDE DEF to
  <2> QED
    BY <2>1, <2>2 DEF Message, Op
<1>2. to \in [LockNode -> Message]
  BY <1>1
<1>3. mail' = [mail EXCEPT ![p] = [n \in LockNode |->
                  IF n \in ns THEN Append(@[n], to[n]) ELSE @[n]]]
  BY DEF SendCast, Send
<1> HIDE DEF to
<1> QED
  BY <1>1, <1>2, <1>3, SendPosted

\* A sticky call goes on.
LEMMA ContinueKeeps ==
    ASSUME ProcessInv, NEW p \in Pid, Continue(p)
    PROVE  ProcessInv'
<1>1. /\ client[p] \in Client /\ client[p].await = {} /\ client[p].pc = "run"
      /\ MailType /\ client[p].later # <<>>
  BY DEF ProcessInv, Requests, Awaits, Continue
<1>2. client[p].tid \in Tid /\ InProgress(p)
  BY <1>1 DEF ProcessInv, Ages, OwnTid, InProgress
<1>3. PICK s \in Step : s = Head(client[p].later)
  BY <1>1 DEF Client
<1>4. PICK c \in Client : c = [client[p] EXCEPT !.later = Tail(@)]
  <2>1. Tail(client[p].later) \in Seq(Step)
    BY <1>1, TailRange DEF Client
  <2>2. [client[p] EXCEPT !.later = Tail(@)] \in Client
    BY <1>1, <2>1 DEF Client
  <2> QED
    BY <2>2
<1>5. c.tid = client[p].tid /\ c.await = {} /\ c.pc = "run"
  BY <1>1, <1>4 DEF Client
<1>6. CASE s.call \in Cast /\ Update(p, c) /\ SendCast(p, WNodes(p, s.oid.tab), s)
  <2>1. WNodes(p, s.oid.tab) \in SUBSET LockNode
    BY ReplicaType DEF Step, Oid
  <2>2. Posted(p, WNodes(p, s.oid.tab), s.call)
    BY <1>1, <1>2, <1>6, CastPosted
  <2> QED
    BY <1>1, <1>2, <1>5, <1>6, <2>1, <2>2, SendKeeps DEF Continue
<1>7. CASE s.call \notin Cast /\ Start(p, s, c) /\ UNCHANGED mail
  <2>1. PICK d \in Client : Update(p, d) /\ Started(p, s, c, d)
    BY <1>7, StartType
  <2> QED
    BY <1>1, <1>5, <1>7, <2>1, StickyStages, ComputeKeeps DEF Continue, Started
<1>8. CASE Update(p, c) /\ UNCHANGED mail
  BY <1>1, <1>5, <1>8, ComputeKeeps DEF Continue
<1> QED
  BY <1>3, <1>4, <1>6, <1>7, <1>8 DEF Continue, SendCast

\* The next lock managers are asked.
LEMMA AskNextKeeps ==
    ASSUME ProcessInv, NEW p \in Pid, AskNext(p)
    PROVE  ProcessInv'
<1>1. /\ client[p] \in Client /\ client[p].await = {} /\ client[p].pc = "wait"
      /\ MailType /\ client[p].todo # <<>> /\ client[p].step \in Step
      /\ StickyAlone(p)
  BY DEF ProcessInv, Requests, StickyAlone, AskNext, Sending
<1>2. client[p].tid \in Tid /\ InProgress(p)
  BY <1>1 DEF ProcessInv, Ages, OwnTid, InProgress
<1>3. PICK ns \in SUBSET LockNode : ns = Head(client[p].todo)
  BY <1>1 DEF Client
<1>4. /\ Tail(client[p].todo) \in Seq(SUBSET LockNode)
      /\ Range(Tail(client[p].todo)) \subseteq Range(client[p].todo)
      /\ ns \in Range(client[p].todo)
  BY <1>1, <1>3, TailRange DEF Client
<1>5. PICK c \in Client : c = [client[p] EXCEPT !.todo = Tail(@), !.await = ns,
                                                !.nodes = @ \cup ns]
  <2>1. client[p].nodes \cup ns \in SUBSET LockNode
    BY <1>1 DEF Client
  <2> QED
    BY <1>1, <1>4, <2>1 DEF Client
<1>6. /\ c.tid = client[p].tid /\ c.await = ns /\ c.pc = "wait"
      /\ c.step = client[p].step /\ c.todo = Tail(client[p].todo)
  BY <1>1, <1>5 DEF Client
<1>7. Update(p, c) /\ SendRequests(p, ns) /\ UNCHANGED <<vars, ended>>
  BY <1>3, <1>5 DEF AskNext
<1>8. PICK kind : /\ kind = IF client[p].step.call \in Sticky THEN "test_set_sticky" ELSE "lock"
                  /\ Posted(p, ns, kind)
  BY <1>1, <1>2, <1>7, RequestsPosted
<1>9. kind = "test_set_sticky" =>
         ns \subseteq {Own(p)} /\ \A ms \in Range(c.todo) : ms = {Own(p)}
  BY <1>1, <1>4, <1>6, <1>8 DEF StickyAlone
<1> QED
  BY <1>1, <1>2, <1>6, <1>7, <1>8, <1>9, SendKeeps DEF LockRequest

\* A transaction is restarted.
LEMMA RestartKeeps ==
    ASSUME ProcessInv, NEW p \in Pid, RestartTransaction(p)
    PROVE  ProcessInv'
<1>1. /\ client[p] \in Client /\ client[p].await = {} /\ client[p].pc = "refused" /\ MailType
  BY DEF ProcessInv, Requests, Awaits, RestartTransaction
<1>2. client[p].tid \in Tid /\ InProgress(p)
  BY <1>1 DEF ProcessInv, Ages, OwnTid, InProgress
<1>3. PICK ns \in SUBSET LockNode : ns = client[p].nodes
  BY <1>1 DEF Client
<1>4. PICK t \in Tid : t = client[p].tid
  BY <1>2
<1>5. PICK c \in Client : c = [Running(p, t) EXCEPT !.pc = "acks", !.await = ns]
  <2>1. Running(p, t) \in Client
    BY RunningType
  <2>2. [Running(p, t) EXCEPT !.pc = "acks", !.await = ns] \in Client
    BY <2>1 DEF Client
  <2> QED
    BY <2>2
<1>6. c.tid = client[p].tid /\ c.pc = "acks" /\ c.await = ns
  BY <1>4, <1>5 DEF Running, Resting
<1>7. /\ Update(p, c) /\ SendBare(p, ns, "sync_release_tid") /\ UNCHANGED <<vars, ended>>
  BY <1>3, <1>4, <1>5 DEF RestartTransaction, SendBare
<1>8. Posted(p, ns, "sync_release_tid")
  BY <1>1, <1>2, <1>7, BarePosted
<1> QED
  BY <1>1, <1>2, <1>6, <1>7, <1>8, SendKeeps

\* mnesia_tm is told of the transaction that is over.
LEMMA TellType ==
    ASSUME ended \in [LockNode -> SUBSET Tid], NEW p \in Pid, client[p].tid \in Tid, NEW ns,
           TellOutcome(p, ns)
    PROVE  /\ ended' \in [LockNode -> SUBSET Tid]
           /\ \A n \in LockNode : \A t \in ended'[n] : t \in ended[n] \/ t = client[p].tid
           /\ \A n \in LockNode : ended[n] \subseteq ended'[n]
           /\ \A n \in LockNode : n \in ns => client[p].tid \in ended'[n]
BY DEF TellOutcome

\* A transaction aborts.
LEMMA AbortKeeps ==
    ASSUME ProcessInv, NEW p \in Pid, Abort(p)
    PROVE  ProcessInv'
<1>1. client[p] \in Client /\ MailType /\ InProgress(p)
  BY DEF ProcessInv, Abort, InProgress
<1>2. client[p].tid \in Tid
  BY <1>1 DEF ProcessInv, Ages, OwnTid, InProgress
<1>3. PICK ns \in SUBSET LockNode : ns = client[p].nodes
  BY <1>1 DEF Client
<1>4. PICK c \in Client : c = Resting(client[p].tid)
  BY <1>2, RestingType
<1>5. c.tid = client[p].tid /\ c.pc = "idle" /\ c.await = {}
  BY <1>4 DEF Resting
<1>6. Update(p, c) /\ SendBare(p, ns, "release_tid") /\ UNCHANGED <<vars, ended>>
  BY <1>3, <1>4 DEF Abort, SendBare
<1>7. Posted(p, ns, "release_tid")
  BY <1>1, <1>2, <1>6, BarePosted
<1>8. ended' \in [LockNode -> SUBSET Tid]
  BY <1>6 DEF ProcessInv
<1> QED
  BY <1>1, <1>5, <1>6, <1>7, <1>8, LeaveKeeps DEF Request, LockRequest

\* A transaction commits.
LEMMA CommitKeeps ==
    ASSUME ProcessInv, NEW p \in Pid, Commit(p)
    PROVE  ProcessInv'
<1>1. client[p] \in Client /\ MailType /\ InProgress(p)
  BY DEF ProcessInv, Commit, InProgress
<1>2. client[p].tid \in Tid
  BY <1>1 DEF ProcessInv, Ages, OwnTid, InProgress
<1>3. {Own(p)} \in SUBSET LockNode
  BY PidAssumption, MnesiaAssumption DEF Own
<1>4. PICK c \in Client : c = Resting(client[p].tid)
  BY <1>2, RestingType
<1>5. c.tid = client[p].tid /\ c.pc = "idle" /\ c.await = {}
  BY <1>4 DEF Resting
<1>6. /\ Update(p, c) /\ SendBare(p, {Own(p)}, "release_tid") /\ UNCHANGED vars
      /\ TellOutcome(p, client[p].nodes \ {Own(p)})
  BY <1>4 DEF Commit, SendBare
<1>7. Posted(p, {Own(p)}, "release_tid")
  BY <1>1, <1>2, <1>6, BarePosted
<1>8. /\ ended' \in [LockNode -> SUBSET Tid]
      /\ \A n \in LockNode : \A t \in ended'[n] : t \in ended[n] \/ t = client[p].tid
  BY <1>2, <1>6, TellType DEF ProcessInv
<1> QED
  BY <1>1, <1>3, <1>5, <1>6, <1>7, <1>8, LeaveKeeps DEF Request, LockRequest

\* Wherever a process is killed, mnesia_tm finds its transaction.
LEMMA ExitKeeps ==
    ASSUME ProcessInv, NEW p \in Pid, InProgress(p), NEW nodes, Exit(p, nodes),
           NEW ns \in SUBSET LockNode, NEW kind, Posted(p, ns, kind),
           kind \in Request => client[p].await = {},
           kind = "test_set_sticky" => ns \subseteq {Own(p)}
    PROVE  ProcessInv'
<1>1. client[p] \in Client
  BY DEF ProcessInv
<1>2. client[p].tid \in Tid
  BY DEF ProcessInv, Ages, OwnTid, InProgress
<1>3. PICK c \in Client : c = [Resting(client[p].tid) EXCEPT !.pc = "dead"]
  BY <1>2, RestingType
<1>4. c.tid = client[p].tid /\ c.pc = "dead" /\ c.await = {}
  BY <1>3 DEF Resting
<1>5. Update(p, c) /\ UNCHANGED vars /\ TellOutcome(p, nodes)
  BY <1>3 DEF Exit
<1>6. /\ ended' \in [LockNode -> SUBSET Tid]
      /\ \A n \in LockNode : \A t \in ended'[n] : t \in ended[n] \/ t = client[p].tid
  BY <1>2, <1>5, TellType DEF ProcessInv
<1> QED
  BY <1>4, <1>5, <1>6, LeaveKeeps

\* A process that sends nothing.
LEMMA NothingPosted ==
    ASSUME MailType, NEW p \in Pid, NEW kind, UNCHANGED mail
    PROVE  Posted(p, {}, kind)
BY DEF Posted, MailType

\* A process is killed.
LEMMA KillKeeps ==
    ASSUME ProcessInv, NEW p \in Pid, Kill(p)
    PROVE  ProcessInv'
<1> USE DEF Request, LockRequest
<1>1. client[p] \in Client /\ MailType /\ Requests(p)
  BY DEF ProcessInv
<1>2. CASE KilledWaiting(p)
  <2>1. Posted(p, {}, "release_tid")
    BY <1>1, <1>2, NothingPosted DEF KilledWaiting
  <2>2. InProgress(p) /\ Exit(p, client[p].nodes)
    BY <1>2 DEF KilledWaiting
  <2>3. PICK nodes : nodes = client[p].nodes
    OBVIOUS
  <2>4. Exit(p, nodes)
    BY <2>2, <2>3 DEF Exit, TellOutcome
  <2> QED
    BY <2>1, <2>2, <2>4, ExitKeeps
<1>3. CASE KilledSending(p)
  <2>1. PICK ns \in SUBSET Head(client[p].todo) :
           SendRequests(p, ns) /\ \E last \in ns : Exit(p, client[p].nodes \cup (ns \ {last}))
    BY <1>3 DEF KilledSending
  <2>2. /\ client[p].pc = "wait" /\ client[p].await = {} /\ client[p].todo # <<>>
        /\ client[p].step \in Step
    BY <1>1, <1>3 DEF KilledSending, Sending, Requests, StickyAlone
  <2>3. client[p].tid \in Tid /\ InProgress(p)
    BY <2>2 DEF ProcessInv, Ages, OwnTid, InProgress
  <2>4. Head(client[p].todo) \in SUBSET LockNode /\ Head(client[p].todo) \in Range(client[p].todo)
    BY <1>1, <2>2, TailRange DEF Client
  <2>5. PICK kind : /\ kind = IF client[p].step.call \in Sticky THEN "test_set_sticky" ELSE "lock"
                    /\ Posted(p, ns, kind)
    BY <1>1, <2>1, <2>2, <2>3, RequestsPosted
  <2>6. kind = "test_set_sticky" => ns \subseteq {Own(p)}
    BY <1>1, <2>2, <2>4, <2>5 DEF Requests, StickyAlone
  <2>7. PICK last \in ns : Exit(p, client[p].nodes \cup (ns \ {last}))
    BY <2>1
  <2>8. \E nodes : Exit(p, nodes)
    <3>1. PICK nodes : nodes = client[p].nodes \cup (ns \ {last})
      OBVIOUS
    <3>2. Exit(p, nodes)
      BY <2>7, <3>1 DEF Exit, TellOutcome
    <3> QED
      BY <3>2
  <2> QED
    BY <2>2, <2>3, <2>4, <2>5, <2>6, <2>8, ExitKeeps
<1>4. CASE KilledRestarting(p)
  <2>1. PICK ns \in SUBSET client[p].nodes : SendBare(p, ns, "sync_release_tid")
    BY <1>4 DEF KilledRestarting, SendBare
  <2>2. client[p].pc = "refused" /\ client[p].await = {} /\ Exit(p, {Own(p)})
    BY <1>1, <1>4 DEF KilledRestarting, Requests, Awaits
  <2>3. client[p].tid \in Tid /\ InProgress(p)
    BY <2>2 DEF ProcessInv, Ages, OwnTid, InProgress
  <2>4. ns \in SUBSET LockNode
    BY <1>1 DEF Client
  <2>5. Posted(p, ns, "sync_release_tid")
    BY <1>1, <2>1, <2>3, BarePosted
  <2> QED
    BY <2>2, <2>3, <2>4, <2>5, ExitKeeps
<1> QED
  BY <1>2, <1>3, <1>4 DEF Kill

\* An answer taken by its process is no concern of the others.
LEMMA TakeFrame ==
    ASSUME AnswerInv, ProcessInv, NEW p \in Pid, NEW n \in LockNode, NEW r \in replies[n],
           Take(p, n, r), client[p].pc # "idle",
           client' \in [Pid -> Client], client'[p].tid = client[p].tid,
           \A q \in Pid : q # p => client'[q] = client[q],
           InProgress(p)' => InProgress(p), Awaits(p)', StickyAlone(p)'
    PROVE  ProcessInv'
<1>1. Ages(p) /\ Requests(p) /\ MailType /\ client \in [Pid -> Client] /\ MailOrder
  BY DEF ProcessInv
<1>2. r.tid = client[p].tid /\ PidOf[r.tid] = p /\ UNCHANGED <<mail, ended>>
  BY <1>1 DEF Take, Ages, OwnTid
<1>3. /\ \A m \in LockNode : \A u : m # n \/ u # r.tid =>
            (Waits(m, u)' <=> Waits(m, u)) /\ (Frees(m, u)' <=> Frees(m, u))
      /\ ~Waits(n, r.tid)' /\ ~Frees(n, r.tid)'
      /\ \A m \in LockNode : \A u : Registered(m, u)' <=> Registered(m, u)
  BY TakeEffect DEF Take
<1>4. \A q \in Pid, m \in LockNode : Sent(q, m)' = Sent(q, m)
  BY <1>2 DEF Sent
<1>5. \A m \in LockNode : replies'[m] \subseteq replies[m]
  BY DEF Take, AnswerInv, TypeOK
<1>6. Ages(p)'
  <2>1. OwnTid(p)'
    BY <1>1 DEF Ages, OwnTid
  <2>2. MailAges(p)'
    BY <1>1, <1>4 DEF Ages, MailAges
  <2>3. KnownAges(p)'
    BY <1>1, <1>2, <1>3, <1>4 DEF Ages, KnownAges
  <2> QED
    BY <2>1, <2>2, <2>3 DEF Ages
<1>7. Requests(p)'
  <2>1. OnlyRequest(p)'
    BY <1>1, <1>3, <1>4 DEF Requests, OnlyRequest
  <2>2. NotReleased(p)'
    BY <1>1, <1>2, <1>4 DEF Requests, NotReleased, Mailed
  <2> QED
    BY <2>1, <2>2 DEF Requests
<1>8. ASSUME NEW q \in Pid, q # p PROVE Ages(q)' /\ Requests(q)'
  <2>1. \A m \in LockNode : \A u \in Tid : PidOf[u] = q =>
           /\ Waits(m, u)' <=> Waits(m, u)
           /\ Frees(m, u)' <=> Frees(m, u)
           /\ Registered(m, u)' => Registered(m, u)
           /\ u \in ended'[m] => u \in ended[m]
    BY <1>2, <1>3, <1>8
  <2>2. \A m \in LockNode : replies'[m] \ replies[m] = {}
    BY <1>5
  <2>3. Ages(q) /\ Requests(q)
    BY DEF ProcessInv
  <2> QED
    BY <1>1, <1>4, <1>8, <2>1, <2>2, <2>3, Frame
<1>9. NoneDown' /\ MailType' /\ MailOrder' /\ ended' \in [LockNode -> SUBSET Tid]
  BY <1>2 DEF ProcessInv, Take, NoneDown, MailType, MailOrder
<1> QED
  BY <1>6, <1>7, <1>8, <1>9 DEF ProcessInv

\* An answer is taken: one lock manager less owes one.
LEMMA GetAnswerKeeps ==
    ASSUME AnswerInv, ProcessInv, NEW p \in Pid, GetAnswer(p)
    PROVE  ProcessInv'
<1>1. /\ client[p] \in Client /\ client[p].pc = "wait" /\ client[p].step \in Step
      /\ Ages(p) /\ Requests(p) /\ InProgress(p)
  BY DEF ProcessInv, GetAnswer, Requests, StickyAlone, InProgress
<1>2. PICK n \in LockNode : /\ n \in client[p].await
                            /\ \E r \in replies[n] : \E c \in Answered(p, n, r) :
                                  Take(p, n, r) /\ Update(p, Resumed(p, c))
  BY <1>1 DEF GetAnswer, Client
<1>3. PICK r \in replies[n] : \E c \in Answered(p, n, r) :
                                  Take(p, n, r) /\ Update(p, Resumed(p, c))
  BY <1>2
<1>4. PICK c \in Answered(p, n, r) : Take(p, n, r) /\ Update(p, Resumed(p, c))
  BY <1>3
<1>5. PICK t \in Tid : t = client[p].tid /\ t = r.tid /\ r \in Reply
  BY <1>4 DEF AnswerInv, TypeOK, Take, Reply
<1>6. /\ c \in Client /\ c.step = client[p].step /\ c.tid = t
      /\ c.await = client[p].await \ {n}
      /\ c.todo = client[p].todo \/ c.step.call \in {"rlock", "ixrlock"}
      /\ c.pc \in {"wait", "run"}
      /\ c.pc = "run" => r.tag \in {"not_stuck", "stuck_elsewhere", "tid_released"}
  <2>1. r \in Reply /\ client[p] \in Client /\ client[p].pc = "wait" /\ client[p].step \in Step
    BY <1>1, <1>5
  <2>2. /\ c \in Client /\ c.step = client[p].step /\ c.tid = client[p].tid
        /\ c.await = client[p].await \ {n}
        /\ c.todo = client[p].todo \/ c.step.call \in {"rlock", "ixrlock"}
        /\ c.pc \in {"wait", "run"}
        /\ c.pc = "run" => r.tag \in {"not_stuck", "stuck_elsewhere", "tid_released"}
    BY <2>1, AnsweredType
  <2> QED
    BY <1>5, <2>2
<1>7. /\ ~Waits(n, t)' /\ ~Frees(n, t)'
      /\ IF r.tag = "tid_released" THEN Frees(n, t) /\ ~Waits(n, t)
         ELSE Waits(n, t) /\ ~Frees(n, t)
      /\ \A m \in LockNode : m # n => (Waits(m, t)' <=> Waits(m, t)) /\ (Frees(m, t)' <=> Frees(m, t))
  <2>1. /\ ~Waits(n, r.tid)' /\ ~Frees(n, r.tid)'
        /\ IF r.tag = "tid_released" THEN Frees(n, r.tid) /\ ~Waits(n, r.tid)
           ELSE Waits(n, r.tid) /\ ~Frees(n, r.tid)
        /\ \A m \in LockNode : \A u : m # n \/ u # r.tid =>
              (Waits(m, u)' <=> Waits(m, u)) /\ (Frees(m, u)' <=> Frees(m, u))
    BY <1>4, TakeEffect DEF Take
  <2> QED
    BY <1>5, <2>1
<1>8. Waits(n, t) /\ r.tag # "tid_released"
  BY <1>1, <1>5, <1>7 DEF Requests, Awaits
<1>9. \A m \in LockNode : m # n /\ m \in client[p].await
         <=> Mailed(p, m, t, LockRequest) \/ Waits(m, t)'
  <2>1. ~Mailed(p, n, t, LockRequest)
    BY <1>1, <1>8 DEF Requests, OnlyRequest, Mailed, Request
  <2> QED
    BY <1>1, <1>2, <1>5, <1>7, <2>1 DEF Requests, Awaits
<1>10. \A m \in LockNode : ~Mailed(p, m, t, {"sync_release_tid"}) /\ ~Frees(m, t)'
  BY <1>1, <1>5, <1>7 DEF Requests, Awaits
<1>11. c.pc = "run" => c.await = {}
  <2>1. c.pc = "run" => client[p].step.call \in Sticky
    BY <1>1, <1>3, <1>5, <1>6, <1>8 DEF Requests, StickyAlone
  <2> QED
    BY <1>1, <1>2, <1>6, <2>1 DEF Requests, StickyAlone
<1>12. PICK d \in Client : d = Resumed(p, c)
  BY <1>1, <1>6, ResumedType, SMTT(60)
<1>13. /\ d.tid = t /\ d.await = c.await /\ d.pc \in {"run", "wait", "refused"}
       /\ d.pc # "wait" => d.await = {}
       /\ d.pc = "wait" => d = c
  BY <1>6, <1>11, <1>12 DEF Resumed, Client
<1>14. /\ client' \in [Pid -> Client] /\ client'[p] = d
       /\ \A q \in Pid : q # p => client'[q] = client[q]
  BY <1>4, <1>12, UpdateEffect DEF ProcessInv
<1>15. UNCHANGED <<mail, ended>>
  BY <1>4 DEF Take
<1>16. \A m \in LockNode : \A kinds : Mailed(p, m, t, kinds)' <=> Mailed(p, m, t, kinds)
  BY <1>13, <1>14, <1>15 DEF Mailed, Sent
<1>17. Awaits(p)'
  BY <1>6, <1>9, <1>10, <1>13, <1>14, <1>16 DEF Awaits
<1>18. StickyAlone(p)'
  <2>1. \A m \in LockNode : replies'[m] \subseteq replies[m]
    BY <1>4 DEF Take, AnswerInv, TypeOK
  <2>2. \A q \in Pid, m \in LockNode : Sent(q, m)' = Sent(q, m)
    BY <1>15 DEF Sent
  <2>3. d.pc = "wait" /\ d.step.call \in Sticky => d.todo = client[p].todo
    BY <1>6, <1>13 DEF Sticky
  <2> QED
    BY <1>1, <1>5, <1>6, <1>13, <1>14, <1>16, <2>1, <2>2, <2>3 DEF Requests, StickyAlone
<1> QED
  BY <1>1, <1>4, <1>5, <1>13, <1>14, <1>17, <1>18, TakeFrame

\* An acknowledgement is taken; after the last one the function runs again.
LEMMA GetAckKeeps ==
    ASSUME AnswerInv, ProcessInv, NEW p \in Pid, GetAck(p)
    PROVE  ProcessInv'
<1>1. /\ client[p] \in Client /\ client[p].pc = "acks"
      /\ Ages(p) /\ Requests(p) /\ InProgress(p)
  BY DEF ProcessInv, GetAck, InProgress
<1>2. PICK n \in LockNode : /\ n \in client[p].await
                            /\ \E r \in replies[n] :
                                  /\ r.tag = "tid_released" /\ Take(p, n, r)
                                  /\ Update(p, IF client[p].await = {n} THEN Running(p, client[p].tid)
                                               ELSE [client[p] EXCEPT !.await = @ \ {n}])
  BY <1>1 DEF GetAck, Client
<1>3. PICK r \in replies[n] : /\ r.tag = "tid_released" /\ Take(p, n, r)
                              /\ Update(p, IF client[p].await = {n} THEN Running(p, client[p].tid)
                                           ELSE [client[p] EXCEPT !.await = @ \ {n}])
  BY <1>2
<1>4. PICK t \in Tid : t = client[p].tid /\ t = r.tid
  BY <1>3 DEF AnswerInv, TypeOK, Take, Reply
<1>5. /\ ~Waits(n, t)' /\ ~Frees(n, t)' /\ Frees(n, t) /\ ~Waits(n, t)
      /\ \A m \in LockNode : m # n => (Waits(m, t)' <=> Waits(m, t)) /\ (Frees(m, t)' <=> Frees(m, t))
  <2>1. /\ ~Waits(n, r.tid)' /\ ~Frees(n, r.tid)'
        /\ Frees(n, r.tid) /\ ~Waits(n, r.tid)
        /\ \A m \in LockNode : \A u : m # n \/ u # r.tid =>
              (Waits(m, u)' <=> Waits(m, u)) /\ (Frees(m, u)' <=> Frees(m, u))
    BY <1>3, TakeEffect DEF Take
  <2> QED
    BY <1>4, <2>1
<1>6. \A m \in LockNode : m # n /\ m \in client[p].await
         <=> Mailed(p, m, t, {"sync_release_tid"}) \/ Frees(m, t)'
  <2>1. ~Mailed(p, n, t, {"sync_release_tid"})
    BY <1>1, <1>5 DEF Requests, OnlyRequest, Mailed, Request
  <2> QED
    BY <1>1, <1>2, <1>4, <1>5, <2>1 DEF Requests, Awaits
<1>7. \A m \in LockNode : ~Mailed(p, m, t, LockRequest) /\ ~Waits(m, t)'
  BY <1>1, <1>4, <1>5 DEF Requests, Awaits
<1>8. PICK d \in Client : d = IF client[p].await = {n} THEN Running(p, client[p].tid)
                              ELSE [client[p] EXCEPT !.await = @ \ {n}]
  <2>1. Running(p, client[p].tid) \in Client
    BY <1>4, RunningType
  <2>2. [client[p] EXCEPT !.await = @ \ {n}] \in Client
    BY <1>1 DEF Client
  <2> QED
    BY <2>1, <2>2
<1>9. /\ d.tid = t /\ d.await = client[p].await \ {n}
      /\ \/ d.pc = "run" /\ d.await = {}
         \/ d.pc = "acks"
  <2>1. CASE client[p].await = {n}
    BY <1>4, <1>8, <2>1 DEF Running, Resting
  <2>2. CASE client[p].await # {n}
    BY <1>1, <1>4, <1>8, <2>2 DEF Client
  <2> QED
    BY <2>1, <2>2
<1>10. /\ client' \in [Pid -> Client] /\ client'[p] = d
       /\ \A q \in Pid : q # p => client'[q] = client[q]
  BY <1>3, <1>8, UpdateEffect DEF ProcessInv
<1>11. UNCHANGED <<mail, ended>>
  BY <1>3 DEF Take
<1>12. \A m \in LockNode : \A kinds : Mailed(p, m, t, kinds)' <=> Mailed(p, m, t, kinds)
  BY <1>11 DEF Mailed, Sent
<1>13. Awaits(p)'
  BY <1>6, <1>7, <1>9, <1>10, <1>12 DEF Awaits
<1>14. StickyAlone(p)'
  BY <1>1, <1>9, <1>10, <1>11 DEF Requests, StickyAlone, Sent
<1> QED
  BY <1>1, <1>3, <1>4, <1>9, <1>10, <1>13, <1>14, TakeFrame

\* An answer to a dead process is dropped.
LEMMA DiscardKeeps ==
    ASSUME AnswerInv, ProcessInv, NEW p \in Pid, Discard(p)
    PROVE  ProcessInv'
<1>0. PICK n \in LockNode : \E r \in replies[n] : Take(p, n, r)
  BY DEF Discard
<1>1. PICK r \in replies[n] : Take(p, n, r)
  BY <1>0
<1>2. client[p].pc = "dead" /\ UNCHANGED <<client, mail>>
  BY <1>1 DEF Discard, Take
<1>3. Awaits(p)' /\ StickyAlone(p)'
  BY <1>2 DEF ProcessInv, Requests, Awaits, StickyAlone, InProgress, Sent
<1>4. client' \in [Pid -> Client]
  BY <1>2 DEF ProcessInv
<1> QED
  BY <1>1, <1>2, <1>3, <1>4, TakeFrame DEF InProgress

\* The release loop of a lock manager moves on.
LEMMA LockerStepKeeps ==
    ASSUME LockInv, AnswerInv, ProcessInv, NEW n \in LockNode, LockerStep(n)
    PROVE  ProcessInv'
<1>1. UNCHANGED <<client, mail, ended>> /\ Loop(n)
  BY DEF LockerStep
<1>2. NoneDown /\ client \in [Pid -> Client] /\ MailType /\ MailOrder
  BY DEF ProcessInv
<1>3. /\ \A m \in LockNode : \A u :
            /\ Waits(m, u)' <=> Waits(m, u)
            /\ Frees(m, u)' <=> Frees(m, u)
            /\ Registered(m, u)' => Registered(m, u)
      /\ NoneDown'
      /\ \A m \in LockNode : \A r \in replies'[m] \ replies[m] :
            r.tag \in {"granted", "cyclic", "no_exists", "tid_released"}
  BY <1>1, <1>2, LoopEffect
<1>4. \A q \in Pid, m \in LockNode : Sent(q, m)' = Sent(q, m)
  BY <1>1 DEF Sent
<1>5. ASSUME NEW q \in Pid PROVE Ages(q)' /\ Requests(q)'
  <2>1. Ages(q) /\ Requests(q)
    BY DEF ProcessInv
  <2> QED
    BY <1>1, <1>2, <1>3, <1>4, <2>1, Frame
<1>6. MailType' /\ MailOrder' /\ client' \in [Pid -> Client] /\ ended' \in [LockNode -> SUBSET Tid]
  BY <1>1 DEF ProcessInv, MailType, MailOrder
<1> QED
  BY <1>3, <1>5, <1>6 DEF ProcessInv

\* Only what has gone out of force is released by mnesia_tm.
LEMMA ReleaseEndedKeeps ==
    ASSUME TypeOK, ProcessInv, NEW n \in LockNode, ReleaseEnded(n)
    PROVE  ProcessInv'
<1>1. PICK t \in ended[n] : /\ ReleaseTid(n, t)
                            /\ ended' = [ended EXCEPT ![n] = @ \ {t}]
                            /\ UNCHANGED <<client, mail>>
  BY DEF ReleaseEnded
<1>2. NoneDown /\ client \in [Pid -> Client] /\ MailType /\ MailOrder /\ t \in Tid
  BY DEF ProcessInv
<1>3. /\ \A m \in LockNode : \A u :
            /\ Waits(m, u)' => Waits(m, u)
            /\ m # n \/ u # t => (Waits(m, u)' <=> Waits(m, u))
            /\ Frees(m, u)' <=> Frees(m, u)
            /\ Registered(m, u)' => Registered(m, u)
      /\ NoneDown'
  BY <1>1, <1>2, ReleaseEffect DEF ReleaseTid, Busy
<1>4. /\ ended' \in [LockNode -> SUBSET Tid]
      /\ \A m \in LockNode : ended'[m] \subseteq ended[m]
  BY <1>1 DEF ProcessInv
<1>5. /\ \A q \in Pid, m \in LockNode : Sent(q, m)' = Sent(q, m)
      /\ \A m \in LockNode : replies'[m] \ replies[m] = {}
  BY <1>1 DEF Sent, ReleaseTid
<1>6. ASSUME NEW q \in Pid PROVE Ages(q)' /\ Requests(q)'
  <2>1. Ages(q) /\ Requests(q)
    BY DEF ProcessInv
  <2>2. InProgress(q) => client[q].tid \notin ended[n]
    BY <2>1 DEF Requests, NotReleased
  <2>3. \A m \in LockNode : \A u \in Tid : InProgress(q) /\ u = client[q].tid =>
              /\ Mailed(q, m, u, LockRequest)' \/ Waits(m, u)'
                    <=> Mailed(q, m, u, LockRequest) \/ Waits(m, u)
              /\ Mailed(q, m, u, {"sync_release_tid"})' \/ Frees(m, u)'
                    <=> Mailed(q, m, u, {"sync_release_tid"}) \/ Frees(m, u)
    BY <1>1, <1>3, <1>5, <2>2 DEF Mailed
  <2> QED
    BY <1>1, <1>2, <1>3, <1>4, <1>5, <2>1, <2>3, OwedFrame
<1>7. MailType' /\ MailOrder' /\ client' \in [Pid -> Client]
  BY <1>1 DEF ProcessInv, MailType, MailOrder
<1> QED
  BY <1>3, <1>4, <1>6, <1>7 DEF ProcessInv

\* What the lock manager at n does when it takes the message m of p.
Handled(p, n, m) ==
    /\ \A k \in LockNode : \A u \in Tid : k # n \/ u # m.tid =>
          /\ Waits(k, u)' <=> Waits(k, u)
          /\ Frees(k, u)' <=> Frees(k, u)
          /\ Registered(k, u)' => Registered(k, u)
    /\ m.kind \in LockRequest => Waits(n, m.tid)' /\ ~Frees(n, m.tid)'
    /\ m.kind = "sync_release_tid" =>
          ~Waits(n, m.tid)' /\ Frees(n, m.tid)' /\ ~Registered(n, m.tid)'
    /\ m.kind = "release_tid" =>
          /\ Waits(n, m.tid)' => Waits(n, m.tid)
          /\ Frees(n, m.tid)' <=> Frees(n, m.tid)
          /\ ~Registered(n, m.tid)'
    /\ m.kind \in Cast =>
          /\ Waits(n, m.tid)' <=> Waits(n, m.tid)
          /\ Frees(n, m.tid)' <=> Frees(n, m.tid)
          /\ Registered(n, m.tid)' => Registered(n, m.tid)
    /\ \A k \in LockNode : \A r \in replies'[k] \ replies[k] :
          r.tag \in {"not_stuck", "stuck_elsewhere"} =>
             k = n /\ r.tid = m.tid /\ m.kind = "test_set_sticky"
    /\ NoneDown'

\* A request for a lock is not answered with anything about stickiness.
LEMMA LockAnswers ==
    ASSUME TypeOK, NEW n \in LockNode, NEW t \in Tid, NEW op \in Op, NEW oid \in Oid,
           RequestLock(n, t, op, oid)
    PROVE  \A k \in LockNode : \A r \in replies'[k] \ replies[k] :
              r.tag \in {"granted", "cyclic", "no_exists", "switch"}
<1>1. CASE TryLock(n, t, op, oid)
  <2>1. \/ \E r : /\ r.tid = t /\ r.tag \in {"granted", "cyclic", "no_exists"}
                  /\ \A m \in LockNode : replies'[m] =
                        IF m = n THEN replies[n] \cup {r} ELSE replies[m]
        \/ UNCHANGED replies
    BY <1>1, TryLockOwes, ZenonT(60)
  <2> QED
    BY <2>1
<1>2. CASE ReplyTo(n, t, "switch", stickyAt[n][oid.tab])
  <2>1. \A m \in LockNode : replies'[m] =
           IF m = n THEN replies[n] \cup {[tid |-> t, tag |-> "switch", at |-> stickyAt[n][oid.tab]]}
           ELSE replies[m]
    BY <1>2, ReplyEffect
  <2> QED
    BY <2>1
<1> QED
  BY <1>1, <1>2 DEF RequestLock

\* Each message has the effect the handler of the lock manager promises.
LEMMA DeliverHandles ==
    ASSUME TypeOK, ProcessInv, NEW p \in Pid, NEW n \in LockNode, Deliver(p, n),
           NEW m \in Message, m = Head(mail[p][n]), m \in Sent(p, n)
    PROVE  Handled(p, n, m)
<1> USE DEF LockRequest, Cast
<1>1. /\ m.tid \in Tid /\ m.op \in Op /\ m.oid \in Oid
      /\ NoneDown
      /\ m.kind \in Request => ~Waits(n, m.tid) /\ ~Frees(n, m.tid)
  BY DEF Message, ProcessInv, Requests, OnlyRequest
<1>2. CASE /\ m.kind \in LockRequest
           /\ RequestLock(n, m.tid, m.op, m.oid) \/ TestSetSticky(n, m.tid, m.op, m.oid)
           /\ m.kind = "lock" => RequestLock(n, m.tid, m.op, m.oid)
  <2>1. /\ Others(n, m.tid)
        /\ Waits(n, m.tid)'
        /\ Frees(n, m.tid)' <=> Frees(n, m.tid)
        /\ UNCHANGED job
        /\ \A k \in LockNode : \A r \in replies'[k] : r \in replies[k] \/ (k = n /\ r.tid = m.tid)
    BY <1>1, <1>2, AskEffect
  <2>2. m.kind = "lock" => \A k \in LockNode : \A r \in replies'[k] \ replies[k] :
              r.tag \in {"granted", "cyclic", "no_exists", "switch"}
    BY <1>1, <1>2, LockAnswers
  <2>3. NoneDown'
    BY <1>1, <2>1 DEF NoneDown
  <2> QED
    BY <1>1, <1>2, <2>1, <2>2, <2>3 DEF Handled, Others, Request
<1>3. CASE m.kind \in Cast /\ (Stick(n, m.oid.tab, NodeOf[p]) \/ Unstick(n, m.oid.tab))
  <2>1. UNCHANGED <<held, tidLocks, lockQueue, job, replies>>
    BY <1>3 DEF Stick, Unstick
  <2> QED
    BY <1>1, <1>3, <2>1 DEF Handled, Waits, Frees, Registered, NoneDown
<1>4. CASE m.kind = "release_tid" /\ ReleaseTid(n, m.tid)
  <2>1. /\ \A k \in LockNode : \A u :
              /\ Waits(k, u)' => Waits(k, u)
              /\ k # n \/ u # m.tid => (Waits(k, u)' <=> Waits(k, u))
              /\ Frees(k, u)' <=> Frees(k, u)
              /\ Registered(k, u)' => Registered(k, u) /\ (k # n \/ u # m.tid)
        /\ NoneDown' /\ UNCHANGED replies
    BY <1>1, <1>4, ReleaseEffect DEF ReleaseTid, Busy
  <2> QED
    BY <1>1, <1>4, <2>1 DEF Handled
<1>5. CASE m.kind = "sync_release_tid" /\ SyncReleaseTid(n, m.tid)
  <2>1. /\ \A k \in LockNode : \A u :
              /\ Waits(k, u)' => Waits(k, u)
              /\ k # n \/ u # m.tid => (Waits(k, u)' <=> Waits(k, u))
              /\ Frees(k, u)' <=> (Frees(k, u) \/ (k = n /\ u \in {m.tid}))
              /\ Registered(k, u)' => Registered(k, u) /\ (k # n \/ u # m.tid)
        /\ NoneDown' /\ UNCHANGED replies
    BY <1>1, <1>5, ReleaseEffect DEF SyncReleaseTid, Busy
  <2> QED
    BY <1>1, <1>5, <2>1 DEF Handled, Request
<1> QED
  BY <1>2, <1>3, <1>4, <1>5 DEF Deliver

\* A message that is handled turns a request into what is owed for it.
LEMMA DeliverKeeps ==
    ASSUME TypeOK, ProcessInv, NEW p \in Pid, NEW n \in LockNode, Deliver(p, n)
    PROVE  ProcessInv'
<1> USE DEF LockRequest, Cast
<1>1. MailType /\ MailOrder /\ client \in [Pid -> Client] /\ Taken(p, n)
  BY DEF ProcessInv, Deliver, Taken
<1>2. PICK m \in Message : m = Head(mail[p][n])
  BY <1>1, TakenEffect
<1>3. /\ m \in Sent(p, n) /\ MailType' /\ MailOrder'
      /\ \A q \in Pid, k \in LockNode : Sent(q, k)' \subseteq Sent(q, k)
      /\ \A q \in Pid, k \in LockNode : \A a \in Sent(q, k) :
            a \in Sent(q, k)' \/ (q = p /\ k = n /\ a = m)
      /\ \A a \in Sent(p, n)' :
            m.tid <= a.tid /\ (m.kind \in Request /\ a.kind \in Request => a.tid # m.tid)
  BY <1>1, <1>2, TakenEffect
<1>4. Handled(p, n, m)
  BY <1>2, <1>3, DeliverHandles
<1>5. UNCHANGED <<client, ended>> /\ m.tid \in Tid /\ PidOf[m.tid] = p
  BY <1>3 DEF Deliver, Message, ProcessInv, Ages, MailAges
<1>6. ASSUME NEW q \in Pid PROVE Ages(q)' /\ Requests(q)'
  <2>1. Ages(q) /\ Requests(q) /\ client'[q] = client[q]
    BY <1>5 DEF ProcessInv
  <2>2. m.kind \in Request => ~Waits(n, m.tid) /\ ~Frees(n, m.tid)
    BY <1>3 DEF ProcessInv, Requests, OnlyRequest
  <2>3. ASSUME NEW k \in LockNode, NEW u \in Tid, PidOf[u] = q
        PROVE  /\ Registered(k, u)' \/ Waits(k, u)' \/ Frees(k, u)' \/ u \in ended'[k] =>
                     \/ Registered(k, u) \/ Waits(k, u) \/ Frees(k, u) \/ u \in ended[k]
                     \/ \E a \in Sent(q, k) : a.tid = u
               /\ Registered(k, u)' =>
                     Registered(k, u) \/ \A a \in Sent(q, k)' : u <= a.tid
               /\ Waits(k, u)' \/ Frees(k, u)' =>
                     \/ Waits(k, u) \/ Frees(k, u)
                     \/ \A a \in Sent(q, k)' : a.kind \in Request => a.tid # u
    <3>1. CASE k # n \/ u # m.tid
      BY <1>4, <1>5, <3>1 DEF Handled
    <3>2. CASE k = n /\ u = m.tid
      <4>1. q = p
        BY <1>5, <2>3, <3>2
      <4>2. m.kind \notin Request => (Waits(n, m.tid)' => Waits(n, m.tid)) /\ (Frees(n, m.tid)' => Frees(n, m.tid))
        BY <1>4 DEF Handled, Message, Request
      <4> QED
        BY <1>3, <1>5, <3>2, <4>1, <4>2
    <3> QED
      BY <3>1, <3>2
  <2>4. ASSUME NEW k \in LockNode, NEW u \in Tid, InProgress(q), u = client[q].tid
        PROVE  /\ Mailed(q, k, u, LockRequest)' \/ Waits(k, u)'
                     <=> Mailed(q, k, u, LockRequest) \/ Waits(k, u)
               /\ Mailed(q, k, u, {"sync_release_tid"})' \/ Frees(k, u)'
                     <=> Mailed(q, k, u, {"sync_release_tid"}) \/ Frees(k, u)
               /\ u \in ended'[k] => u \in ended[k]
    <3>1. \A kinds : /\ Mailed(q, k, u, kinds)' => Mailed(q, k, u, kinds)
                     /\ Mailed(q, k, u, kinds) => \/ Mailed(q, k, u, kinds)'
                                                  \/ /\ q = p /\ k = n /\ u = m.tid
                                                     /\ m.kind \in kinds
      BY <1>3 DEF Mailed
    <3>2. CASE q # p \/ k # n \/ u # m.tid
      <4>1. k # n \/ u # m.tid
        BY <1>5, <2>1, <2>4, <3>2 DEF Ages, OwnTid, InProgress
      <4> QED
        BY <1>4, <1>5, <3>1, <3>2, <4>1 DEF Handled
    <3>3. CASE q = p /\ k = n /\ u = m.tid
      <4>1. m.kind # "release_tid"
        BY <1>3, <2>1, <2>4, <3>3 DEF Requests, NotReleased, Mailed
      <4>2. CASE m.kind \in LockRequest
        <5>1. Waits(n, u)' /\ ~Frees(n, u)' /\ ~Frees(n, u) /\ Mailed(q, k, u, LockRequest)
          BY <1>3, <1>4, <2>2, <3>3, <4>2 DEF Handled, Mailed, Request
        <5> QED
          BY <1>5, <3>1, <3>3, <4>2, <5>1
      <4>3. CASE m.kind = "sync_release_tid"
        <5>1. /\ ~Waits(n, u)' /\ Frees(n, u)' /\ ~Waits(n, u)
              /\ Mailed(q, k, u, {"sync_release_tid"})
          BY <1>3, <1>4, <2>2, <3>3, <4>3 DEF Handled, Mailed, Request
        <5> QED
          BY <1>5, <3>1, <3>3, <4>3, <5>1
      <4>4. CASE m.kind \in Cast
        BY <1>4, <1>5, <3>1, <3>3, <4>4 DEF Handled
      <4> QED
        BY <4>1, <4>2, <4>3, <4>4 DEF Message
    <3> QED
      BY <3>2, <3>3
  <2>5. \A k \in LockNode : \A r \in replies'[k] \ replies[k] :
           PidOf[r.tid] = q /\ r.tag \in {"not_stuck", "stuck_elsewhere"} =>
              Mailed(q, k, r.tid, {"test_set_sticky"})
    BY <1>3, <1>4, <1>5 DEF Handled, Mailed
  <2> QED
    BY <1>1, <1>3, <2>1, <2>3, <2>4, <2>5, OwedFrame
<1>7. NoneDown' /\ client' \in [Pid -> Client] /\ ended' \in [LockNode -> SUBSET Tid]
  BY <1>4, <1>5 DEF Handled, ProcessInv
<1> QED
  BY <1>3, <1>6, <1>7 DEF ProcessInv

-----------------------------------------------------------------------------
(* The processes and the lock managers together.                           *)

\* Every step of the processes, the lock managers and mnesia_tm keeps the
\* bookkeeping of the locks, of the answers and of the processes.
THEOREM TxStep == TxInv /\ [TxNext]_txVars => TxInv'
<1> SUFFICES ASSUME TxInv, [TxNext]_txVars PROVE TxInv'
  OBVIOUS
<1>1. LockInv /\ AnswerInv /\ ProcessInv /\ TypeOK
  BY DEF TxInv, LockInv
<1>2. LockInv' /\ AnswerInv'
  BY <1>1, StepRefined, LockStep, AnswerStep
<1>3. CASE UNCHANGED txVars
  <2>1. UNCHANGED <<vars, client, mail, ended>>
    BY <1>3 DEF txVars
  <2>2. /\ \A q \in Pid, n \in LockNode : Sent(q, n)' = Sent(q, n)
        /\ \A n \in LockNode : \A u :
              /\ Waits(n, u)' <=> Waits(n, u)
              /\ Frees(n, u)' <=> Frees(n, u)
              /\ Registered(n, u)' <=> Registered(n, u)
        /\ \A n \in LockNode : replies'[n] \ replies[n] = {}
    BY <2>1 DEF Sent, Waits, Frees, Registered, vars
  <2>3. ASSUME NEW q \in Pid PROVE Ages(q)' /\ Requests(q)'
    BY <1>1, <2>1, <2>2, Frame DEF ProcessInv
  <2>4. NoneDown' /\ MailType' /\ MailOrder'
    BY <1>1, <2>1 DEF ProcessInv, NoneDown, MailType, MailOrder, vars
  <2> QED
    BY <1>1, <1>2, <2>1, <2>3, <2>4 DEF TxInv, ProcessInv
<1>4. ASSUME NEW p \in Pid, Begin(p) \/ Kill(p) \/ Discard(p) PROVE ProcessInv'
  BY <1>1, <1>4, BeginKeeps, KillKeeps, DiscardKeeps
<1>5. ASSUME NEW p \in Pid, ProcessStep(p) PROVE ProcessInv'
  BY <1>1, <1>5, CallKeeps, ContinueKeeps, AskNextKeeps, GetAnswerKeeps, RestartKeeps,
     GetAckKeeps, AbortKeeps, CommitKeeps DEF ProcessStep
<1>6. ASSUME NEW p \in Pid, NEW n \in LockNode, Deliver(p, n) PROVE ProcessInv'
  BY <1>1, <1>6, DeliverKeeps
<1>7. ASSUME NEW n \in LockNode, ReleaseEnded(n) \/ LockerStep(n) PROVE ProcessInv'
  BY <1>1, <1>7, ReleaseEndedKeeps, LockerStepKeeps
<1> QED
  BY <1>2, <1>3, <1>4, <1>5, <1>6, <1>7 DEF TxNext, TxInv

\* The start.
LEMMA TxStart == TxInit => TxInv
<1> SUFFICES ASSUME TxInit PROVE TxInv
  OBVIOUS
<1>1. LockInv /\ AnswerInv
  BY DEF TxInit, Init, LockInv, AnswerInv, TypeOK, NoJob, Job, LockExclusion, Tracked,
         OneAnswer, JobInv, Silent
<1>2. client \in [Pid -> Client] /\ \A p \in Pid : client[p] = Resting(0)
  <2>1. Resting(0) \in Client
    BY RestingType
  <2> QED
    BY <2>1 DEF TxInit
<1>3. MailType /\ \A p \in Pid, n \in LockNode : mail[p][n] = <<>>
  BY DEF TxInit, MailType
<1>4. \A p \in Pid, n \in LockNode : Sent(p, n) = {}
  BY <1>3 DEF Sent, Range
<1>5. MailOrder
  BY <1>3 DEF MailOrder
<1>6. /\ NoneDown /\ ended \in [LockNode -> SUBSET Tid]
      /\ \A n \in LockNode : \A t :
            ~Registered(n, t) /\ ~Waits(n, t) /\ ~Frees(n, t) /\ t \notin ended[n]
  BY DEF TxInit, Init, NoneDown, NoJob, Registered, Waits, Frees
<1>7. \A p \in Pid : client[p].pc = "idle" /\ client[p].await = {}
  BY <1>2 DEF Resting
<1>8. ASSUME NEW p \in Pid PROVE Ages(p) /\ Requests(p)
  BY <1>4, <1>6, <1>7 DEF Ages, OwnTid, MailAges, KnownAges, Requests, OnlyRequest, Awaits,
                         NotReleased, StickyAlone, InProgress
<1> QED
  BY <1>1, <1>2, <1>3, <1>5, <1>6, <1>8 DEF TxInv, ProcessInv

\* What the processes, the mailboxes and the lock managers know of each other
\* stays consistent, whatever the processes ask for and wherever they are
\* killed.
THEOREM TxInvariant == TxSpec => []TxInv
BY TxStart, TxStep, PTL DEF TxSpec

\* The state of the processes, the mailboxes and the lock managers is typed.
THEOREM TxTypes == TxSpec => []TxTypeOK
<1>1. TxInv => TxTypeOK
  BY DEF TxInv, LockInv, ProcessInv, MailType, TxTypeOK
<1> QED
  BY <1>1, TxInvariant, PTL

\* The lock managers, fed by the processes of mnesia_tm, take the steps of
\* MnesiaLocker: a process never asks a lock manager that still owes it an
\* answer, nor for a transaction older than one it has run there.
THEOREM LockersSimulated == TxSpec => Init /\ [][Next]_vars
<1>1. TxInit => Init
  BY DEF TxInit
<1> QED
  BY <1>1, TxInvariant, StepRefined, PTL DEF TxSpec

\* So what MnesiaLocker promises holds of them: no two transactions hold
\* incompatible locks, a release finds what it has to release, one request
\* gets one answer, and no waiter is forgotten.
THEOREM LockersKeepPromises == TxSpec => [](LockExclusion /\ Tracked /\ OneAnswer /\ NoLostWakeup)
<1>1. Init => WakeInv
  BY DEF Init, WakeInv, LockInv, AnswerInv, TypeOK, NoJob, Job, LockExclusion, Tracked,
         OneAnswer, JobInv, Silent, ScopeInv
<1>2. WakeInv => LockExclusion /\ Tracked /\ OneAnswer /\ NoLostWakeup
  BY DEF WakeInv, LockInv, AnswerInv, NoLostWakeup, Awaited, Busy, NoJob
<1> QED
  BY <1>1, <1>2, WakeStep, LockersSimulated, PTL

\* No answer is lost, doubled or mistaken for another.
THEOREM AnswersMatched == TxSpec => []AnswersMatch
<1>1. ASSUME TxInv PROVE AnswersMatch
  <2> SUFFICES ASSUME NEW p \in Pid, InProgress(p), NEW n \in LockNode
               PROVE  /\ n \in client[p].await <=>
                            Pending(p, n) \/ \E r \in replies[n] : r.tid = client[p].tid
                      /\ \A r \in replies[n] : r.tid = client[p].tid =>
                            (r.tag = "tid_released" <=> client[p].pc = "acks")
    BY DEF AnswersMatch
  <2> DEFINE t == client[p].tid
  <2>1. Awaits(p)
    BY <1>1 DEF TxInv, ProcessInv, Requests
  <2>2. Asked(p, n) # {} <=>
           Mailed(p, n, t, LockRequest) \/ Mailed(p, n, t, {"sync_release_tid"})
    BY DEF Asked, Mailed, LockRequest, Sent
  <2>3. n \in client[p].await <=>
           \/ Mailed(p, n, t, LockRequest) \/ Mailed(p, n, t, {"sync_release_tid"})
           \/ Waits(n, t) \/ Frees(n, t)
    BY <2>1 DEF Awaits
  <2>4. Waits(n, t) \/ Frees(n, t) <=>
           \/ \E w \in lockQueue[n] : w.tid = t
           \/ t \in job[n].ack
           \/ \E r \in replies[n] : r.tid = t
    BY DEF Waits, Frees
  <2>5. ASSUME NEW r \in replies[n], r.tid = t
        PROVE  r.tag = "tid_released" <=> client[p].pc = "acks"
    BY <2>1, <2>5 DEF Awaits, Waits, Frees
  <2> HIDE DEF t
  <2>6. n \in client[p].await <=> Pending(p, n) \/ \E r \in replies[n] : r.tid = t
    BY <2>2, <2>3, <2>4 DEF Pending, t
  <2> QED
    BY <2>5, <2>6 DEF t
<1> QED
  BY <1>1, TxInvariant, PTL

-----------------------------------------------------------------------------
(* The store of plain calls is true.                                       *)

\* The locks of t survive every release but its own.
LEMMA ReleaseKeepsHeld ==
    ASSUME LockInv, NEW n \in LockNode, NEW t \in Tid, NEW others, NEW ack,
           ReleaseLocks(n, t, others, ack)
    PROVE  \A k \in LockNode : \A h \in held[k] : k # n \/ h.tid # t => h \in held'[k]
<1> DEFINE locks == {l \in tidLocks[n] : l.tid = t}
<1>1. \A k \in LockNode : held'[k] =
         IF k = n THEN {h \in held[n] : ~Released(locks, h)} ELSE held[k]
  BY DEF ReleaseLocks, LockInv, TypeOK
<1>2. ASSUME NEW h \in held[n], Released(locks, h) PROVE h.tid = t
  <2>1. PICK l \in locks : /\ l.oid = h.oid
                           /\ \/ l.op = "write"
                              \/ l.op = "read" /\ h.op = "read" /\ h.tid = l.tid
    BY <1>2 DEF Released
  <2>2. CASE l.op = "write"
    <3>1. PICK g \in held[n] : g.oid = l.oid /\ g.op = "write" /\ g.tid = t
      BY <2>1, <2>2 DEF LockInv, Tracked
    <3> QED
      BY <2>1, <3>1 DEF LockInv, LockExclusion, Overlap
  <2>3. CASE l.op = "read" /\ h.op = "read" /\ h.tid = l.tid
    BY <2>3
  <2> QED
    BY <2>1, <2>2, <2>3
<1> QED
  BY <1>1, <1>2

\* A lock that is granted comes on top of the others.
LEMMA GrantKeepsHeld ==
    ASSUME TypeOK, NEW n \in LockNode, NEW t, NEW op, NEW oid,
           GrantLock(n, t, op, oid) \/ TryLock(n, t, op, oid)
    PROVE  \A k \in LockNode : held[k] \subseteq held'[k]
BY ZenonT(60) DEF TypeOK, GrantLock, TryLock, SetLock

\* The answers that t may get to a request for op on oid, and the waiter it
\* may become.
GoodAnswer(n, t, op, oid, r) ==
    /\ r.tid = t /\ r.tag \in {"granted", "cyclic", "no_exists"}
    /\ r.tag = "granted" => [oid |-> oid, op |-> LockOf(op), tid |-> t] \in held'[n]

\* A lock that is granted is in force when the answer is sent.
LEMMA GrantAnswers ==
    ASSUME TypeOK, NEW n \in LockNode, NEW t, NEW op, NEW oid, GrantLock(n, t, op, oid)
    PROVE  \A k \in LockNode : \A r \in replies'[k] :
              r \in replies[k] \/ (k = n /\ GoodAnswer(n, t, op, oid, r))
<1>1. CASE SetLock(n, t, oid, LockOf(op)) /\ ReplyTo(n, t, "granted", n)
  <2>1. [oid |-> oid, op |-> LockOf(op), tid |-> t] \in held'[n]
    BY <1>1 DEF SetLock, TypeOK
  <2>2. \A k \in LockNode : replies'[k] =
           IF k = n THEN replies[n] \cup {[tid |-> t, tag |-> "granted", at |-> n]}
           ELSE replies[k]
    BY <1>1, ReplyEffect
  <2> QED
    BY <2>1, <2>2 DEF GoodAnswer
<1>2. ASSUME NEW tag \in {"cyclic", "no_exists"}, ReplyTo(n, t, tag, n)
      PROVE  \A k \in LockNode : \A r \in replies'[k] :
                r \in replies[k] \/ (k = n /\ GoodAnswer(n, t, op, oid, r))
  <2>1. \A k \in LockNode : replies'[k] =
           IF k = n THEN replies[n] \cup {[tid |-> t, tag |-> tag, at |-> n]}
           ELSE replies[k]
    BY <1>2, ReplyEffect
  <2> QED
    BY <1>2, <2>1 DEF GoodAnswer
<1> QED
  BY <1>1, <1>2 DEF GrantLock

\* try_lock answers well, or queues what was asked.
LEMMA TryLockAnswers ==
    ASSUME TypeOK, NEW n \in LockNode, NEW t, NEW op, NEW oid, TryLock(n, t, op, oid)
    PROVE  /\ \A k \in LockNode : \A r \in replies'[k] :
                 r \in replies[k] \/ (k = n /\ GoodAnswer(n, t, op, oid, r))
           /\ \A k \in LockNode : \A w \in lockQueue'[k] :
                 w \in lockQueue[k] \/ (k = n /\ w = [oid |-> oid, tid |-> t, op |-> op])
<1>1. CASE GrantLock(n, t, op, oid) /\ UNCHANGED lockQueue
  BY <1>1, GrantAnswers
<1>2. CASE ReplyTo(n, t, "cyclic", n) /\ UNCHANGED lockQueue
  <2>1. \A k \in LockNode : replies'[k] =
           IF k = n THEN replies[n] \cup {[tid |-> t, tag |-> "cyclic", at |-> n]}
           ELSE replies[k]
    BY <1>2, ReplyEffect
  <2> QED
    BY <1>2, <2>1 DEF GoodAnswer
<1>3. CASE /\ lockQueue' = [lockQueue EXCEPT ![n] = @ \cup {[oid |-> oid, tid |-> t, op |-> op]}]
           /\ UNCHANGED replies
  BY <1>3 DEF TypeOK
<1> QED
  BY <1>1, <1>2, <1>3 DEF TryLock

\* A waiter is answered for what it waited for.
LEMMA TryWaiterAnswers ==
    ASSUME LockInv, AnswerInv, NEW n \in LockNode, TryWaiter(n)
    PROVE  \E w \in lockQueue[n] :
              /\ \A k \in LockNode : \A r \in replies'[k] :
                    r \in replies[k] \/ (k = n /\ GoodAnswer(n, w.tid, w.op, w.oid, r))
              /\ \A k \in LockNode : lockQueue'[k] \subseteq lockQueue[k]
              /\ \A k \in LockNode : held[k] \subseteq held'[k]
<1>1. PICK w \in job[n].try :
         \/ UNCHANGED <<held, lockQueue, replies>>
         \/ Dequeue(n, w) /\ GrantLock(n, w.tid, w.op, w.oid)
         \/ Dequeue(n, w) /\ ReplyTo(n, w.tid, "cyclic", n) /\ UNCHANGED held
  BY DEF TryWaiter
<1>2. w \in lockQueue[n] /\ TypeOK
  BY DEF AnswerInv, JobInv
<1>3. Dequeue(n, w) => \A k \in LockNode : lockQueue'[k] \subseteq lockQueue[k]
  BY <1>2, DequeueShrinks DEF QueueShrinks
<1>4. CASE Dequeue(n, w) /\ GrantLock(n, w.tid, w.op, w.oid)
  <2>1. \A k \in LockNode : \A r \in replies'[k] :
           r \in replies[k] \/ (k = n /\ GoodAnswer(n, w.tid, w.op, w.oid, r))
    BY <1>2, <1>4, GrantAnswers
  <2>2. \A k \in LockNode : held[k] \subseteq held'[k]
    BY <1>2, <1>4, GrantKeepsHeld
  <2> QED
    BY <1>2, <1>3, <1>4, <2>1, <2>2
<1>5. CASE Dequeue(n, w) /\ ReplyTo(n, w.tid, "cyclic", n) /\ UNCHANGED held
  <2>1. \A k \in LockNode : replies'[k] =
           IF k = n THEN replies[n] \cup {[tid |-> w.tid, tag |-> "cyclic", at |-> n]}
           ELSE replies[k]
    BY <1>2, <1>5, ReplyEffect
  <2>2. \A k \in LockNode : \A r \in replies'[k] :
           r \in replies[k] \/ (k = n /\ GoodAnswer(n, w.tid, w.op, w.oid, r))
    BY <2>1 DEF GoodAnswer
  <2> QED
    BY <1>2, <1>3, <1>5, <2>2
<1> QED
  BY <1>1, <1>2, <1>4, <1>5

\* The locks of a transaction in progress stay, unless it restarts.
LEMMA HeldKept ==
    ASSUME TxInv, TxNext, NEW p \in Pid, NEW t \in Tid, t = client[p].tid,
           InProgress(p), client[p].pc # "acks"
    PROVE  \A n \in LockNode : \A h \in held[n] : h.tid = t => h \in held'[n]
<1>1. LockInv /\ AnswerInv /\ TypeOK /\ NoneDown /\ ProcessInv
  BY DEF TxInv, LockInv, ProcessInv
<1>2. PidOf[t] = p /\ Awaits(p) /\ NotReleased(p)
  BY <1>1 DEF ProcessInv, Ages, OwnTid, InProgress, Requests
<1>3. \A n \in LockNode : /\ t \notin ended[n]
                          /\ ~Mailed(p, n, t, {"release_tid", "sync_release_tid"})
  BY <1>2 DEF Awaits, NotReleased, Mailed
<1>4. CASE \E q \in Pid : Begin(q) \/ ProcessStep(q) \/ Kill(q) \/ Discard(q)
  <2>1. UNCHANGED held
    BY <1>4, ZenonT(60) DEF Begin, ProcessStep, Call, Continue, AskNext, GetAnswer, RestartTransaction,
                GetAck, Abort, Commit, Kill, KilledWaiting, KilledSending, KilledRestarting,
                Exit, Discard, Take, vars
  <2> QED
    BY <2>1
<1>5. ASSUME NEW q \in Pid, NEW n \in LockNode, Deliver(q, n)
      PROVE  \A k \in LockNode : \A h \in held[k] : h.tid = t => h \in held'[k]
  <2>1. PICK m \in Message : m = Head(mail[q][n]) /\ m \in Sent(q, n)
    BY <1>1, <1>5, TakenEffect DEF ProcessInv, Deliver, Taken
  <2>2. m.tid \in Tid /\ PidOf[m.tid] = q
    BY <1>1, <2>1 DEF ProcessInv, Ages, MailAges, Message
  <2>3. m.kind \in {"release_tid", "sync_release_tid"} => m.tid # t
    BY <1>2, <1>3, <2>1, <2>2 DEF Mailed
  <2>4. CASE UNCHANGED held
    BY <2>4
  <2>5. CASE TryLock(n, m.tid, m.op, m.oid)
    BY <1>1, <2>5, GrantKeepsHeld
  <2>6. CASE /\ m.kind \in {"release_tid", "sync_release_tid"}
             /\ \E ack : ReleaseLocks(n, m.tid, {}, ack)
    <3>1. PICK ack : ReleaseLocks(n, m.tid, {}, ack)
      BY <2>6
    <3>2. \A k \in LockNode : \A h \in held[k] : k # n \/ h.tid # m.tid => h \in held'[k]
      BY <1>1, <2>2, <3>1, ReleaseKeepsHeld
    <3> QED
      BY <2>3, <2>6, <3>2
  <2> QED
    BY ZenonT(60), <1>5, <2>1, <2>4, <2>5, <2>6
       DEF Deliver, RequestLock, TestSetSticky, Stick, Unstick, ReleaseTid, SyncReleaseTid
<1>6. ASSUME NEW n \in LockNode, ReleaseEnded(n)
      PROVE  \A k \in LockNode : \A h \in held[k] : h.tid = t => h \in held'[k]
  <2>1. PICK u \in ended[n] : ReleaseTid(n, u)
    BY <1>6 DEF ReleaseEnded
  <2>2. u \in Tid /\ u # t
    BY <1>1, <1>3 DEF ProcessInv
  <2>3. \A k \in LockNode : \A h \in held[k] : k # n \/ h.tid # u => h \in held'[k]
    BY <1>1, <2>1, <2>2, ReleaseKeepsHeld DEF ReleaseTid
  <2> QED
    BY <2>2, <2>3
<1>7. ASSUME NEW n \in LockNode, LockerStep(n)
      PROVE  \A k \in LockNode : \A h \in held[k] : h.tid = t => h \in held'[k]
  <2>1. ~ReleaseNext(n)
    BY <1>1, SMTT(60) DEF ReleaseNext, NoneDown
  <2>2. TryWaiter(n) \/ UNCHANGED held
    BY <1>7, <2>1 DEF LockerStep, Loop, Rearrange, RearrangeQueue, ReleaseDone
  <2>3. CASE TryWaiter(n)
    <3>1. \A k \in LockNode : held[k] \subseteq held'[k]
      BY <1>1, <2>3, TryWaiterAnswers
    <3> QED
      BY <3>1
  <2> QED
    BY <2>2, <2>3
<1> QED
  BY <1>4, <1>5, <1>6, <1>7 DEF TxNext

\* t has asked the lock manager at n for op on oid.
AskedFor(n, t, op, oid) ==
    \/ \E m \in Sent(PidOf[t], n) : m.kind = "lock" /\ m.tid = t /\ m.op = op /\ m.oid = oid
    \/ \E w \in lockQueue[n] : w.tid = t /\ w.op = op /\ w.oid = oid

\* The lock managers do what they have been asked for.
AsAsked ==
    \A n \in LockNode :
        /\ \A tab \in Tab : stickyAt'[n][tab] = NoNode
        /\ \A w \in lockQueue'[n] : AskedFor(n, w.tid, w.op, w.oid)
        /\ \A r \in replies'[n] : r \in replies[n] \/
              /\ r.tag \in {"granted", "cyclic", "no_exists", "tid_released"}
              /\ r.tag = "granted" => \E op, oid :
                    /\ AskedFor(n, r.tid, op, oid)
                    /\ [oid |-> oid, op |-> LockOf(op), tid |-> r.tid] \in held'[n]

\* No step gives a process an answer to what it did not ask.
LEMMA StepAsAsked ==
    ASSUME TxInv, StoreInv, TxNext
    PROVE  AsAsked
<1>1. LockInv /\ AnswerInv /\ TypeOK /\ NoneDown /\ ProcessInv
  BY DEF TxInv, LockInv, ProcessInv
<1>2. \A n \in LockNode : \A tab \in Tab : stickyAt[n][tab] = NoNode
  BY DEF StoreInv, NotSticky
<1>3. \A n \in LockNode : \A w \in lockQueue[n] : AskedFor(n, w.tid, w.op, w.oid)
  BY DEF AskedFor
<1>4. CASE \E q \in Pid : Begin(q) \/ ProcessStep(q) \/ Kill(q) \/ Discard(q)
  <2>1. \/ UNCHANGED <<held, lockQueue, stickyAt, replies>>
        \/ /\ UNCHANGED <<held, lockQueue, stickyAt>>
           /\ \E n \in LockNode : \E r : replies' = [replies EXCEPT ![n] = @ \ {r}]
    <3>1. ASSUME NEW q \in Pid, GetAnswer(q) \/ GetAck(q) \/ Discard(q)
          PROVE  \E n \in LockNode : \E r \in replies[n] : Take(q, n, r)
      <4>1. client[q].await \subseteq LockNode
        BY <1>1 DEF ProcessInv, Client
      <4> QED
        BY <3>1, <4>1 DEF GetAnswer, GetAck, Discard
    <3>2. \/ UNCHANGED vars
          \/ \E q \in Pid : GetAnswer(q) \/ GetAck(q) \/ Discard(q)
      BY <1>4, ZenonT(60) DEF Begin, ProcessStep, Call, Continue, AskNext, RestartTransaction,
                  Abort, Commit, Kill, KilledWaiting, KilledSending, KilledRestarting, Exit
    <3> QED
      BY <3>1, <3>2 DEF Take, vars
  <2>2. \A n \in LockNode : replies'[n] \subseteq replies[n]
    BY <1>1, <2>1 DEF TypeOK
  <2> QED
    BY <1>2, <1>3, <2>1, <2>2 DEF AsAsked
<1>5. ASSUME NEW q \in Pid, NEW n \in LockNode, Deliver(q, n) PROVE AsAsked
  <2>1. PICK m \in Message : m = Head(mail[q][n]) /\ m \in Sent(q, n)
    BY <1>1, <1>5, TakenEffect DEF ProcessInv, Deliver, Taken
  <2>2. /\ m.tid \in Tid /\ PidOf[m.tid] = q /\ m.oid.tab \in Tab
        /\ m.kind \in {"lock", "release_tid", "sync_release_tid"}
    BY <1>1, <2>1 DEF ProcessInv, Ages, MailAges, Message, Oid, StoreInv, Store, PlainProcess
  <2>3. CASE m.kind = "lock"
    <3>1. TryLock(n, m.tid, m.op, m.oid) /\ UNCHANGED stickyAt
      BY <1>2, <1>5, <2>1, <2>2, <2>3 DEF Deliver, RequestLock
    <3>2. AskedFor(n, m.tid, m.op, m.oid)
      BY <2>1, <2>2, <2>3 DEF AskedFor
    <3>3. \A k \in LockNode : \A r \in replies'[k] :
             r \in replies[k] \/ (k = n /\ GoodAnswer(n, m.tid, m.op, m.oid, r))
      BY <1>1, <3>1, TryLockAnswers
    <3>4. \A k \in LockNode : \A w \in lockQueue'[k] :
             w \in lockQueue[k] \/ (k = n /\ w = [oid |-> m.oid, tid |-> m.tid, op |-> m.op])
      BY <1>1, <3>1, TryLockAnswers
    <3> QED
      BY <1>2, <1>3, <3>1, <3>2, <3>3, <3>4, SMTT(60) DEF AsAsked, GoodAnswer
  <2>4. CASE m.kind \in {"release_tid", "sync_release_tid"}
    <3>1. /\ UNCHANGED <<stickyAt, replies>>
          /\ \A k \in LockNode : lockQueue'[k] \subseteq lockQueue[k]
      <4>1. ReleaseTid(n, m.tid) \/ SyncReleaseTid(n, m.tid)
        BY <1>5, <2>1, <2>4 DEF Deliver
      <4>2. UNCHANGED <<stickyAt, replies>> /\ \E t, ack : ReleaseLocks(n, t, {}, ack)
        BY <4>1 DEF ReleaseTid, SyncReleaseTid
      <4>3. \A k \in LockNode : lockQueue'[k] \subseteq lockQueue[k]
        BY <1>1, <4>2 DEF ReleaseLocks, TypeOK
      <4> QED
        BY <4>2, <4>3
    <3> QED
      BY <1>2, <1>3, <3>1 DEF AsAsked
  <2> QED
    BY <2>2, <2>3, <2>4
<1>6. ASSUME NEW n \in LockNode, ReleaseEnded(n) PROVE AsAsked
  <2>1. /\ UNCHANGED <<stickyAt, replies>>
        /\ \A k \in LockNode : lockQueue'[k] \subseteq lockQueue[k]
    BY <1>1, <1>6 DEF ReleaseEnded, ReleaseTid, ReleaseLocks, TypeOK
  <2> QED
    BY <1>2, <1>3, <2>1 DEF AsAsked
<1>7. ASSUME NEW n \in LockNode, LockerStep(n) PROVE AsAsked
  <2>1. ~ReleaseNext(n)
    BY <1>1 DEF ReleaseNext, NoneDown
  <2>2. CASE RearrangeQueue(n)
    BY <1>2, <1>3, <2>2 DEF AsAsked, RearrangeQueue
  <2>3. CASE TryWaiter(n)
    <3>1. PICK w \in lockQueue[n] :
             /\ \A k \in LockNode : \A r \in replies'[k] :
                   r \in replies[k] \/ (k = n /\ GoodAnswer(n, w.tid, w.op, w.oid, r))
             /\ \A k \in LockNode : lockQueue'[k] \subseteq lockQueue[k]
      BY <1>1, <2>3, TryWaiterAnswers
    <3>2. AskedFor(n, w.tid, w.op, w.oid) /\ UNCHANGED stickyAt
      BY <1>3, <2>3 DEF TryWaiter
    <3> QED
      BY <1>2, <1>3, <3>1, <3>2 DEF AsAsked, GoodAnswer
  <2>4. CASE ReleaseDone(n)
    <3>1. /\ UNCHANGED <<stickyAt, lockQueue>>
          /\ \A k \in LockNode : \A r \in replies'[k] : r \in replies[k] \/ r.tag = "tid_released"
      BY <1>1, <2>4 DEF ReleaseDone, TypeOK
    <3> QED
      BY <1>2, <1>3, <3>1 DEF AsAsked
  <2> QED
    BY <1>7, <2>1, <2>2, <2>3, <2>4 DEF LockerStep, Loop, Rearrange
<1> QED
  BY <1>4, <1>5, <1>6, <1>7 DEF TxNext

\* The lock managers a lock concerns.
LEMMA TargetNodes ==
    ASSUME NEW p \in Pid, NEW s \in Step
    PROVE  Target(p, s) \subseteq LockNode
<1>1. s.oid.tab \in Tab
  BY DEF Step, Oid
<1> QED
  BY <1>1, ReplicaType DEF Target

\* A lock concerns nodes with a lock manager.
LEMMA LockedNodes ==
    ASSUME NEW p \in Pid, NEW l \in [oid : Oid, op : LockKind]
    PROVE  LockedAt(p, l) \subseteq LockNode
<1>1. l.oid.tab \in Tab
  BY DEF Oid
<1> QED
  BY <1>1, ReplicaType DEF LockedAt

\* A process that does nothing keeps its store, whatever the others do.
LEMMA StoreFrame ==
    ASSUME TxInv, TxNext, AsAsked, NEW q \in Pid, Store(q), client'[q] = client[q],
           \A n \in LockNode : Sent(q, n)' \subseteq Sent(q, n)
    PROVE  Store(q)'
<1>1. PlainProcess(q)'
  BY DEF Store, PlainProcess
<1>2. CASE client[q].pc \notin {"run", "wait"}
  BY <1>1, <1>2 DEF Store, SameRequest, HeldSoFar, StoreHeld
<1>3. CASE client[q].pc \in {"run", "wait"}
  <2>1. PICK t \in Tid : t = client[q].tid
    BY <1>3 DEF TxInv, ProcessInv, Ages, OwnTid
  <2>2. PidOf[t] = q /\ t = client'[q].tid
    BY <1>3, <2>1 DEF TxInv, ProcessInv, Ages, OwnTid
  <2>3. \A n \in LockNode : \A h \in held[n] : h.tid = t => h \in held'[n]
    BY <1>3, <2>1, HeldKept DEF InProgress
  <2>4. \A n \in LockNode : \A oid, op :
           [oid |-> oid, op |-> op, tid |-> t] \in held[n]
              => [oid |-> oid, op |-> op, tid |-> t] \in held'[n]
    BY <2>3
  <2>5. \A oid, op : /\ Lock(q, oid, op) = [oid |-> oid, op |-> op, tid |-> t]
                     /\ Lock(q, oid, op)' = [oid |-> oid, op |-> op, tid |-> t]
    BY <2>1, <2>2 DEF Lock
  <2>6. SameRequest(q)'
    <3>0. PICK s : s = client[q].step
      OBVIOUS
    <3>1. ASSUME client[q].pc = "wait", NEW n \in LockNode
          PROVE  /\ \A m \in Sent(q, n)' :
                       m.kind = "lock" /\ m.tid = t => m.op = OpAt(q, s, n) /\ m.oid = s.oid
                 /\ \A w \in lockQueue'[n] :
                       w.tid = t => w.op = OpAt(q, s, n) /\ w.oid = s.oid
                 /\ \A r \in replies'[n] : r.tid = t /\ r.tag = "granted"
                       => [oid |-> s.oid, op |-> LockOf(OpAt(q, s, n)), tid |-> t] \in held'[n]
      <4>1. /\ \A m \in Sent(q, n) :
                  m.kind = "lock" /\ m.tid = t => m.op = OpAt(q, s, n) /\ m.oid = s.oid
            /\ \A w \in lockQueue[n] :
                  w.tid = t => w.op = OpAt(q, s, n) /\ w.oid = s.oid
            /\ \A r \in replies[n] : r.tid = t /\ r.tag = "granted"
                  => [oid |-> s.oid, op |-> LockOf(OpAt(q, s, n)), tid |-> t] \in held[n]
        BY <2>1, <2>5, <3>0, <3>1 DEF Store, SameRequest
      <4>2. \A op, oid : AskedFor(n, t, op, oid) => op = OpAt(q, s, n) /\ oid = s.oid
        BY <2>2, <4>1 DEF AskedFor
      <4>3. /\ \A w \in lockQueue'[n] : AskedFor(n, w.tid, w.op, w.oid)
            /\ \A r \in replies'[n] : r \in replies[n] \/ (r.tag = "granted" => \E op, oid :
                  /\ AskedFor(n, r.tid, op, oid)
                  /\ [oid |-> oid, op |-> LockOf(op), tid |-> r.tid] \in held'[n])
        BY DEF AsAsked
      <4>4. \A w \in lockQueue'[n] : w.tid = t => w.op = OpAt(q, s, n) /\ w.oid = s.oid
        BY <4>2, <4>3
      <4>5. \A r \in replies'[n] : r.tid = t /\ r.tag = "granted"
               => [oid |-> s.oid, op |-> LockOf(OpAt(q, s, n)), tid |-> t] \in held'[n]
        BY <2>4, <4>1, <4>2, <4>3
      <4> QED
        BY <4>1, <4>4, <4>5
    <3> QED
      <4>1. client'[q].step = s /\ client'[q].tid = t /\ client'[q].pc = client[q].pc
        BY <2>2, <3>0
      <4> QED
        BY <3>1, <4>1 DEF SameRequest, Lock
  <2>7. HeldSoFar(q)'
    <3>1. client[q].pc = "wait" => Target(q, client[q].step) \subseteq LockNode
      BY TargetNodes DEF TxInv, ProcessInv, Requests, StickyAlone
    <3>2. ToAsk(q)' = ToAsk(q)
      BY DEF ToAsk
    <3> QED
      BY <2>4, <2>5, <3>1, <3>2 DEF Store, HeldSoFar
  <2>8. StoreHeld(q)'
    <3>1. \A l \in client[q].locks : LockedAt(q, l) \subseteq LockNode
      BY LockedNodes DEF TxInv, ProcessInv, Client
    <3>2. \A l : Asks(q, l)' <=> Asks(q, l)
      BY DEF Asks
    <3> QED
      BY <2>4, <2>5, <3>1, <3>2 DEF Store, StoreHeld
  <2> QED
    BY <1>1, <2>6, <2>7, <2>8 DEF Store
<1> QED
  BY <1>2, <1>3

\* Nothing is claimed of a process that has left its calls.
LEMMA NothingClaimed ==
    ASSUME NEW p \in Pid, PlainProcess(p)', client'[p].pc \notin {"run", "wait"}
    PROVE  Store(p)'
BY DEF Store, SameRequest, HeldSoFar, StoreHeld

\* A process without sticky calls sends plain messages only.
LEMMA PlainPosted ==
    ASSUME MailType, NEW p \in Pid, PlainProcess(p), NEW ns,
           NEW kind \in {"lock", "release_tid", "sync_release_tid"}, Posted(p, ns, kind),
           client'[p].later = <<>>, client'[p].step.call \notin Sticky
    PROVE  PlainProcess(p)'
<1>1. \A n \in LockNode : \A m \in Sent(p, n)' : m \in Sent(p, n) \/ m.kind = kind
  BY PostedEffect
<1> QED
  BY <1>1 DEF PlainProcess

\* A new run starts with an empty store.
LEMMA FreshStore ==
    ASSUME NEW p \in Pid, PlainProcess(p), UNCHANGED mail, NEW t, client'[p] = Running(p, t)
    PROVE  Store(p)'
<1>1. /\ client'[p].pc = "run" /\ client'[p].locks = {} /\ client'[p].skip = {}
      /\ client'[p].why = "none" /\ client'[p].later = <<>>
      /\ client'[p].step.call = "none"
  BY DEF Running, Resting, NoStep
<1>2. PlainProcess(p)'
  BY <1>1 DEF PlainProcess, Sent, Sticky
<1> QED
  BY <1>1, <1>2 DEF Store, SameRequest, HeldSoFar, StoreHeld

\* All the replicas concerned are still to be asked when a call begins.
LEMMA StagesReach ==
    ASSUME NEW p \in Pid, NEW s \in Step, s.call \notin Sticky \cup Cast
    PROVE  UNION Range(Stages(p, s)) = Target(p, s)
<1>1. s.oid.tab \in Tab
  BY DEF Step, Oid
<1>2. CASE s.call \in {"rlock", "ixrlock"}
  <2>1. Stages(p, s) = <<{ReadNode(p, s.oid.tab)}>>
    BY <1>2, StagesProperties
  <2>2. Range(<<{ReadNode(p, s.oid.tab)}>>) = {{ReadNode(p, s.oid.tab)}}
    BY DEF Range
  <2> QED
    BY <1>2, <2>1, <2>2 DEF Target
<1>3. CASE s.call \notin {"rlock", "ixrlock"}
  <2>1. Stages(p, s) = WriteStages(p, s.oid.tab)
    BY <1>3, StagesProperties
  <2> QED
    BY <1>1, <1>3, <2>1, WriteStagesProperties DEF Target
<1> QED
  BY <1>2, <1>3

\* The function makes a call: wlock notes its lock before it has it.
LEMMA CallKeepsStore ==
    ASSUME Plain, TxInv, NEW p \in Pid, Store(p), Call(p)
    PROVE  Store(p)'
<1>1. /\ client[p] \in Client /\ client[p].await = {} /\ client[p].pc = "run"
      /\ client[p].later = <<>> /\ client[p].why = "none" /\ client[p].skip = {}
      /\ Awaits(p) /\ InProgress(p)
  BY DEF TxInv, ProcessInv, Requests, Awaits, Call, Store, HeldSoFar, InProgress
<1>2. PICK t \in Tid : t = client[p].tid
  BY <1>1 DEF TxInv, ProcessInv, Ages, OwnTid
<1>3. [client[p] EXCEPT !.calls = @ + 1] \in Client
  <2>1. client[p].calls + 1 \in 0 .. MaxCalls
    BY <1>1, MaxCallsAssumption DEF Call, Client
  <2> QED
    BY <1>1, <2>1 DEF Client
<1>4. PICK c \in Client : c = [client[p] EXCEPT !.calls = @ + 1]
  BY <1>3
<1>5. /\ c.tid = t /\ c.await = {} /\ c.skip = {} /\ c.why = "none" /\ c.later = <<>>
      /\ c.nodes = client[p].nodes /\ c.locks = client[p].locks
  BY <1>1, <1>2, <1>4 DEF Client
<1>6. PICK s \in Calls : Start(p, s, c)
  <2>1. \E s \in Calls : Start(p, s, [client[p] EXCEPT !.calls = @ + 1])
    BY DEF Call
  <2> QED
    BY <1>4, <2>1 DEF Start, Update
<1>7. s \in Step /\ s.call \notin Sticky \cup Cast
  BY CallsAssumption DEF Step, LockCall, Cast, Plain
<1>8. PICK d \in Client : Update(p, d) /\ Started(p, s, c, d)
  BY <1>6, <1>7, StartType
<1>9. client'[p] = d /\ UNCHANGED <<vars, mail>>
  BY <1>8, UpdateEffect DEF TxInv, ProcessInv, Call
<1>10. /\ d.pc = "wait" /\ d.step = s /\ d.todo = Stages(p, s) /\ d.tid = t
       /\ d.skip = {} /\ d.later = <<>> /\ d.nodes = client[p].nodes
       /\ \A l \in d.locks : \/ l \in client[p].locks
                             \/ s.call = "wlock" /\ l = [oid |-> s.oid, op |-> "write"]
  BY <1>5, <1>8 DEF Started
<1>11. PlainProcess(p)'
  BY <1>7, <1>9, <1>10 DEF Store, PlainProcess, Sent
<1>12. \A n \in LockNode : ~Mailed(p, n, t, Request) /\ ~Waits(n, t) /\ ~Frees(n, t)
  BY <1>1, <1>2, Quiet
<1>13. SameRequest(p)'
  <2>1. ASSUME NEW n \in LockNode
        PROVE  /\ \A m \in Sent(p, n) : ~(m.kind = "lock" /\ m.tid = t)
               /\ \A w \in lockQueue[n] : w.tid # t
               /\ \A r \in replies[n] : r.tid # t
    BY <1>12 DEF Mailed, Request, LockRequest, Waits, Frees
  <2>2. \A n \in LockNode : Sent(p, n)' = Sent(p, n)
    BY <1>9 DEF Sent
  <2> QED
    BY <1>9, <1>10, <2>1, <2>2 DEF SameRequest, vars
<1>14. HeldSoFar(p)'
  <2>1. ToAsk(p)' = Target(p, s)
    BY <1>7, <1>9, <1>10, StagesReach DEF ToAsk
  <2> QED
    BY <1>9, <1>10, <2>1 DEF HeldSoFar
<1>15. StoreHeld(p)'
  <2>1. ASSUME NEW l \in d.locks
        PROVE  \/ /\ s.call = "wlock" /\ l = [oid |-> s.oid, op |-> "write"]
               \/ \A n \in LockedAt(p, l) :
                     n \in d.nodes /\ [oid |-> l.oid, op |-> l.op, tid |-> t] \in held[n]
    BY <1>1, <1>2, <1>10 DEF Store, StoreHeld, Asks, Lock
  <2> QED
    BY <1>9, <1>10, <2>1 DEF StoreHeld, Asks, Lock, vars
<1> QED
  BY <1>11, <1>13, <1>14, <1>15 DEF Store

\* The messages of a call ask for its lock.
LEMMA RequestsFit ==
    ASSUME MailType, NEW p \in Pid, client[p].tid \in Tid, client[p].step \in Step, NEW ns,
           SendRequests(p, ns)
    PROVE  \A n \in LockNode : \A m \in Sent(p, n)' :
              \/ m \in Sent(p, n)
              \/ m.op = OpAt(p, client[p].step, n) /\ m.oid = client[p].step.oid
<1> DEFINE s == client[p].step
           kind == IF s.call \in Sticky THEN "test_set_sticky" ELSE "lock"
           to == [n \in LockNode |-> Msg(p, kind, OpAt(p, s, n), s.oid)]
<1>1. ASSUME NEW n \in LockNode
      PROVE  to[n] \in Message /\ to[n].op = OpAt(p, s, n) /\ to[n].oid = s.oid
  <2>1. OpAt(p, s, n) \in Op
    BY OpAtType
  <2> QED
    BY <2>1 DEF Msg, Message, Step
<1>2. mail' = [mail EXCEPT ![p] = [n \in LockNode |->
                  IF n \in ns THEN Append(@[n], to[n]) ELSE @[n]]]
  BY DEF SendRequests, Send
<1> HIDE DEF to
<1>3. SUFFICES ASSUME NEW n \in LockNode
               PROVE  \A m \in Sent(p, n)' : m \in Sent(p, n) \/ m = to[n]
  BY <1>1
<1>4. mail[p][n] \in Seq(Message)
  BY DEF MailType
<1>5. mail'[p][n] = IF n \in ns THEN Append(mail[p][n], to[n]) ELSE mail[p][n]
  BY <1>2 DEF MailType
<1>6. Range(Append(mail[p][n], to[n])) = Range(mail[p][n]) \cup {to[n]}
  BY <1>1, <1>4, AppendRange
<1> QED
  BY <1>5, <1>6 DEF Sent

\* The lock managers that are asked are put down in the store.
LEMMA AskNextKeepsStore ==
    ASSUME TxInv, NEW p \in Pid, Store(p), AskNext(p)
    PROVE  Store(p)'
<1>1. /\ client[p] \in Client /\ client[p].await = {} /\ client[p].pc = "wait"
      /\ client[p].todo # <<>> /\ client[p].step \in Step
      /\ Awaits(p) /\ InProgress(p)
      /\ client[p].later = <<>> /\ client[p].step.call \notin Sticky
  BY DEF TxInv, ProcessInv, Requests, StickyAlone, AskNext, Sending, Store, PlainProcess,
         InProgress
<1>2. PICK t \in Tid : t = client[p].tid
  BY <1>1 DEF TxInv, ProcessInv, Ages, OwnTid
<1>3. PICK s \in Step : s = client[p].step
  BY <1>1
<1>4. PICK ns : ns = Head(client[p].todo)
  OBVIOUS
<1>5. client[p].todo \in Seq(SUBSET LockNode)
  BY <1>1 DEF Client
<1>6. /\ Tail(client[p].todo) \in Seq(SUBSET LockNode) /\ ns \in SUBSET LockNode
      /\ Range(client[p].todo) \subseteq Range(Tail(client[p].todo)) \cup {ns}
  BY <1>1, <1>4, <1>5, TailRange
<1>7. PICK d : d = [client[p] EXCEPT !.todo = Tail(@), !.await = ns, !.nodes = @ \cup ns]
  OBVIOUS
<1>8. /\ d.pc = "wait" /\ d.step = s /\ d.todo = Tail(client[p].todo) /\ d.await = ns
      /\ d.tid = t /\ d.skip = client[p].skip /\ d.why = client[p].why /\ d.later = <<>>
      /\ d.nodes = client[p].nodes \cup ns /\ d.locks = client[p].locks
  BY <1>1, <1>2, <1>3, <1>7 DEF Client
<1>9. client'[p] = d /\ UNCHANGED vars /\ SendRequests(p, ns)
  BY <1>4, <1>7 DEF AskNext, Update, TxInv, ProcessInv
<1>10. MailType
  BY DEF TxInv, ProcessInv
<1>11. Posted(p, ns, "lock")
  BY <1>1, <1>2, <1>9, <1>10, RequestsPosted
<1>12. PlainProcess(p)'
  BY <1>1, <1>3, <1>8, <1>9, <1>10, <1>11, PlainPosted DEF Store
<1>13. \A n \in LockNode : ~Mailed(p, n, t, Request) /\ ~Waits(n, t) /\ ~Frees(n, t)
  BY <1>1, <1>2, Quiet
<1>14. SameRequest(p)'
  <2>1. \A n \in LockNode : /\ \A w \in lockQueue[n] : w.tid # t
                            /\ \A r \in replies[n] : r.tid # t
    BY <1>13 DEF Waits, Frees
  <2>2. \A n \in LockNode : \A m \in Sent(p, n) : ~(m.kind = "lock" /\ m.tid = t)
    BY <1>13 DEF Mailed, Request, LockRequest
  <2>3. \A n \in LockNode : \A m \in Sent(p, n)' :
           m \in Sent(p, n) \/ (m.op = OpAt(p, s, n) /\ m.oid = s.oid)
    BY <1>1, <1>2, <1>3, <1>9, <1>10, RequestsFit
  <2> QED
    BY <1>8, <1>9, <2>1, <2>2, <2>3 DEF SameRequest, vars
<1>15. HeldSoFar(p)'
  <2>1. \A n : n \in ToAsk(p) => n \in ToAsk(p)' \/ n \in ns
    BY <1>6, <1>8, <1>9 DEF ToAsk
  <2>2. client[p].why = "none" => \A n \in Target(p, s) :
           \/ n \in ToAsk(p)
           \/ /\ n \in client[p].nodes
              /\ [oid |-> s.oid, op |-> LockOf(OpAt(p, s, n)), tid |-> t] \in held[n]
    BY <1>1, <1>2, <1>3 DEF Store, HeldSoFar, Lock
  <2>3. client[p].why = "none" => client[p].skip = {}
    BY <1>1 DEF Store, HeldSoFar
  <2> QED
    BY <1>8, <1>9, <2>1, <2>2, <2>3 DEF HeldSoFar, Lock, vars
<1>16. StoreHeld(p)'
  <2>1. ASSUME NEW l \in client[p].locks
        PROVE  \/ s.call = "wlock" /\ l = [oid |-> s.oid, op |-> "write"]
               \/ \A n \in LockedAt(p, l) :
                     /\ n \in client[p].nodes
                     /\ [oid |-> l.oid, op |-> l.op, tid |-> t] \in held[n]
    BY <1>1, <1>2, <1>3 DEF Store, StoreHeld, Asks, Lock
  <2> QED
    BY <1>8, <1>9, <2>1 DEF StoreHeld, Asks, Lock, vars
<1> QED
  BY <1>12, <1>14, <1>15, <1>16 DEF Store

\* An answer to a plain call: only a lock that is granted leaves it without
\* a reason to give up.
LEMMA PlainAnswer ==
    ASSUME NEW p \in Pid, client[p] \in Client, client[p].pc = "wait", NEW n,
           NEW r, r.tag \in {"granted", "cyclic", "no_exists"},
           client[p].why = "none" => client[p].skip = {},
           NEW c \in Answered(p, n, r)
    PROVE  /\ c.pc = "wait" /\ c.step = client[p].step /\ c.tid = client[p].tid
           /\ c.await = client[p].await \ {n} /\ c.todo = client[p].todo
           /\ c.nodes = client[p].nodes /\ c.locks = client[p].locks
           /\ c.later = client[p].later
           /\ c.why = "none" => client[p].why = "none" /\ c.skip = {} /\ r.tag = "granted"
<1> DEFINE d == [client[p] EXCEPT !.await = @ \ {n}, !.skip = @ \ {n}]
<1>1. /\ d.pc = "wait" /\ d.step = client[p].step /\ d.tid = client[p].tid
      /\ d.await = client[p].await \ {n} /\ d.todo = client[p].todo
      /\ d.nodes = client[p].nodes /\ d.locks = client[p].locks
      /\ d.later = client[p].later /\ d.why = client[p].why
      /\ d.skip = client[p].skip \ {n} /\ d \in Client
  BY DEF Client
<1>2. \/ n \in client[p].skip /\ c = d
      \/ r.tag = "granted" /\ c = [d EXCEPT !.got = d.got \/ OpAt(p, d.step, n) = "read_write"]
      \/ \E why \in {"cyclic", "no_exists"} : c = Refused(d, why)
  BY DEF Answered
<1> HIDE DEF d
<1>3. CASE n \in client[p].skip /\ c = d
  BY <1>1, <1>3
<1>4. CASE r.tag = "granted" /\ c = [d EXCEPT !.got = d.got \/ OpAt(p, d.step, n) = "read_write"]
  BY <1>1, <1>4 DEF Client
<1>5. CASE \E why \in {"cyclic", "no_exists"} : c = Refused(d, why)
  BY <1>1, <1>5 DEF Refused, Client
<1> QED
  BY <1>2, <1>3, <1>4, <1>5

\* The lock a plain call puts down in the store is the one it asked for.
LEMMA LockAskedFor ==
    ASSUME NEW p \in Pid, NEW s \in Step, s.call \notin Sticky,
           NEW l, l = [oid |-> s.oid, op |-> LockOf(OpAt(p, s, Own(p)))]
    PROVE  /\ \A n : LockOf(OpAt(p, s, n)) = l.op
           /\ LockedAt(p, l) = Target(p, s)
           /\ s.call = "wlock" => l.op = "write"
BY DEF Sticky, OpAt, LockOf, LockedAt, Target

\* With the last good answer the lock is in force at every node it concerns.
LEMMA GetAnswerKeepsStore ==
    ASSUME TxInv, NotSticky, NEW p \in Pid, Store(p), GetAnswer(p)
    PROVE  Store(p)'
<1>1. /\ client[p] \in Client /\ client[p].pc = "wait" /\ client[p].step \in Step
      /\ Ages(p) /\ Awaits(p) /\ InProgress(p)
      /\ client[p].later = <<>> /\ client[p].step.call \notin Sticky
  BY DEF TxInv, ProcessInv, GetAnswer, Requests, StickyAlone, InProgress, Store, PlainProcess
<1>2. PICK n \in LockNode : /\ n \in client[p].await
                            /\ \E r \in replies[n] : \E c \in Answered(p, n, r) :
                                  Take(p, n, r) /\ Update(p, Resumed(p, c))
  BY <1>1 DEF GetAnswer, Client
<1>3. PICK r \in replies[n] : \E c \in Answered(p, n, r) :
                                  Take(p, n, r) /\ Update(p, Resumed(p, c))
  BY <1>2
<1>4. PICK c \in Answered(p, n, r) : Take(p, n, r) /\ Update(p, Resumed(p, c))
  BY <1>3
<1>5. PICK t \in Tid : t = client[p].tid /\ t = r.tid
  BY <1>4 DEF TxInv, AnswerInv, TypeOK, Take, Reply
<1>6. PICK s \in Step : s = client[p].step
  BY <1>1
<1>7. r.tag \in {"granted", "cyclic", "no_exists"}
  <2>1. r.tag # "tid_released"
    BY <1>1, <1>5 DEF Awaits, Frees
  <2> QED
    BY <2>1 DEF NotSticky
<1>8. client[p].why = "none" => client[p].skip = {}
  BY <1>1 DEF Store, HeldSoFar
<1>9. /\ c.pc = "wait" /\ c.step = s /\ c.tid = t
      /\ c.await = client[p].await \ {n} /\ c.todo = client[p].todo
      /\ c.nodes = client[p].nodes /\ c.locks = client[p].locks /\ c.later = <<>>
      /\ c.why = "none" => client[p].why = "none" /\ c.skip = {} /\ r.tag = "granted"
  <2>1. /\ c.pc = "wait" /\ c.step = client[p].step /\ c.tid = client[p].tid
        /\ c.await = client[p].await \ {n} /\ c.todo = client[p].todo
        /\ c.nodes = client[p].nodes /\ c.locks = client[p].locks
        /\ c.later = client[p].later
        /\ c.why = "none" => client[p].why = "none" /\ c.skip = {} /\ r.tag = "granted"
    BY <1>1, <1>7, <1>8, PlainAnswer
  <2> QED
    BY <1>1, <1>5, <1>6, <2>1
<1>10. c \in Client
  BY <1>1, <1>3, AnsweredType DEF TxInv, AnswerInv, TypeOK
<1>11. /\ client'[p] = Resumed(p, c) /\ UNCHANGED <<held, lockQueue, mail>>
       /\ \A k \in LockNode : replies'[k] \subseteq replies[k]
  BY <1>4 DEF Update, TxInv, ProcessInv, Take, AnswerInv, TypeOK
<1>12. \A k \in LockNode : Sent(p, k)' = Sent(p, k)
  BY <1>11 DEF Sent
<1>13. /\ \A k \in LockNode : /\ \A m \in Sent(p, k) :
                                    m.kind = "lock" /\ m.tid = t => m.op = OpAt(p, s, k) /\ m.oid = s.oid
                              /\ \A w \in lockQueue[k] :
                                    w.tid = t => w.op = OpAt(p, s, k) /\ w.oid = s.oid
                              /\ \A a \in replies[k] : a.tid = t /\ a.tag = "granted" =>
                                    [oid |-> s.oid, op |-> LockOf(OpAt(p, s, k)), tid |-> t] \in held[k]
       /\ client[p].why = "none" => \A k \in Target(p, s) :
             \/ k \in ToAsk(p)
             \/ /\ k \in client[p].nodes
                /\ \/ k \in client[p].await
                   \/ [oid |-> s.oid, op |-> LockOf(OpAt(p, s, k)), tid |-> t] \in held[k]
       /\ \A l \in client[p].locks :
             \/ s.call = "wlock" /\ l = [oid |-> s.oid, op |-> "write"]
             \/ \A k \in LockedAt(p, l) :
                   /\ k \in client[p].nodes
                   /\ [oid |-> l.oid, op |-> l.op, tid |-> t] \in held[k]
  BY <1>1, <1>5, <1>6, ZenonT(60) DEF Store, SameRequest, HeldSoFar, StoreHeld, Asks, Lock
<1>14. c.why = "none" => \A k \in Target(p, s) :
          \/ k \in ToAsk(p)
          \/ /\ k \in c.nodes
             /\ \/ k \in c.await
                \/ [oid |-> s.oid, op |-> LockOf(OpAt(p, s, k)), tid |-> t] \in held[k]
  BY <1>5, <1>9, <1>13
<1>15. CASE c.await # {} \/ (c.todo # <<>> /\ c.why = "none")
  <2>1. client'[p] = c
    BY <1>11, <1>15 DEF Resumed
  <2>2. PlainProcess(p)'
    BY <1>1, <1>6, <1>9, <1>12, <2>1 DEF Store, PlainProcess
  <2>3. SameRequest(p)'
    BY <1>9, <1>11, <1>12, <1>13, <2>1, SMTT(60) DEF SameRequest, Lock
  <2>4. HeldSoFar(p)'
    <3>1. ToAsk(p)' = ToAsk(p)
      BY <1>9, <2>1 DEF ToAsk
    <3> QED
      BY <1>9, <1>11, <1>14, <2>1, <3>1 DEF HeldSoFar, Lock
  <2>5. StoreHeld(p)'
    BY <1>9, <1>11, <1>13, <2>1 DEF StoreHeld, Asks, Lock
  <2> QED
    BY <2>2, <2>3, <2>4, <2>5 DEF Store
<1>16. CASE c.await = {} /\ c.why # "none"
  <2>1. client'[p] = [c EXCEPT !.pc = "refused", !.todo = <<>>]
    BY <1>9, <1>11, <1>16 DEF Resumed
  <2>2. client'[p].pc = "refused" /\ client'[p].later = <<>> /\ client'[p].step = s
    BY <1>9, <1>10, <2>1 DEF Client
  <2>3. PlainProcess(p)'
    BY <1>1, <1>6, <1>12, <2>2 DEF Store, PlainProcess
  <2> QED
    BY <2>2, <2>3, NothingClaimed
<1>17. CASE c.await = {} /\ c.todo = <<>> /\ c.why = "none"
  <2>1. PICK l : l = [oid |-> s.oid, op |-> LockOf(OpAt(p, s, Own(p)))]
    OBVIOUS
  <2>2. client'[p] = [c EXCEPT !.pc = "run", !.step = NoStep, !.locks = c.locks \cup {l},
                               !.nodes = c.nodes]
    BY <1>1, <1>6, <1>9, <1>11, <1>17, <2>1 DEF Resumed
  <2>3. /\ client'[p].pc = "run" /\ client'[p].later = <<>> /\ client'[p].step = NoStep
        /\ client'[p].locks = c.locks \cup {l} /\ client'[p].nodes = c.nodes
        /\ client'[p].tid = t /\ client'[p].why = "none" /\ client'[p].skip = {}
    BY <1>9, <1>10, <1>17, <2>2 DEF Client
  <2>4. PlainProcess(p)'
    BY <1>12, <2>3 DEF Store, PlainProcess, NoStep, Sticky
  <2>5. SameRequest(p)' /\ HeldSoFar(p)'
    BY <2>3 DEF SameRequest, HeldSoFar
  <2>6. /\ \A k : LockOf(OpAt(p, s, k)) = l.op
        /\ LockedAt(p, l) = Target(p, s)
        /\ s.call = "wlock" => l.op = "write"
        /\ l.oid = s.oid
    BY <1>1, <1>6, <2>1, LockAskedFor
  <2>7. ToAsk(p) = {}
    BY <1>9, <1>17 DEF ToAsk, Range
  <2>8. \A k \in LockedAt(p, l) :
           k \in c.nodes /\ [oid |-> l.oid, op |-> l.op, tid |-> t] \in held[k]
    BY <1>14, <1>17, <2>6, <2>7
  <2>9. \A m \in c.locks : \A k \in LockedAt(p, m) :
           k \in c.nodes /\ [oid |-> m.oid, op |-> m.op, tid |-> t] \in held[k]
    <3>1. s.call = "wlock" => l = [oid |-> s.oid, op |-> "write"]
      BY <2>1, <2>6
    <3> QED
      BY <1>9, <1>13, <2>8, <3>1
  <2>10. StoreHeld(p)'
    BY <1>11, <2>3, <2>8, <2>9 DEF StoreHeld, Lock
  <2> QED
    BY <2>4, <2>5, <2>10 DEF Store
<1> QED
  BY <1>15, <1>16, <1>17

\* A process that leaves its calls forgets them.
LEMMA LeavingPosts ==
    ASSUME ProcessInv, NEW p \in Pid, PlainProcess(p),
           RestartTransaction(p) \/ Abort(p) \/ Commit(p) \/ Kill(p)
    PROVE  /\ client'[p].pc \in {"idle", "acks", "dead"}
           /\ client'[p].later = <<>> /\ client'[p].step = NoStep
           /\ \E ns : \E kind \in {"lock", "release_tid", "sync_release_tid"} :
                 Posted(p, ns, kind)
<1>1. client[p] \in Client /\ MailType /\ Requests(p)
  BY DEF ProcessInv
<1>2. InProgress(p) /\ client[p].tid \in Tid
  BY DEF ProcessInv, Ages, OwnTid, InProgress, RestartTransaction, Abort, Commit, Kill,
         KilledWaiting, KilledSending, KilledRestarting, Sending
<1>3. PICK t \in Tid : t = client[p].tid
  BY <1>2
<1>4. PICK ns : ns = client[p].nodes
  OBVIOUS
<1>5. CASE RestartTransaction(p)
  <2>1. SendBare(p, ns, "sync_release_tid")
    BY <1>4, <1>5 DEF RestartTransaction, SendBare
  <2>2. client'[p] = [Running(p, t) EXCEPT !.pc = "acks", !.await = ns]
    BY <1>3, <1>4, <1>5 DEF RestartTransaction, Update, ProcessInv
  <2>3. client'[p].pc = "acks" /\ client'[p].later = <<>> /\ client'[p].step = NoStep
    BY <2>2 DEF Running, Resting
  <2> QED
    BY <1>1, <1>2, <2>1, <2>3, BarePosted
<1>6. CASE Abort(p)
  <2>1. SendBare(p, ns, "release_tid")
    BY <1>4, <1>6 DEF Abort, SendBare
  <2>2. client'[p] = Resting(t)
    BY <1>3, <1>6 DEF Abort, Update, ProcessInv
  <2> QED
    BY <1>1, <1>2, <2>1, <2>2, BarePosted DEF Resting
<1>7. CASE Commit(p)
  <2>1. SendBare(p, {Own(p)}, "release_tid")
    BY <1>7 DEF Commit, SendBare
  <2>2. client'[p] = Resting(t)
    BY <1>3, <1>7 DEF Commit, Update, ProcessInv
  <2> QED
    BY <1>1, <1>2, <2>1, <2>2, BarePosted DEF Resting
<1>8. CASE Kill(p)
  <2>1. client'[p] = [Resting(t) EXCEPT !.pc = "dead"]
    BY <1>3, <1>8 DEF Kill, KilledWaiting, KilledSending, KilledRestarting, Exit, Update, ProcessInv
  <2>2. client'[p].pc = "dead" /\ client'[p].later = <<>> /\ client'[p].step = NoStep
    BY <2>1 DEF Resting
  <2>3. CASE KilledWaiting(p)
    BY <1>1, <2>2, <2>3, NothingPosted DEF KilledWaiting
  <2>4. CASE KilledSending(p)
    <3>1. PICK ms : SendRequests(p, ms)
      BY <2>4 DEF KilledSending
    <3>2. client[p].step \in Step /\ client[p].step.call \notin Sticky
      BY <1>1, <2>4 DEF KilledSending, Sending, Requests, StickyAlone, PlainProcess
    <3> QED
      BY <1>1, <1>2, <2>2, <3>1, <3>2, RequestsPosted
  <2>5. CASE KilledRestarting(p)
    <3>1. \E ms : SendBare(p, ms, "sync_release_tid")
      BY <2>5 DEF KilledRestarting, SendBare
    <3> QED
      BY <1>1, <1>2, <2>2, <3>1, BarePosted
  <2> QED
    BY <1>8, <2>3, <2>4, <2>5 DEF Kill
<1> QED
  BY <1>5, <1>6, <1>7, <1>8

\* The steps of a process keep its store true.
LEMMA ProcessKeepsStore ==
    ASSUME Plain, TxInv, StoreInv, NEW p \in Pid,
           Begin(p) \/ ProcessStep(p) \/ Kill(p)
    PROVE  Store(p)'
<1>1. Store(p) /\ PlainProcess(p) /\ NotSticky /\ ProcessInv /\ MailType
  BY DEF StoreInv, Store, TxInv, ProcessInv
<1>2. CASE Begin(p)
  <2>1. PICK t \in Tid : Update(p, Running(p, t))
    BY <1>2 DEF Begin
  <2>2. client'[p] = Running(p, t) /\ UNCHANGED mail
    BY <1>1, <1>2, <2>1 DEF Begin, Update, ProcessInv
  <2> QED
    BY <1>1, <2>2, FreshStore
<1>3. CASE GetAck(p)
  <2>0. \E n \in LockNode : \E r \in replies[n] :
           /\ Take(p, n, r)
           /\ Update(p, IF client[p].await = {n} THEN Running(p, client[p].tid)
                        ELSE [client[p] EXCEPT !.await = @ \ {n}])
    BY <1>1, <1>3 DEF GetAck, ProcessInv, Client
  <2>1. PICK n \in LockNode :
           /\ UNCHANGED mail
           /\ Update(p, IF client[p].await = {n} THEN Running(p, client[p].tid)
                        ELSE [client[p] EXCEPT !.await = @ \ {n}])
    BY <2>0 DEF Take
  <2>2. PICK t : t = client[p].tid
    OBVIOUS
  <2>3. CASE client[p].await = {n}
    <3>1. client'[p] = Running(p, t)
      BY <1>1, <2>1, <2>2, <2>3 DEF Update, ProcessInv
    <3> QED
      BY <1>1, <2>1, <3>1, FreshStore
  <2>4. CASE client[p].await # {n}
    <3>1. /\ client[p] \in Client /\ client[p].pc = "acks"
          /\ client'[p] = [client[p] EXCEPT !.await = @ \ {n}]
      BY <1>1, <1>3, <2>1, <2>4 DEF GetAck, Update, ProcessInv
    <3>2. /\ client'[p].pc = "acks" /\ client'[p].later = client[p].later
          /\ client'[p].step = client[p].step
      BY <3>1 DEF Client
    <3>3. PlainProcess(p)'
      BY <1>1, <2>1, <3>2 DEF PlainProcess, Sent
    <3> QED
      BY <3>2, <3>3, NothingClaimed
  <2> QED
    BY <2>3, <2>4
<1>4. CASE RestartTransaction(p) \/ Abort(p) \/ Commit(p) \/ Kill(p)
  <2>1. PICK ns : \E kind \in {"lock", "release_tid", "sync_release_tid"} : Posted(p, ns, kind)
    BY <1>1, <1>4, LeavingPosts
  <2>2. PICK kind \in {"lock", "release_tid", "sync_release_tid"} : Posted(p, ns, kind)
    BY <2>1
  <2>3. /\ client'[p].pc \in {"idle", "acks", "dead"}
        /\ client'[p].later = <<>> /\ client'[p].step.call \notin Sticky
    BY <1>1, <1>4, LeavingPosts DEF NoStep, Sticky
  <2>4. PlainProcess(p)'
    BY <1>1, <2>2, <2>3, PlainPosted
  <2> QED
    BY <2>3, <2>4, NothingClaimed
<1>5. ~Continue(p)
  BY <1>1 DEF Continue, PlainProcess
<1> QED
  BY <1>1, <1>2, <1>3, <1>4, <1>5, CallKeepsStore, AskNextKeepsStore, GetAnswerKeepsStore
     DEF ProcessStep

\* A step of one process changes nobody else's record or mail.
LEMMA OthersUntouched ==
    ASSUME TxInv, NEW p \in Pid, Begin(p) \/ ProcessStep(p) \/ Kill(p) \/ Discard(p)
    PROVE  \A q \in Pid : q # p =>
              client'[q] = client[q] /\ \A n \in LockNode : Sent(q, n)' = Sent(q, n)
<1>1. client \in [Pid -> Client] /\ MailType
  BY SMTT(60) DEF TxInv, ProcessInv
<1>2. \A q \in Pid : q # p => client'[q] = client[q]
  BY <1>1, ZenonT(60) DEF Begin, ProcessStep, Call, Start, Continue, AskNext, GetAnswer, RestartTransaction,
              GetAck, Abort, Commit, Kill, KilledWaiting, KilledSending, KilledRestarting,
              Exit, Discard, Update
<1>3. UNCHANGED mail \/ \E f : mail' = [mail EXCEPT ![p] = f]
  BY DEF Begin, ProcessStep, Call, Continue, AskNext, GetAnswer, RestartTransaction,
         GetAck, Abort, Commit, Kill, KilledWaiting, KilledSending, KilledRestarting,
         Discard, Take, Send, SendRequests
<1>4. \A q \in Pid : q # p => mail'[q] = mail[q]
  BY <1>1, <1>3 DEF MailType
<1> QED
  BY <1>2, <1>4 DEF Sent

\* Without sticky calls every step keeps what the stores claim true: the locks
\* they list are in force at all the replicas these concern.
THEOREM StoreStep == Plain /\ TxInv /\ StoreInv /\ [TxNext]_txVars => StoreInv'
<1> SUFFICES ASSUME Plain, TxInv, StoreInv, [TxNext]_txVars PROVE StoreInv'
  OBVIOUS
<1>1. CASE UNCHANGED txVars
  BY <1>1, SMTT(60) DEF txVars, vars, StoreInv, NotSticky, Store, PlainProcess, SameRequest, HeldSoFar,
              ToAsk, StoreHeld, Asks, Lock, Sent
<1>2. CASE TxNext
  <2>1. AsAsked
    BY <1>2, StepAsAsked
  <2>2. NotSticky'
    BY <2>1 DEF AsAsked, StoreInv, NotSticky
  <2>3. \A q \in Pid : Store(q)
    BY DEF StoreInv
  <2>4. ASSUME NEW p \in Pid, Begin(p) \/ ProcessStep(p) \/ Kill(p) PROVE StoreInv'
    <3>1. Store(p)'
      BY <2>4, ProcessKeepsStore
    <3>2. \A q \in Pid : q # p =>
             client'[q] = client[q] /\ \A n \in LockNode : Sent(q, n)' = Sent(q, n)
      BY <2>4, OthersUntouched
    <3>3. \A q \in Pid : q # p => Store(q)'
      BY <1>2, <2>1, <2>3, <3>2, StoreFrame
    <3> QED
      BY <2>2, <3>1, <3>3 DEF StoreInv
  <2>5. CASE /\ UNCHANGED client
             /\ \A q \in Pid, n \in LockNode : Sent(q, n)' \subseteq Sent(q, n)
    <3>1. \A q \in Pid : Store(q)'
      BY <1>2, <2>1, <2>3, <2>5, StoreFrame
    <3> QED
      BY <2>2, <3>1 DEF StoreInv
  <2>6. ASSUME NEW p \in Pid, NEW n \in LockNode, Deliver(p, n) PROVE StoreInv'
    <3>1. Taken(p, n) /\ UNCHANGED client
      BY <2>6 DEF Deliver, Taken
    <3>2. \A q \in Pid, k \in LockNode : Sent(q, k)' \subseteq Sent(q, k)
      BY <3>1, TakenEffect DEF TxInv, ProcessInv
    <3> QED
      BY <2>5, <3>1, <3>2
  <2>7. ASSUME UNCHANGED <<client, mail>> PROVE StoreInv'
    BY <2>5, <2>7 DEF Sent
  <2>8. ASSUME NEW p \in Pid, Discard(p) PROVE StoreInv'
    BY <2>7, <2>8 DEF Discard, Take
  <2> QED
    BY <1>2, <2>4, <2>6, <2>7, <2>8 DEF TxNext, ReleaseEnded, LockerStep
<1> QED
  BY <1>1, <1>2

\* At the start the stores are empty.
LEMMA StoreStart == TxInit => StoreInv
<1> SUFFICES ASSUME TxInit PROVE StoreInv
  OBVIOUS
<1>1. \A p \in Pid : client[p] = Resting(0)
  BY DEF TxInit
<1>2. \A p \in Pid, n \in LockNode : Sent(p, n) = {}
  BY DEF TxInit, Sent, Range
<1>3. NotSticky
  BY DEF TxInit, Init, NotSticky
<1>4. ASSUME NEW p \in Pid PROVE Store(p)
  BY <1>1, <1>2 DEF Resting, NoStep, Sticky, Store, PlainProcess, SameRequest, HeldSoFar, StoreHeld
<1> QED
  BY <1>3, <1>4 DEF StoreInv

\* Without sticky locks a process and the lock managers agree on its store: it
\* asks everywhere for the lock of its call, and holds what it puts down.
THEOREM StoreInvariant == ASSUME Plain PROVE TxSpec => []StoreInv
<1>1. TxInv /\ StoreInv /\ [TxNext]_txVars => StoreInv'
  BY StoreStep
<1> QED
  BY <1>1, StoreStart, TxInvariant, PTL DEF TxSpec

\* A lock that is acquired is in the store, and not the one wlock asks for.
LEMMA AcquiredInForce ==
    ASSUME TxInv, StoreInv, NEW p \in Pid, NEW l \in Acquired(p)
    PROVE  /\ client[p].tid \in Tid /\ PidOf[client[p].tid] = p
           /\ l \in [oid : Oid, op : LockKind]
           /\ LockedAt(p, l) \subseteq LockNode
           /\ \A n \in LockedAt(p, l) :
                 /\ n \in client[p].nodes
                 /\ [oid |-> l.oid, op |-> l.op, tid |-> client[p].tid] \in held[n]
<1>1. /\ client[p].pc \in {"run", "wait"} /\ l \in client[p].locks
      /\ client[p].pc = "run" \/ l.oid # client[p].step.oid
  BY DEF Acquired
<1>2. client[p] \in Client /\ Ages(p) /\ StoreHeld(p)
  BY DEF TxInv, ProcessInv, StoreInv, Store
<1>3. l \in [oid : Oid, op : LockKind]
  BY <1>1, <1>2 DEF Client
<1>4. ~Asks(p, l)
  BY <1>1 DEF Asks
<1> QED
  BY <1>1, <1>2, <1>3, <1>4, LockedNodes DEF Ages, OwnTid, StoreHeld, Lock

\* Without sticky locks, what the store of a transaction says is true: each
\* lock in it is in force at every replica it concerns, and every lock manager
\* asked is noted down to be told of the end.
THEOREM StoreIsTrue == ASSUME Plain PROVE TxSpec => []StoresTrue
<1>1. TxInv => TxTypeOK
  BY DEF TxInv, LockInv, ProcessInv, MailType, TxTypeOK
<1>2. TxInv /\ StoreInv => AcquiredIsHeld
  BY AcquiredInForce DEF AcquiredIsHeld
<1> QED
  BY <1>1, <1>2, TxInvariant, StoreInvariant, PTL DEF StoresTrue

\* Without sticky locks two transactions never work under incompatible locks:
\* whoever reads does so at a replica that every writer has locked.
THEOREM Isolated == ASSUME Plain PROVE TxSpec => []Isolation
<1>1. ASSUME TxInv, StoreInv PROVE Isolation
  <2> SUFFICES ASSUME NEW p \in Pid, NEW q \in Pid, p # q,
                      NEW l \in Acquired(p), NEW m \in Acquired(q),
                      Overlap(l.oid, m.oid), "write" \in {l.op, m.op}
               PROVE  FALSE
    BY DEF Isolation
  <2>1. /\ PidOf[client[p].tid] = p /\ l \in [oid : Oid, op : LockKind]
        /\ LockedAt(p, l) \subseteq LockNode
        /\ \A n \in LockedAt(p, l) :
              [oid |-> l.oid, op |-> l.op, tid |-> client[p].tid] \in held[n]
    BY <1>1, AcquiredInForce
  <2>2. /\ PidOf[client[q].tid] = q /\ m \in [oid : Oid, op : LockKind]
        /\ LockedAt(q, m) \subseteq LockNode
        /\ \A n \in LockedAt(q, m) :
              [oid |-> m.oid, op |-> m.op, tid |-> client[q].tid] \in held[n]
    BY <1>1, AcquiredInForce
  <2>3. l.oid.tab = m.oid.tab /\ l.oid.tab \in Tab
    BY <2>1 DEF Overlap, Oid
  <2>4. \E n \in LockNode : n \in LockedAt(p, l) /\ n \in LockedAt(q, m)
    <3>1. Own(p) \in Node /\ Own(q) \in Node
      BY ReplicaType, MnesiaAssumption, <2>3
    <3>2. \A a, b \in Node :
             WhereToRead[l.oid.tab][a] \in Range(WhereToWrite[l.oid.tab][b])
      BY <2>3, ReplicaAssumption DEF Range
    <3>3. /\ ReadNode(p, l.oid.tab) \in WNodes(p, l.oid.tab)
          /\ ReadNode(p, l.oid.tab) \in WNodes(q, l.oid.tab)
          /\ ReadNode(q, l.oid.tab) \in WNodes(p, l.oid.tab)
      BY <3>1, <3>2 DEF ReadNode, WNodes
    <3>4. \/ ReadNode(p, l.oid.tab) \in LockedAt(p, l) \cap LockedAt(q, m)
          \/ ReadNode(q, l.oid.tab) \in LockedAt(p, l) \cap LockedAt(q, m)
      BY <2>3, <3>3 DEF LockedAt
    <3> QED
      BY <2>1, <3>4
  <2>5. PICK n \in LockNode : n \in LockedAt(p, l) /\ n \in LockedAt(q, m)
    BY <2>4
  <2>6. client[p].tid = client[q].tid
    <3> DEFINE g == [oid |-> l.oid, op |-> l.op, tid |-> client[p].tid]
               h == [oid |-> m.oid, op |-> m.op, tid |-> client[q].tid]
    <3>1. g \in held[n] /\ h \in held[n]
      BY <2>1, <2>2, <2>5
    <3>2. LockExclusion
      BY <1>1 DEF TxInv, LockInv
    <3> QED
      BY <3>1, <3>2 DEF LockExclusion
  <2> QED
    BY <2>1, <2>2, <2>6
<1> QED
  BY <1>1, TxInvariant, StoreInvariant, PTL

-----------------------------------------------------------------------------
(* Nothing is left behind.                                                 *)

\* What a process sends at the end of a transaction follows its requests.
LEMMA PostedFollows ==
    ASSUME MailType, NEW p \in Pid, NEW ns, NEW kind, Posted(p, ns, kind),
           NEW q \in Pid, NEW n \in LockNode, NEW i \in DOMAIN mail'[q][n]
    PROVE  \/ /\ i \in DOMAIN mail[q][n] /\ mail'[q][n][i] = mail[q][n][i]
              /\ FollowedBy(q, n, i) => FollowedBy(q, n, i)'
              /\ (/\ q = p /\ n \in ns /\ kind \in Release
                  /\ mail[q][n][i].tid = client[p].tid) => FollowedBy(q, n, i)'
           \/ /\ q = p /\ n \in ns
              /\ mail'[q][n][i].tid = client[p].tid /\ mail'[q][n][i].kind = kind
<1>1. CASE ~(q = p /\ n \in ns)
  <2>1. mail'[q][n] = mail[q][n]
    BY <1>1 DEF Posted
  <2> QED
    BY <1>1, <2>1 DEF FollowedBy
<1>2. CASE q = p /\ n \in ns
  <2>1. PICK m \in Message : /\ m.tid = client[p].tid /\ m.kind = kind
                             /\ mail'[p][n] = Append(mail[p][n], m)
    BY <1>2 DEF Posted
  <2>2. mail[p][n] \in Seq(Message)
    BY DEF MailType
  <2>3. /\ DOMAIN mail[p][n] = 1 .. Len(mail[p][n]) /\ Len(mail[p][n]) \in Nat
        /\ DOMAIN mail'[p][n] = 1 .. Len(mail[p][n]) + 1
        /\ \A k \in 1 .. Len(mail[p][n]) : mail'[p][n][k] = mail[p][n][k]
        /\ mail'[p][n][Len(mail[p][n]) + 1] = m
    BY <2>1, <2>2, AppendRange
  <2>4. PICK last \in Nat : last = Len(mail[p][n])
    BY <2>3
  <2>5. CASE i = last + 1
    BY <1>2, <2>1, <2>3, <2>4, <2>5
  <2>6. CASE i # last + 1
    <3>1. i \in 1 .. last
      BY <1>2, <2>3, <2>4, <2>6
    <3>2. mail'[q][n][i] = mail[q][n][i]
      BY <1>2, <2>3, <2>4, <3>1
    <3>3. ASSUME FollowedBy(q, n, i) PROVE FollowedBy(q, n, i)'
      <4>1. PICK j \in DOMAIN mail[p][n] :
               i < j /\ mail[p][n][j].tid = mail[p][n][i].tid /\ mail[p][n][j].kind \in Release
        BY <1>2, <3>3 DEF FollowedBy
      <4>2. j \in 1 .. last + 1 /\ mail'[p][n][j] = mail[p][n][j]
        BY <2>3, <2>4, <4>1
      <4> QED
        BY <1>2, <2>3, <2>4, <3>2, <4>1, <4>2 DEF FollowedBy
    <3>4. ASSUME kind \in Release, mail[q][n][i].tid = client[p].tid
          PROVE  FollowedBy(q, n, i)'
      <4>1. last + 1 \in 1 .. last + 1 /\ i < last + 1
        BY <3>1
      <4> QED
        BY <1>2, <2>1, <2>3, <2>4, <3>2, <3>4, <4>1 DEF FollowedBy
    <3>5. i \in DOMAIN mail[q][n]
      BY <1>2, <2>3, <2>4, <3>1
    <3> QED
      BY <3>2, <3>3, <3>4, <3>5
  <2> QED
    BY <2>5, <2>6
<1> QED
  BY <1>1, <1>2

\* A process may only forget a lock manager when its release is under way,
\* and asks none it does not know.
LEMMA FollowFrame ==
    ASSUME TxInv, FollowInv, NEW p \in Pid, UNCHANGED tidLocks,
           NEW ns, NEW kind, Posted(p, ns, kind),
           \A q \in Pid : q # p => client'[q] = client[q],
           \A n \in LockNode : ended[n] \subseteq ended'[n],
           \A n \in LockNode : \A t \in Tid : Alive(p, t, n) =>
              Alive(p, t, n)' \/ t \in ended'[n] \/ (n \in ns /\ kind \in Release),
           kind \in LockRequest => \A n \in LockNode : \A t \in Tid :
              n \in ns /\ t = client[p].tid => Alive(p, t, n)',
           Cleared(p)'
    PROVE  FollowInv'
<1>1. MailType /\ ProcessInv /\ LocksFollowed /\ RequestsFollowed
  BY DEF TxInv, ProcessInv, FollowInv
<1>2. /\ MailType'
      /\ \A q \in Pid, n \in LockNode : Sent(q, n) \subseteq Sent(q, n)'
      /\ \A n \in LockNode : n \in ns =>
            \E m \in Sent(p, n)' : m.tid = client[p].tid /\ m.kind = kind
  BY <1>1, PostedEffect
<1>3. \A q \in Pid : q # p => \A t, n : Alive(q, t, n) => Alive(q, t, n)'
  BY DEF Alive, InProgress
<1>4. LocksFollowed'
  <2> SUFFICES ASSUME NEW n \in LockNode, NEW t \in Tid, Registered(n, t)'
               PROVE  Alive(PidOf[t], t, n)' \/ t \in ended'[n] \/ Mailed(PidOf[t], n, t, Release)'
    BY DEF LocksFollowed
  <2>1. Registered(n, t) /\ PidOf[t] \in Pid
    BY PidAssumption DEF Registered
  <2>2. PICK q \in Pid : q = PidOf[t]
    BY <2>1
  <2>3. Mailed(q, n, t, Release) => Mailed(q, n, t, Release)'
    BY <1>2 DEF Mailed
  <2>4. q = p /\ Alive(p, t, n) /\ n \in ns /\ kind \in Release => Mailed(q, n, t, Release)'
    BY <1>2 DEF Mailed, Alive
  <2>5. Alive(q, t, n) \/ t \in ended[n] \/ Mailed(q, n, t, Release)
    BY <1>1, <2>1, <2>2 DEF LocksFollowed
  <2>6. Alive(q, t, n)' \/ t \in ended'[n] \/ Mailed(q, n, t, Release)'
    BY <1>3, <2>3, <2>4, <2>5
  <2> QED
    BY <2>2, <2>6
<1>5. RequestsFollowed'
  <2> SUFFICES ASSUME NEW q \in Pid, NEW n \in LockNode, NEW i \in DOMAIN mail'[q][n],
                      mail'[q][n][i].kind \in LockRequest
               PROVE  \/ Alive(q, mail[q][n][i].tid, n)'
                      \/ mail'[q][n][i].tid \in ended'[n]
                      \/ FollowedBy(q, n, i)'
    BY DEF RequestsFollowed
  <2>1. mail'[q][n] \in Seq(Message)
    BY <1>2 DEF MailType
  <2>2. PICK t \in Tid : t = mail'[q][n][i].tid
    <3>1. i \in 1 .. Len(mail'[q][n])
      BY <2>1, LenProperties
    <3>2. mail'[q][n][i] \in Message
      BY <2>1, <3>1, ElementOfSeq
    <3> QED
      BY <3>2 DEF Message
  <2>3. Alive(q, t, n)' \/ t \in ended'[n] \/ FollowedBy(q, n, i)'
    <3>1. \/ /\ i \in DOMAIN mail[q][n] /\ mail'[q][n][i] = mail[q][n][i]
             /\ FollowedBy(q, n, i) => FollowedBy(q, n, i)'
             /\ (/\ q = p /\ n \in ns /\ kind \in Release
                 /\ mail[q][n][i].tid = client[p].tid) => FollowedBy(q, n, i)'
          \/ /\ q = p /\ n \in ns
             /\ mail'[q][n][i].tid = client[p].tid /\ mail'[q][n][i].kind = kind
      BY <1>1, PostedFollows
    <3>2. CASE q = p /\ n \in ns /\ t = client[p].tid /\ kind \in LockRequest
      BY <3>2
    <3>3. CASE /\ i \in DOMAIN mail[q][n] /\ mail[q][n][i].tid = t
               /\ mail[q][n][i].kind \in LockRequest
               /\ FollowedBy(q, n, i) => FollowedBy(q, n, i)'
               /\ (q = p /\ n \in ns /\ kind \in Release /\ t = client[p].tid)
                     => FollowedBy(q, n, i)'
      <4>1. Alive(q, t, n) \/ t \in ended[n] \/ FollowedBy(q, n, i)
        BY <1>1, <3>3 DEF RequestsFollowed
      <4>2. q = p /\ Alive(p, t, n) /\ n \in ns /\ kind \in Release => FollowedBy(q, n, i)'
        BY <3>3 DEF Alive
      <4> QED
        BY <1>3, <3>3, <4>1, <4>2
    <3> QED
      BY <2>2, <3>1, <3>2, <3>3
  <2> QED
    BY <2>2, <2>3
<1>6. \A q \in Pid : Cleared(q)'
  BY DEF FollowInv, Cleared
<1> QED
  BY <1>4, <1>5, <1>6 DEF FollowInv

\* A process that goes on with its transaction forgets no lock manager.
LEMMA GoesOn ==
    ASSUME TxInv, FollowInv, NEW p \in Pid, UNCHANGED <<tidLocks, ended>>,
           NEW ns, NEW kind, Posted(p, ns, kind),
           NEW c \in Client, Update(p, c),
           c.tid = client[p].tid, client[p].nodes \subseteq c.nodes,
           c.pc \notin {"idle", "dead"}, c.pc = "acks" => c.nodes = {Own(p)},
           kind \in LockRequest => ns \subseteq c.nodes
    PROVE  FollowInv'
<1>1. client \in [Pid -> Client]
  BY DEF TxInv, ProcessInv
<1>2. /\ client'[p] = c
      /\ \A q \in Pid : q # p => client'[q] = client[q]
  BY <1>1, UpdateEffect
<1>3. \A n \in LockNode : \A t \in Tid : t = client[p].tid /\ n \in c.nodes => Alive(p, t, n)'
  BY <1>2 DEF Alive, InProgress
<1>4. \A n \in LockNode : \A t \in Tid : Alive(p, t, n) => Alive(p, t, n)'
  BY <1>3 DEF Alive
<1>5. kind \in LockRequest => \A n \in LockNode : \A t \in Tid :
         n \in ns /\ t = client[p].tid => Alive(p, t, n)'
  BY <1>3
<1>6. Cleared(p)'
  BY <1>2 DEF Cleared
<1>7. \A n \in LockNode : ended[n] \subseteq ended'[n]
  OBVIOUS
<1> QED
  BY <1>2, <1>4, <1>5, <1>6, <1>7, FollowFrame

\* A transaction starts with its own node in the store.
LEMMA BeginFollows ==
    ASSUME TxInv, FollowInv, NEW p \in Pid, Begin(p)
    PROVE  FollowInv'
<1>1. client[p].pc = "idle" /\ UNCHANGED <<tidLocks, mail, ended>> /\ MailType
      /\ client \in [Pid -> Client]
  BY DEF Begin, vars, TxInv, ProcessInv
<1>2. Posted(p, {}, "release_tid")
  BY <1>1, NothingPosted
<1>3. PICK t \in Tid : Update(p, Running(p, t))
  BY DEF Begin
<1>4. PICK c \in Client : c = Running(p, t)
  BY RunningType
<1>5. c.pc = "run"
  BY <1>4 DEF Running, Resting
<1>6. /\ client'[p] = c
      /\ \A q \in Pid : q # p => client'[q] = client[q]
  BY <1>1, <1>3, <1>4, UpdateEffect
<1>7. \A n \in LockNode : \A u \in Tid : ~Alive(p, u, n)
  BY <1>1 DEF Alive, InProgress
<1>8. Cleared(p)'
  BY <1>5, <1>6 DEF Cleared
<1>9. "release_tid" \notin LockRequest
  BY DEF LockRequest
<1> QED
  BY <1>1, <1>2, <1>6, <1>7, <1>8, <1>9, FollowFrame

\* The function makes a call.
LEMMA CallFollows ==
    ASSUME TxInv, FollowInv, NEW p \in Pid, Call(p)
    PROVE  FollowInv'
<1>1. client[p] \in Client /\ MailType /\ UNCHANGED <<tidLocks, mail, ended>>
  BY DEF TxInv, ProcessInv, Call, vars
<1>2. client[p].calls + 1 \in 0 .. MaxCalls
  BY <1>1, MaxCallsAssumption DEF Call, Client
<1>3. PICK c \in Client : c = [client[p] EXCEPT !.calls = @ + 1]
  BY <1>1, <1>2 DEF Client
<1>4. c.tid = client[p].tid /\ c.nodes = client[p].nodes
  BY <1>1, <1>3 DEF Client
<1>5. PICK s \in Calls : Start(p, s, c)
  <2>1. \E s \in Calls : Start(p, s, [client[p] EXCEPT !.calls = @ + 1])
    BY DEF Call
  <2> QED
    BY <1>3, <2>1 DEF Start, Update
<1>6. s \in Step /\ s.call \notin Cast
  BY CallsAssumption DEF Step, LockCall, Cast
<1>7. PICK d \in Client : Update(p, d) /\ Started(p, s, c, d)
  BY <1>5, <1>6, StartType
<1>8. d.tid = client[p].tid /\ d.nodes = client[p].nodes /\ d.pc = "wait"
  BY <1>4, <1>7 DEF Started
<1>9. Posted(p, {}, "release_tid")
  BY <1>1, NothingPosted
<1> QED
  BY <1>1, <1>7, <1>8, <1>9, GoesOn DEF LockRequest

\* A sticky call goes on.
LEMMA ContinueFollows ==
    ASSUME TxInv, FollowInv, NEW p \in Pid, Continue(p)
    PROVE  FollowInv'
<1>1. /\ client[p] \in Client /\ client[p].pc = "run"
      /\ MailType /\ client[p].later # <<>> /\ UNCHANGED <<tidLocks, ended>>
  BY DEF TxInv, ProcessInv, Continue, vars
<1>2. client[p].tid \in Tid
  BY <1>1 DEF TxInv, ProcessInv, Ages, OwnTid
<1>3. PICK s \in Step : s = Head(client[p].later)
  BY <1>1 DEF Client
<1>4. PICK c \in Client : c = [client[p] EXCEPT !.later = Tail(@)]
  <2>1. Tail(client[p].later) \in Seq(Step)
    BY <1>1, TailRange DEF Client
  <2>2. [client[p] EXCEPT !.later = Tail(@)] \in Client
    BY <1>1, <2>1 DEF Client
  <2> QED
    BY <2>2
<1>5. c.tid = client[p].tid /\ c.nodes = client[p].nodes /\ c.pc = "run"
  BY <1>1, <1>4 DEF Client
<1>6. CASE s.call \in Cast /\ Update(p, c) /\ SendCast(p, WNodes(p, s.oid.tab), s)
  <2>1. Posted(p, WNodes(p, s.oid.tab), s.call)
    BY <1>1, <1>2, <1>6, CastPosted
  <2>2. s.call \notin LockRequest
    BY <1>6 DEF Cast, LockRequest
  <2> QED
    BY <1>1, <1>5, <1>6, <2>1, <2>2, GoesOn
<1>7. CASE s.call \notin Cast /\ Start(p, s, c) /\ UNCHANGED mail
  <2>1. PICK d \in Client : Update(p, d) /\ Started(p, s, c, d)
    BY <1>7, StartType
  <2>2. d.tid = client[p].tid /\ d.nodes = client[p].nodes /\ d.pc = "wait"
    BY <1>5, <2>1 DEF Started
  <2>3. Posted(p, {}, "release_tid")
    BY <1>1, <1>7, NothingPosted
  <2> QED
    BY <1>1, <2>1, <2>2, <2>3, GoesOn DEF LockRequest
<1>8. CASE Update(p, c) /\ UNCHANGED mail
  <2>1. Posted(p, {}, "release_tid")
    BY <1>1, <1>8, NothingPosted
  <2> QED
    BY <1>1, <1>5, <1>8, <2>1, GoesOn DEF LockRequest
<1> QED
  BY <1>3, <1>4, <1>6, <1>7, <1>8 DEF Continue, SendCast

\* Whom a process asks it puts down in the store.
LEMMA AskNextFollows ==
    ASSUME TxInv, FollowInv, NEW p \in Pid, AskNext(p)
    PROVE  FollowInv'
<1>1. /\ client[p] \in Client /\ client[p].pc = "wait" /\ MailType
      /\ client[p].todo # <<>> /\ client[p].step \in Step
      /\ UNCHANGED <<tidLocks, ended>>
  BY DEF TxInv, ProcessInv, Requests, StickyAlone, AskNext, Sending, vars
<1>2. client[p].tid \in Tid
  BY <1>1 DEF TxInv, ProcessInv, Ages, OwnTid
<1>3. PICK ns \in SUBSET LockNode : ns = Head(client[p].todo)
  BY <1>1 DEF Client
<1>4. Tail(client[p].todo) \in Seq(SUBSET LockNode)
  BY <1>1, TailRange DEF Client
<1>5. PICK c \in Client : c = [client[p] EXCEPT !.todo = Tail(@), !.await = ns,
                                                !.nodes = @ \cup ns]
  <2>1. client[p].nodes \cup ns \in SUBSET LockNode
    BY <1>1 DEF Client
  <2> QED
    BY <1>1, <1>4, <2>1 DEF Client
<1>6. /\ c.tid = client[p].tid /\ c.pc = "wait" /\ c.nodes = client[p].nodes \cup ns
  BY <1>1, <1>5 DEF Client
<1>7. Update(p, c) /\ SendRequests(p, ns)
  BY <1>3, <1>5 DEF AskNext
<1>8. PICK kind : Posted(p, ns, kind)
  BY <1>1, <1>2, <1>7, RequestsPosted
<1> QED
  BY <1>1, <1>6, <1>7, <1>8, GoesOn

\* An answer adds nodes to the store and removes none.
LEMMA GetAnswerFollows ==
    ASSUME TxInv, FollowInv, NEW p \in Pid, GetAnswer(p)
    PROVE  FollowInv'
<1>1. /\ client[p] \in Client /\ client[p].pc = "wait" /\ client[p].step \in Step
      /\ MailType /\ AnswerInv
  BY DEF TxInv, ProcessInv, GetAnswer, Requests, StickyAlone
<1>2. PICK n \in LockNode : /\ n \in client[p].await
                            /\ \E r \in replies[n] : \E c \in Answered(p, n, r) :
                                  Take(p, n, r) /\ Update(p, Resumed(p, c))
  BY <1>1 DEF GetAnswer, Client
<1>3. PICK r \in replies[n] : \E c \in Answered(p, n, r) :
                                  Take(p, n, r) /\ Update(p, Resumed(p, c))
  BY <1>2
<1>4. PICK c \in Answered(p, n, r) : Take(p, n, r) /\ Update(p, Resumed(p, c))
  BY <1>3
<1>5. r \in Reply
  BY <1>1 DEF AnswerInv, TypeOK
<1>6. /\ c \in Client /\ c.step = client[p].step /\ c.tid = client[p].tid
      /\ c.pc \in {"wait", "run"}
  BY <1>1, <1>5, AnsweredType
<1>7. client[p].nodes \subseteq c.nodes
  <2> DEFINE d == [client[p] EXCEPT !.await = @ \ {n}, !.skip = @ \ {n}]
  <2>1. d \in Client /\ d.nodes = client[p].nodes
    BY <1>1 DEF Client
  <2>2. \/ c = d
        \/ c = [d EXCEPT !.got = d.got \/ OpAt(p, d.step, n) = "read_write"]
        \/ c = Refused(d, "cyclic")
        \/ c = Refused(d, r.tag)
        \/ c = Switched(d, r.at)
        \/ c = [d EXCEPT !.pc = "run", !.later = StickySteps(d.step.oid, "stick")]
        \/ c = [d EXCEPT !.pc = "run", !.later = StickySteps(d.step.oid, "unstick")]
    BY <1>4 DEF Answered, d
  <2> HIDE DEF d
  <2>3. ASSUME NEW why, c = Refused(d, why) PROVE c.nodes = d.nodes
    BY <2>1, <2>3 DEF Refused, Client
  <2>4. ASSUME c = Switched(d, r.at) PROVE d.nodes \subseteq c.nodes
    BY <2>1, <2>4 DEF Switched, Client
  <2>5. ASSUME NEW steps, c = [d EXCEPT !.pc = "run", !.later = steps] PROVE c.nodes = d.nodes
    BY <2>1, <2>5 DEF Client
  <2>6. ASSUME c = [d EXCEPT !.got = d.got \/ OpAt(p, d.step, n) = "read_write"]
        PROVE  c.nodes = d.nodes
    BY <2>1, <2>6 DEF Client
  <2> QED
    BY <2>1, <2>2, <2>3, <2>4, <2>5, <2>6
<1>8. PICK d \in Client : d = Resumed(p, c)
  BY <1>1, <1>6, ResumedType
<1>9. /\ d.tid = c.tid /\ c.nodes \subseteq d.nodes /\ d.pc \in {"run", "wait", "refused"}
  BY <1>6, <1>8 DEF Resumed, Client
<1>10. UNCHANGED <<tidLocks, mail, ended>>
  BY <1>4 DEF Take
<1>11. Posted(p, {}, "release_tid")
  BY <1>1, <1>10, NothingPosted
<1> QED
  BY <1>4, <1>6, <1>7, <1>8, <1>9, <1>10, <1>11, GoesOn DEF LockRequest

\* The cleared store stays as it is until the function runs again.
LEMMA GetAckFollows ==
    ASSUME TxInv, FollowInv, NEW p \in Pid, GetAck(p)
    PROVE  FollowInv'
<1>1. /\ client[p] \in Client /\ client[p].pc = "acks" /\ MailType
      /\ client[p].nodes = {Own(p)}
  BY DEF TxInv, ProcessInv, GetAck, FollowInv, Cleared
<1>2. PICK t \in Tid : t = client[p].tid
  BY <1>1 DEF TxInv, ProcessInv, Ages, OwnTid
<1>3. PICK n \in LockNode :
         \E r \in replies[n] :
            /\ Take(p, n, r)
            /\ Update(p, IF client[p].await = {n} THEN Running(p, client[p].tid)
                         ELSE [client[p] EXCEPT !.await = @ \ {n}])
  BY <1>1 DEF GetAck, Client
<1>4. UNCHANGED <<tidLocks, mail, ended>>
  BY <1>3 DEF Take
<1>5. Posted(p, {}, "release_tid")
  BY <1>1, <1>4, NothingPosted
<1>6. PICK d \in Client : d = IF client[p].await = {n} THEN Running(p, client[p].tid)
                              ELSE [client[p] EXCEPT !.await = @ \ {n}]
  <2>1. Running(p, client[p].tid) \in Client
    BY <1>2, RunningType
  <2>2. [client[p] EXCEPT !.await = @ \ {n}] \in Client
    BY <1>1 DEF Client
  <2> QED
    BY <2>1, <2>2
<1>7. d.tid = client[p].tid /\ d.nodes = {Own(p)} /\ d.pc \in {"run", "acks"}
  <2>1. CASE client[p].await = {n}
    BY <1>2, <1>6, <2>1 DEF Running, Resting
  <2>2. CASE client[p].await # {n}
    BY <1>1, <1>6, <2>2 DEF Client
  <2> QED
    BY <2>1, <2>2
<1>8. Update(p, d)
  BY <1>3, <1>6
<1> QED
  BY <1>1, <1>4, <1>5, <1>7, <1>8, GoesOn DEF LockRequest

\* mnesia_tm clears the store when every lock manager in it has been told.
LEMMA RestartFollows ==
    ASSUME TxInv, FollowInv, NEW p \in Pid, RestartTransaction(p)
    PROVE  FollowInv'
<1>1. /\ client[p] \in Client /\ client[p].pc = "refused" /\ MailType
      /\ client \in [Pid -> Client] /\ UNCHANGED <<tidLocks, ended>>
  BY DEF TxInv, ProcessInv, RestartTransaction, vars
<1>2. PICK t \in Tid : t = client[p].tid
  BY <1>1 DEF TxInv, ProcessInv, Ages, OwnTid
<1>3. PICK ns \in SUBSET LockNode : ns = client[p].nodes
  BY <1>1 DEF Client
<1>4. PICK c \in Client : c = [Running(p, t) EXCEPT !.pc = "acks", !.await = ns]
  BY RunningType
<1>5. c.nodes = {Own(p)}
  BY <1>4 DEF Running, Resting
<1>6. Update(p, c) /\ SendBare(p, ns, "sync_release_tid")
  BY <1>2, <1>3, <1>4 DEF RestartTransaction, SendBare
<1>7. Posted(p, ns, "sync_release_tid")
  BY <1>1, <1>2, <1>6, BarePosted
<1>8. /\ client'[p] = c
      /\ \A q \in Pid : q # p => client'[q] = client[q]
  BY <1>1, <1>6, UpdateEffect
<1>9. \A n \in LockNode : \A u \in Tid : Alive(p, u, n) => n \in ns
  BY <1>3 DEF Alive
<1>10. Cleared(p)'
  BY <1>5, <1>8 DEF Cleared
<1>11. "sync_release_tid" \in Release /\ "sync_release_tid" \notin LockRequest
  BY DEF Release, LockRequest
<1> QED
  BY <1>1, <1>7, <1>8, <1>9, <1>10, <1>11, FollowFrame

\* An abort tells every lock manager in the store.
LEMMA AbortFollows ==
    ASSUME TxInv, FollowInv, NEW p \in Pid, Abort(p)
    PROVE  FollowInv'
<1>1. /\ client[p] \in Client /\ InProgress(p) /\ MailType
      /\ client \in [Pid -> Client] /\ UNCHANGED <<tidLocks, ended>>
  BY DEF TxInv, ProcessInv, Abort, InProgress, vars
<1>2. PICK t \in Tid : t = client[p].tid
  BY <1>1 DEF TxInv, ProcessInv, Ages, OwnTid, InProgress
<1>3. PICK ns \in SUBSET LockNode : ns = client[p].nodes
  BY <1>1 DEF Client
<1>4. PICK c \in Client : c = Resting(t)
  BY RestingType
<1>5. c.pc = "idle"
  BY <1>4 DEF Resting
<1>6. Update(p, c) /\ SendBare(p, ns, "release_tid")
  BY <1>2, <1>3, <1>4 DEF Abort, SendBare
<1>7. Posted(p, ns, "release_tid")
  BY <1>1, <1>2, <1>6, BarePosted
<1>8. /\ client'[p] = c
      /\ \A q \in Pid : q # p => client'[q] = client[q]
  BY <1>1, <1>6, UpdateEffect
<1>9. \A n \in LockNode : \A u \in Tid : Alive(p, u, n) => n \in ns
  BY <1>3 DEF Alive
<1>10. Cleared(p)'
  BY <1>5, <1>8 DEF Cleared
<1>11. "release_tid" \in Release /\ "release_tid" \notin LockRequest
  BY DEF Release, LockRequest
<1> QED
  BY <1>1, <1>7, <1>8, <1>9, <1>10, <1>11, FollowFrame

\* The process releases at its own node, mnesia_tm at the others.
LEMMA CommitFollows ==
    ASSUME TxInv, FollowInv, NEW p \in Pid, Commit(p)
    PROVE  FollowInv'
<1>1. /\ client[p] \in Client /\ InProgress(p) /\ MailType
      /\ client \in [Pid -> Client] /\ UNCHANGED tidLocks
      /\ ended \in [LockNode -> SUBSET Tid]
  BY DEF TxInv, ProcessInv, Commit, InProgress, vars
<1>2. PICK t \in Tid : t = client[p].tid
  BY <1>1 DEF TxInv, ProcessInv, Ages, OwnTid, InProgress
<1>3. PICK ns \in SUBSET LockNode : ns = client[p].nodes \ {Own(p)}
  BY <1>1 DEF Client
<1>4. PICK c \in Client : c = Resting(t)
  BY RestingType
<1>5. c.pc = "idle"
  BY <1>4 DEF Resting
<1>6. Update(p, c) /\ SendBare(p, {Own(p)}, "release_tid") /\ TellOutcome(p, ns)
  BY <1>2, <1>3, <1>4 DEF Commit, SendBare, TellOutcome
<1>7. Posted(p, {Own(p)}, "release_tid")
  BY <1>1, <1>2, <1>6, BarePosted
<1>8. /\ client'[p] = c
      /\ \A q \in Pid : q # p => client'[q] = client[q]
  BY <1>1, <1>6, UpdateEffect
<1>9. /\ \A n \in LockNode : ended[n] \subseteq ended'[n]
      /\ \A n \in LockNode : n \in ns => t \in ended'[n]
  BY <1>1, <1>2, <1>6, TellType
<1>10. \A n \in LockNode : \A u \in Tid : Alive(p, u, n) => u \in ended'[n] \/ n \in {Own(p)}
  BY <1>2, <1>3, <1>9 DEF Alive
<1>11. Cleared(p)'
  BY <1>5, <1>8 DEF Cleared
<1>12. "release_tid" \in Release /\ "release_tid" \notin LockRequest
  BY DEF Release, LockRequest
<1> QED
  BY <1>1, <1>7, <1>8, <1>9, <1>10, <1>11, <1>12, FollowFrame

\* A process that is killed while it waits has put down whom it asked.
LEMMA KillFollows ==
    ASSUME TxInv, FollowInv, NEW p \in Pid, Kills \subseteq {"waiting"}, Kill(p)
    PROVE  FollowInv'
<1>1. KilledWaiting(p)
  BY DEF Kill, KilledSending, KilledRestarting
<1>2. /\ client[p] \in Client /\ InProgress(p) /\ MailType
      /\ client \in [Pid -> Client] /\ UNCHANGED <<tidLocks, mail>>
      /\ ended \in [LockNode -> SUBSET Tid]
  BY <1>1 DEF TxInv, ProcessInv, KilledWaiting, Exit, vars
<1>3. PICK t \in Tid : t = client[p].tid
  BY <1>2 DEF TxInv, ProcessInv, Ages, OwnTid, InProgress
<1>4. PICK ns \in SUBSET LockNode : ns = client[p].nodes
  BY <1>2 DEF Client
<1>5. PICK c \in Client : c = [Resting(t) EXCEPT !.pc = "dead"]
  BY RestingType
<1>6. c.pc = "dead"
  BY <1>5 DEF Resting
<1>7. Update(p, c) /\ TellOutcome(p, ns)
  BY <1>1, <1>3, <1>4, <1>5 DEF KilledWaiting, Exit, TellOutcome
<1>8. Posted(p, {}, "release_tid")
  BY <1>2, NothingPosted
<1>9. /\ client'[p] = c
      /\ \A q \in Pid : q # p => client'[q] = client[q]
  BY <1>2, <1>7, UpdateEffect
<1>10. /\ \A n \in LockNode : ended[n] \subseteq ended'[n]
       /\ \A n \in LockNode : n \in ns => t \in ended'[n]
  BY <1>2, <1>3, <1>7, TellType
<1>11. \A n \in LockNode : \A u \in Tid : Alive(p, u, n) => u \in ended'[n]
  BY <1>3, <1>4, <1>10 DEF Alive
<1>12. Cleared(p)'
  BY <1>6, <1>9 DEF Cleared
<1> QED
  BY <1>2, <1>8, <1>9, <1>10, <1>11, <1>12, FollowFrame DEF LockRequest

\* An answer to a dead process is dropped.
LEMMA DiscardFollows ==
    ASSUME TxInv, FollowInv, NEW p \in Pid, Discard(p)
    PROVE  FollowInv'
<1>1. UNCHANGED <<client, tidLocks, mail, ended>> /\ MailType /\ Cleared(p)
  BY DEF Discard, Take, TxInv, ProcessInv, FollowInv
<1>2. Posted(p, {}, "release_tid")
  BY <1>1, NothingPosted
<1>3. Cleared(p)' /\ \A n \in LockNode : \A u \in Tid : Alive(p, u, n) => Alive(p, u, n)'
  BY <1>1 DEF Cleared, Alive, InProgress
<1> QED
  BY <1>1, <1>2, <1>3, FollowFrame DEF LockRequest

\* A request that is taken is replaced by the lock it registers, and a release
\* by its absence.
LEMMA DeliverFollows ==
    ASSUME TxInv, FollowInv, NEW p \in Pid, NEW n \in LockNode, Deliver(p, n)
    PROVE  FollowInv'
<1>1. /\ MailType /\ MailOrder /\ Taken(p, n) /\ ProcessInv /\ TypeOK
      /\ LocksFollowed /\ RequestsFollowed
  BY DEF TxInv, LockInv, ProcessInv, FollowInv, Deliver, Taken
<1>2. PICK m \in Message : m = Head(mail[p][n])
  BY <1>1, TakenEffect
<1>3. /\ m \in Sent(p, n)
      /\ \A q \in Pid, k \in LockNode : \A a \in Sent(q, k) :
            a \in Sent(q, k)' \/ (q = p /\ k = n /\ a = m)
  BY <1>1, <1>2, TakenEffect
<1>4. Handled(p, n, m)
  BY <1>1, <1>2, <1>3, DeliverHandles
<1>5. UNCHANGED <<client, ended>> /\ m.tid \in Tid /\ PidOf[m.tid] = p
  BY <1>1, <1>3 DEF Deliver, Message, ProcessInv, Ages, MailAges
<1>6. PICK last \in Nat \ {0} :
         /\ DOMAIN mail[p][n] = 1 .. last /\ mail[p][n][1] = m
         /\ DOMAIN mail'[p][n] = 1 .. last - 1
         /\ \A i \in 1 .. last - 1 : mail'[p][n][i] = mail[p][n][i + 1]
  <2>1. mail[p][n] \in Seq(Message) /\ mail[p][n] # <<>> /\ mail'[p][n] = Tail(mail[p][n])
    BY <1>1 DEF MailType, Taken
  <2> QED
    BY <1>2, <2>1, TailRange
<1>7. \A q \in Pid, k \in LockNode : q # p \/ k # n => mail'[q][k] = mail[q][k]
  BY <1>1 DEF MailType, Taken
<1>8. \A q \in Pid, k \in LockNode, t \in Tid :
         (Alive(q, t, k)' <=> Alive(q, t, k)) /\ (t \in ended'[k] <=> t \in ended[k])
  BY <1>5 DEF Alive, InProgress
<1>9. ASSUME NEW i \in 1 .. last - 1, FollowedBy(p, n, i + 1) PROVE FollowedBy(p, n, i)'
  <2>1. PICK j \in 1 .. last :
           /\ i + 1 < j /\ mail[p][n][j].tid = mail[p][n][i + 1].tid
           /\ mail[p][n][j].kind \in Release
    BY <1>6, <1>9 DEF FollowedBy
  <2>2. j - 1 \in 1 .. last - 1 /\ i < j - 1 /\ (j - 1) + 1 = j
    BY <2>1
  <2>3. mail'[p][n][j - 1] = mail[p][n][j] /\ mail'[p][n][i] = mail[p][n][i + 1]
    BY <1>6, <2>2
  <2> QED
    BY <1>6, <2>1, <2>2, <2>3 DEF FollowedBy
<1>10. ASSUME FollowedBy(p, n, 1) PROVE Mailed(p, n, m.tid, Release)'
  <2>1. PICK j \in 1 .. last :
           1 < j /\ mail[p][n][j].tid = m.tid /\ mail[p][n][j].kind \in Release
    BY <1>6, <1>10 DEF FollowedBy
  <2>2. j - 1 \in 1 .. last - 1 /\ (j - 1) + 1 = j
    BY <2>1
  <2>3. mail'[p][n][j - 1] = mail[p][n][j]
    BY <1>6, <2>2
  <2> QED
    BY <1>6, <2>1, <2>2, <2>3 DEF Mailed, Sent, Range
<1>11. LocksFollowed'
  <2> SUFFICES ASSUME NEW k \in LockNode, NEW t \in Tid, Registered(k, t)'
               PROVE  Alive(PidOf[t], t, k)' \/ t \in ended'[k] \/ Mailed(PidOf[t], k, t, Release)'
    BY DEF LocksFollowed
  <2>1. PICK q \in Pid : q = PidOf[t]
    BY PidAssumption
  <2>2. Alive(q, t, k)' \/ t \in ended'[k] \/ Mailed(q, k, t, Release)'
    <3>1. CASE Registered(k, t) /\ (k # n \/ t # m.tid \/ m.kind \notin Release)
      <4>1. Alive(q, t, k) \/ t \in ended[k] \/ Mailed(q, k, t, Release)
        BY <1>1, <2>1, <3>1 DEF LocksFollowed
      <4>2. Mailed(q, k, t, Release) => Mailed(q, k, t, Release)'
        BY <1>3, <3>1 DEF Mailed
      <4> QED
        BY <1>8, <4>1, <4>2
    <3>2. CASE k = n /\ t = m.tid /\ m.kind \in LockRequest
      <4>1. Alive(p, t, n) \/ t \in ended[n] \/ FollowedBy(p, n, 1)
        <5>1. 1 \in DOMAIN mail[p][n]
          BY <1>6
        <5> QED
          BY <1>1, <1>6, <3>2, <5>1 DEF RequestsFollowed
      <4> QED
        BY <1>5, <1>8, <1>10, <2>1, <3>2, <4>1
    <3>3. Registered(k, t) \/ (k = n /\ t = m.tid /\ m.kind \in LockRequest)
      BY <1>4, <1>5 DEF Handled, Message, LockRequest, Cast
    <3>4. k = n /\ t = m.tid => m.kind \notin Release
      BY <1>4 DEF Handled, Release
    <3> QED
      BY <3>1, <3>2, <3>3, <3>4
  <2> QED
    BY <2>1, <2>2
<1>12. RequestsFollowed'
  <2> SUFFICES ASSUME NEW q \in Pid, NEW k \in LockNode, NEW i \in DOMAIN mail'[q][k],
                      mail'[q][k][i].kind \in LockRequest
               PROVE  \/ Alive(q, mail[q][k][i].tid, k)'
                      \/ mail'[q][k][i].tid \in ended'[k]
                      \/ FollowedBy(q, k, i)'
    BY DEF RequestsFollowed
  <2>1. CASE q # p \/ k # n
    <3>1. mail'[q][k] = mail[q][k]
      BY <1>7, <2>1
    <3> QED
      BY <1>1, <1>5, <3>1 DEF RequestsFollowed, FollowedBy, Alive, InProgress
  <2>2. CASE q = p /\ k = n
    <3>1. /\ i \in 1 .. last - 1 /\ i + 1 \in DOMAIN mail[p][n]
          /\ mail'[p][n][i] = mail[p][n][i + 1]
      <4>1. i \in 1 .. last - 1
        BY <1>6, <2>2
      <4>2. i + 1 \in 1 .. last
        BY <4>1
      <4> QED
        BY <1>6, <4>1, <4>2
    <3>2. \/ Alive(p, mail[p][n][i + 1].tid, n)
          \/ mail[p][n][i + 1].tid \in ended[n]
          \/ FollowedBy(p, n, i + 1)
      BY <1>1, <2>2, <3>1 DEF RequestsFollowed
    <3>3. Alive(p, mail[p][n][i + 1].tid, n) => Alive(p, mail[p][n][i].tid, n)'
      BY <1>5, <3>1 DEF Alive, InProgress
    <3> QED
      BY <1>5, <1>9, <2>2, <3>1, <3>2, <3>3
  <2> QED
    BY <2>1, <2>2
<1>13. \A q \in Pid : Cleared(q)'
  BY <1>5 DEF FollowInv, Cleared
<1> QED
  BY <1>11, <1>12, <1>13 DEF FollowInv

\* mnesia_tm releases when the transaction's own messages have been taken.
LEMMA ReleaseEndedFollows ==
    ASSUME TxInv, FollowInv, NEW n \in LockNode, ReleaseEnded(n)
    PROVE  FollowInv'
<1>1. ProcessInv /\ TypeOK /\ NoneDown /\ MailType /\ LocksFollowed /\ RequestsFollowed
  BY DEF TxInv, LockInv, ProcessInv, FollowInv
<1>2. PICK t \in ended[n] : /\ \A i \in DOMAIN mail[PidOf[t]][n] : mail[PidOf[t]][n][i].tid # t
                            /\ ReleaseTid(n, t)
                            /\ ended' = [ended EXCEPT ![n] = @ \ {t}]
                            /\ UNCHANGED <<client, mail>>
  BY DEF ReleaseEnded
<1>3. t \in Tid
  BY <1>1 DEF ProcessInv
<1>4. \A k \in LockNode : \A u :
         Registered(k, u)' => Registered(k, u) /\ (k # n \/ u # t)
  BY <1>1, <1>2, <1>3, ReleaseEffect DEF ReleaseTid, Busy
<1>5. \A k \in LockNode : \A u : u \in ended[k] => u \in ended'[k] \/ (k = n /\ u = t)
  BY <1>1, <1>2 DEF ProcessInv
<1>6. LocksFollowed'
  <2> SUFFICES ASSUME NEW k \in LockNode, NEW u \in Tid, Registered(k, u)'
               PROVE  Alive(PidOf[u], u, k)' \/ u \in ended'[k] \/ Mailed(PidOf[u], k, u, Release)'
    BY DEF LocksFollowed
  <2>1. Alive(PidOf[u], u, k) \/ u \in ended[k] \/ Mailed(PidOf[u], k, u, Release)
    BY <1>1, <1>4 DEF LocksFollowed
  <2> QED
    BY <1>2, <1>4, <1>5, <2>1 DEF Alive, InProgress, Mailed, Sent
<1>7. RequestsFollowed'
  <2> SUFFICES ASSUME NEW q \in Pid, NEW k \in LockNode, NEW i \in DOMAIN mail[q][k],
                      mail[q][k][i].kind \in LockRequest
               PROVE  \/ Alive(q, mail[q][k][i].tid, k)
                      \/ mail[q][k][i].tid \in ended'[k]
                      \/ FollowedBy(q, k, i)
    BY <1>2 DEF RequestsFollowed, Alive, InProgress, FollowedBy
  <2>1. mail[q][k][i] \in Sent(q, k)
    BY DEF Sent, Range
  <2>2. PidOf[mail[q][k][i].tid] = q
    BY <1>1, <2>1 DEF ProcessInv, Ages, MailAges
  <2>3. ~(k = n /\ mail[q][k][i].tid = t)
    BY <1>2, <2>2
  <2> QED
    BY <1>1, <1>5, <2>3 DEF RequestsFollowed
<1>8. \A q \in Pid : Cleared(q)'
  BY <1>2 DEF FollowInv, Cleared
<1> QED
  BY <1>6, <1>7, <1>8 DEF FollowInv

\* The release loop registers nobody.
LEMMA LockerStepFollows ==
    ASSUME TxInv, FollowInv, NEW n \in LockNode, LockerStep(n)
    PROVE  FollowInv'
<1>1. UNCHANGED <<client, mail, ended>> /\ Loop(n)
  BY DEF LockerStep
<1>2. \A k \in LockNode : \A u : Registered(k, u)' => Registered(k, u)
  BY <1>1, LoopEffect DEF TxInv, ProcessInv
<1> QED
  BY <1>1, <1>2 DEF FollowInv, LocksFollowed, RequestsFollowed, Cleared, FollowedBy, Alive,
                    InProgress, Mailed, Sent

\* A step of a process, of a lock manager or of mnesia_tm forgets no lock.
LEMMA FollowStep ==
    ASSUME Kills \subseteq {"waiting"}, TxInv, FollowInv, [TxNext]_txVars
    PROVE  FollowInv'
<1>1. CASE UNCHANGED txVars
  BY <1>1 DEF txVars, vars, FollowInv, LocksFollowed, RequestsFollowed, Cleared, FollowedBy,
              Alive, InProgress, Registered, Mailed, Sent
<1>2. ASSUME NEW p \in Pid, Begin(p) \/ Kill(p) \/ Discard(p) PROVE FollowInv'
  BY <1>2, BeginFollows, KillFollows, DiscardFollows
<1>3. ASSUME NEW p \in Pid, ProcessStep(p) PROVE FollowInv'
  BY <1>3, CallFollows, ContinueFollows, AskNextFollows, GetAnswerFollows, RestartFollows,
     GetAckFollows, AbortFollows, CommitFollows DEF ProcessStep
<1>4. ASSUME NEW p \in Pid, NEW n \in LockNode, Deliver(p, n) PROVE FollowInv'
  BY <1>4, DeliverFollows
<1>5. ASSUME NEW n \in LockNode, ReleaseEnded(n) \/ LockerStep(n) PROVE FollowInv'
  BY <1>5, ReleaseEndedFollows, LockerStepFollows
<1> QED
  BY <1>1, <1>2, <1>3, <1>4, <1>5 DEF TxNext

\* At the start nothing is registered and nothing is on its way.
LEMMA FollowStart == TxInit => FollowInv
<1> SUFFICES ASSUME TxInit PROVE FollowInv
  OBVIOUS
<1>1. /\ \A n \in LockNode : tidLocks[n] = {}
      /\ \A p \in Pid, n \in LockNode : mail[p][n] = <<>>
      /\ \A p \in Pid : client[p] = Resting(0)
  BY DEF TxInit, Init
<1>2. LocksFollowed
  BY <1>1 DEF LocksFollowed, Registered
<1>3. RequestsFollowed
  BY <1>1 DEF RequestsFollowed
<1>4. \A p \in Pid : Cleared(p)
  BY <1>1 DEF Cleared, Resting
<1> QED
  BY <1>2, <1>3, <1>4 DEF FollowInv

\* What the lock managers have registered, and what they are still asked for,
\* is followed by the transaction or by its release.
THEOREM FollowInvariant ==
    ASSUME Kills \subseteq {"waiting"}
    PROVE  TxSpec => []FollowInv
<1>1. TxInit => FollowInv
  BY FollowStart
<1>2. TxInv /\ FollowInv /\ [TxNext]_txVars => FollowInv'
  BY FollowStep
<1> QED
  BY <1>1, <1>2, TxInvariant, PTL DEF TxSpec

\* No lock is left behind ("Tid has somehow terminated, clear up everything"):
\* whatever a lock manager keeps for a transaction, the transaction knows and
\* will release, or its release is on its way; a process may be killed
\* whenever it waits or computes.
THEOREM NothingLeft ==
    ASSUME Kills \subseteq {"waiting"}
    PROVE  TxSpec => []NothingLeftBehind
<1>1. TxInv /\ FollowInv => NothingLeftBehind
  <2> SUFFICES ASSUME TxInv, FollowInv, NEW n \in LockNode, NEW l \in tidLocks[n]
               PROVE  \/ InProgress(PidOf[l.tid]) /\ client[PidOf[l.tid]].tid = l.tid
                            /\ n \in client[PidOf[l.tid]].nodes
                      \/ ReleaseDue(l.tid, n)
    BY DEF NothingLeftBehind
  <2>1. PICK t \in Tid : t = l.tid
    BY DEF TxInv, LockInv, TypeOK, TidLock
  <2>2. Registered(n, t)
    BY <2>1 DEF Registered
  <2>3. Alive(PidOf[t], t, n) \/ t \in ended[n] \/ Mailed(PidOf[t], n, t, Release)
    BY <2>2 DEF FollowInv, LocksFollowed
  <2> QED
    BY <2>1, <2>3 DEF Alive, Mailed, Sent, ReleaseDue, Release
<1> QED
  BY <1>1, TxInvariant, FollowInvariant, PTL

=============================================================================
