------------------------- MODULE MnesiaCommitProofs -------------------------
(***************************************************************************)
(* What the commit of a transaction guarantees on any number of nodes, with *)
(* any of the protocols, when one node fails or the process is killed at    *)
(* any moment: all of it as long as the process and its node live, and      *)
(* after their death as long as no question has overtaken the word of the   *)
(* process that the transaction commits (overtaken).  The code does let     *)
(* that happen, and then nothing is proved but the types.                   *)
(*                                                                          *)
(* The argument follows one moment: the process tells the first node that  *)
(* the transaction commits (Decided).  Before it no node has any trace of a *)
(* commit; after it no node has any trace of an abort, and as long as a     *)
(* node or the process is there to make the updates, somebody who is up and *)
(* will be asked knows the decision.                                        *)
(***************************************************************************)
EXTENDS MnesiaCommit, FiniteSetTheorems, TLAPS

-----------------------------------------------------------------------------
(* Types.                                                                  *)

\* The kinds of messages, the records of the process and of a question.
Kind == ToTm \cup ToCoord \cup ToParticipant \cup Certain \cup {"release_tid"}
Process == [pc : CoordPc, wait : SUBSET Others, yes : SUBSET Others,
            commit : BOOLEAN, down : SUBSET Others]
Question == [on : BOOLEAN, ask : SUBSET Node, tell : SUBSET Node, said : SUBSET Decision]

LEMMA ToAllType ==
    ASSUME NEW ns \in SUBSET Node, NEW n \in Node, NEW kind \in Kind
    PROVE  ToAll(ns, n, kind) \subseteq Message
BY DEF ToAll, To, Message, Kind

LEMMA ToType ==
    ASSUME NEW k \in Node, NEW n \in Node, NEW kind \in Kind
    PROVE  To(k, n, kind) \in Message
BY DEF To, Message, Kind

LEMMA ToldType ==
    ASSUME NEW n \in Node, NEW outcome
    PROVE  Told(n, outcome) \subseteq Message
BY ToAllType DEF Told, Kind, Certain

LEMMA ExchangeType ==
    ASSUME msgs \subseteq Message, NEW taken, NEW sent \in SUBSET Message, Exchange(taken, sent)
    PROVE  msgs' \subseteq Message
BY DEF Exchange

LEMMA LogType ==
    ASSUME decision \in [Node -> Decision], NEW n \in Node, NEW outcome \in Decision \ {"none"},
           LogDecision(n, outcome) \/ NoteDecision(n, outcome)
    PROVE  decision' \in [Node -> Decision]
BY DEF LogDecision, NoteDecision, Merge, Decision

LEMMA CertainlyType ==
    ASSUME decision \in [Node -> Decision], NEW n \in Node
    PROVE  Certainly(n) \subseteq Decision
BY DEF Certainly, Known, Decision

LEMMA AskType ==
    ASSUME asking \in [Node -> Question], decision \in [Node -> Decision],
           NEW n \in Node, NEW tell \in SUBSET Node, Ask(n, tell)
    PROVE  asking' \in [Node -> Question]
BY CertainlyType DEF Ask, Question

LEMMA AnswerType ==
    ASSUME asking \in [Node -> Question], decision \in [Node -> Decision],
           NEW n \in Node, GetAnswer(n)
    PROVE  asking' \in [Node -> Question]
<1>1. PICK k \in asking[n].ask :
          asking' = [asking EXCEPT ![n].ask = @ \ {k},
                           ![n].said = @ \cup (IF k \in up THEN Certainly(k) ELSE {})]
  BY DEF GetAnswer
<1> DEFINE said == IF k \in up THEN Certainly(k) ELSE {}
           q == [asking[n] EXCEPT !.ask = @ \ {k}, !.said = @ \cup said]
<1>2. k \in Node /\ said \subseteq Decision
  BY CertainlyType DEF Question
<1>3. q \in Question
  <2>1. asking[n] \in Question
    OBVIOUS
  <2>2. q.on = asking[n].on /\ q.tell = asking[n].tell
    BY <2>1 DEF Question
  <2> QED
    BY <1>2, <2>1, <2>2 DEF Question
<1>4. asking' = [asking EXCEPT ![n] = q]
  BY <1>1
<1> QED
  BY <1>3, <1>4

LEMMA ApplyType ==
    ASSUME applied \in [Node -> 0 .. 2], undone \subseteq Node, NEW n \in Node, Apply(n) \/ GiveUp(n)
    PROVE  applied' \in [Node -> 0 .. 2] /\ undone' \subseteq Node
BY DEF Apply, GiveUp

LEMMA TellAndGoType ==
    ASSUME coord \in Process, msgs \subseteq Message, Coord \in Node,
           NEW taken, NEW ns \in SUBSET Node, NEW kind \in Kind, NEW next \in Process,
           TellAndGo(taken, ns, kind, next)
    PROVE  coord' \in Process /\ msgs' \subseteq Message
<1>1. CASE Exchange(taken, ToAll(ns, Coord, kind)) /\ coord' = next
  BY <1>1, ToAllType, ExchangeType
<1>2. CASE /\ \E s \in SUBSET ns : s # ns /\ Exchange(taken, ToAll(s, Coord, kind))
           /\ Goto("killed")
  <2>1. PICK s \in SUBSET ns : Exchange(taken, ToAll(s, Coord, kind))
    BY <1>2
  <2>2. msgs' \subseteq Message
    BY <2>1, ToAllType, ExchangeType
  <2> QED
    BY <1>2, <2>2 DEF Goto, Process, CoordPc
<1> QED
  BY <1>1, <1>2 DEF TellAndGo

\* The initial states have their types, and every step keeps them.
LEMMA InitType == CmInit => CmTypeOK
<1> SUFFICES ASSUME CmInit PROVE CmTypeOK
  OBVIOUS
<1>1. coord \in [pc : CoordPc, wait : SUBSET Others, yes : SUBSET Others,
                 commit : BOOLEAN, down : SUBSET Others]
  BY DEF CmInit, Waiting, CoordPc
<1>2. asking \in [Node -> [on : BOOLEAN, ask : SUBSET Node, tell : SUBSET Node,
                          said : SUBSET Decision]]
  BY DEF CmInit, NoQuestion
<1>3. applied \in [Node -> 0 .. 2] /\ decision \in [Node -> Decision] /\ part \in [Others -> PartPc]
  BY DEF CmInit, Decision, PartPc
<1> QED
  BY <1>1, <1>2, <1>3 DEF CmInit, CmTypeOK

LEMMA NextType == CmTypeOK /\ [CmNext]_commitVars => CmTypeOK'
<1> SUFFICES ASSUME CmTypeOK, [CmNext]_commitVars PROVE CmTypeOK'
  OBVIOUS
<1> USE CommitAssumption
<1>t. /\ coord \in Process /\ Coord \in Node /\ Others \subseteq Node
      /\ applied \in [Node -> 0 .. 2] /\ undone \subseteq Node
      /\ asking \in [Node -> Question] /\ decision \in [Node -> Decision] /\ msgs \subseteq Message
  BY DEF CmTypeOK, Process, Question, Others
<1>1. CASE ReadOnlyCommit
  <2>1. [coord EXCEPT !.pc = "told"] \in Process
    BY <1>t DEF Process, CoordPc
  <2> QED
    BY <1>1, <1>t, <2>1, TellAndGoType DEF ReadOnlyCommit, CmTypeOK, Kind, ToTm, Process
<1>2. CASE AskCommit
  <2>1. \A p \in BOOLEAN : Waiting("votes", Others, p) \in Process
    BY DEF Process, CoordPc, Waiting
  <2>2. PICK p \in BOOLEAN : TellAndGo({}, Others, "ask_commit", Waiting("votes", Others, p)) /\ refused' = ~p
    BY <1>2 DEF AskCommit
  <2> QED
    BY <1>2, <1>t, <2>1, <2>2, TellAndGoType DEF AskCommit, CmTypeOK, Kind, ToTm, Process
<1>3. CASE GetReply
  <2>1. coord' \in Process
    <3>1. \A n \in Others, b \in BOOLEAN : Heard(n, b) \in Process
      BY <1>t DEF Heard, Process
    <3> QED
      BY <1>3, <3>1 DEF GetReply, Hear, HearDown
  <2> QED
    BY <1>3, <1>t, <2>1 DEF GetReply, Hear, HearDown, Exchange, CmTypeOK, Process
<1>4. CASE AllVotedYes
  <2>1. /\ [coord EXCEPT !.pc = "acc", !.wait = coord.yes, !.yes = {}] \in Process
        /\ [coord EXCEPT !.pc = "told", !.wait = Others] \in Process /\ coord.yes \subseteq Node
    BY <1>t DEF Process, CoordPc
  <2>2. coord' \in Process /\ msgs' \subseteq Message
    BY <1>4, <1>t, <2>1, TellAndGoType DEF AllVotedYes, Kind, ToTm, ToParticipant
  <2>3. decision' \in [Node -> Decision]
    BY <1>4, <1>t, LogType DEF AllVotedYes, Decision
  <2> QED
    BY <1>4, <2>2, <2>3 DEF AllVotedYes, CmTypeOK, Process
<1>5. CASE SomebodyRefused
  <2>1. [coord EXCEPT !.pc = "refusing"] \in Process /\ coord.yes \subseteq Node
    BY <1>t DEF Process, CoordPc
  <2>2. coord' \in Process /\ msgs' \subseteq Message
    BY <1>5, <1>t, <2>1, TellAndGoType DEF SomebodyRefused, Kind, ToTm, ToParticipant
  <2>3. decision' \in [Node -> Decision]
    BY <1>5, <1>t, LogType DEF SomebodyRefused, Decision
  <2> QED
    BY <1>5, <2>2, <2>3 DEF SomebodyRefused, CmTypeOK, Process
<1>6. CASE AllPreCommitted
  <2>1. /\ [coord EXCEPT !.pc = "told", !.wait = coord.yes] \in Process
        /\ [coord EXCEPT !.pc = "giving_up"] \in Process /\ coord.yes \subseteq Node
    BY <1>t DEF Process, CoordPc
  <2>2. coord' \in Process /\ msgs' \subseteq Message
    BY <1>6, <1>t, <2>1, TellAndGoType DEF AllPreCommitted, Kind, ToParticipant
  <2> QED
    BY <1>6, <2>2 DEF AllPreCommitted, CmTypeOK, Process
<1>7. CASE RecordCommit
  <2>1. decision' \in [Node -> Decision]
    BY <1>7, <1>t, LogType DEF RecordCommit, Decision
  <2>2. msgs' \subseteq Message
    BY <1>7, <1>t, ExchangeType, ToldType DEF RecordCommit
  <2> QED
    BY <1>7, <1>t, <2>1, <2>2 DEF RecordCommit, Goto, CmTypeOK, CoordPc
<1>8. CASE MakeUpdates
  BY <1>8, <1>t, ApplyType DEF MakeUpdates, Goto, CmTypeOK, CoordPc
<1>9. CASE ReleaseTid
  BY <1>9, <1>t DEF ReleaseTid, Unlock, Goto, CmTypeOK, CoordPc
<1>10. CASE DeleteTransaction
  BY <1>10, <1>t DEF DeleteTransaction, Goto, CmTypeOK, CoordPc
<1>11. CASE ReturnAbort
  <2>1. decision' \in [Node -> Decision]
    BY <1>11, <1>t, LogType DEF ReturnAbort, Decision
  <2>2. msgs' \subseteq Message
    <3>1. Told(Coord, "aborted") \cup ToAll(Others, Coord, "release_tid") \subseteq Message
      BY <1>t, ToldType, ToAllType DEF Kind
    <3> QED
      BY <1>11, <1>t, <3>1, ExchangeType DEF ReturnAbort
  <2> QED
    BY <1>11, <1>t, <2>1, <2>2, ApplyType DEF ReturnAbort, Unlock, Goto, CmTypeOK, CoordPc
<1>12. CASE \E n \in Others : ParticipantDown(n)
  BY <1>12, SMTT(60) DEF ParticipantDown, CmTypeOK
<1>13. CASE CoordinatorDied
  BY <1>13, <1>t, AskType DEF CoordinatorDied, CmTypeOK, Question
<1>14. CASE \E n \in Node : GetAnswer(n)
  <2>1. asking' \in [Node -> Question]
    BY <1>14, <1>t, AnswerType
  <2>2. UNCHANGED <<protocol, up, noticed, msgs, coord, part, decision, applied, undone, locked, refused>>
    BY <1>14 DEF GetAnswer
  <2>3. overtaken' \in BOOLEAN
    BY <1>14 DEF GetAnswer, AskedOf
  <2> QED
    BY <2>1, <2>2, <2>3 DEF CmTypeOK, Question
<1>15. CASE RecoverCoordinator
  <2>1. Outcome(Coord) \in Decision \ {"none"}
    BY DEF Outcome, Decision
  <2>2. decision' \in [Node -> Decision]
    BY <1>15, <1>t, <2>1, LogType DEF RecoverCoordinator
  <2>3. Tell(Coord) \subseteq Message
    BY <1>t, ToAllType DEF Tell, Kind, ToTm, Question
  <2>4. msgs' \subseteq Message
    BY <1>15, <1>t, <2>3, ExchangeType, ToldType DEF RecoverCoordinator
  <2>5. applied' \in [Node -> 0 .. 2] /\ undone' \subseteq Node
    BY <1>15, <1>t, ApplyType DEF RecoverCoordinator
  <2> QED
    BY <1>15, <1>t, <2>2, <2>4, <2>5
       DEF RecoverCoordinator, Unlock, Goto, EndQuestion, NoQuestion, CmTypeOK, CoordPc
<1>16. CASE Kill
  BY <1>16 DEF Kill, Goto, CmTypeOK, CoordPc
<1>20. CASE \E n \in Others : TakeAskCommit(n)
  <2>1. PICK n \in Others : TakeAskCommit(n)
    BY <1>20
  <2>2. part' \in [Others -> PartPc]
    BY <2>1 DEF TakeAskCommit, Enter, CmTypeOK, PartPc
  <2>3. To(Coord, n, "vote_yes") \in Message
    BY <1>t, ToType DEF Kind, ToCoord
  <2>4. msgs' \subseteq Message
    BY <2>1, <1>t, <2>3 DEF TakeAskCommit, Exchange
  <2> QED
    BY <2>1, <2>2, <2>4 DEF TakeAskCommit, CmTypeOK
<1>21. CASE \E n \in Others : TakeDoCommit(n)
  <2>1. PICK n \in Others : TakeDoCommit(n)
    BY <1>21
  <2>2. part' \in [Others -> PartPc]
    BY <2>1 DEF TakeDoCommit, Enter, CmTypeOK, PartPc
  <2>3. ToAll({k \in {n} : Follows(k)}, n, "committed") \subseteq Message
    BY <1>t, ToAllType DEF Kind, ToParticipant
  <2>4. Ack(n) \subseteq Message
    BY <1>t, ToType DEF Ack, Kind, ToCoord
  <2>5. msgs' \subseteq Message
    BY <2>1, <1>t, <2>3, <2>4, ExchangeType DEF TakeDoCommit
  <2>6. decision' \in [Node -> Decision]
    BY <2>1, <1>t, LogType DEF TakeDoCommit, Decision
  <2> QED
    BY <2>1, <1>t, <2>2, <2>5, <2>6, ApplyType DEF TakeDoCommit, Unlock, CmTypeOK
<1>22. CASE \E n \in Others : TakeDoAbort(n)
  <2>1. PICK n \in Others : TakeDoAbort(n)
    BY <1>22
  <2>2. part' \in [Others -> PartPc]
    BY <2>1 DEF TakeDoAbort, Enter, CmTypeOK, PartPc
  <2>3. Ack(n) \subseteq Message /\ To(n, n, "abort") \in Message
    BY <1>t, ToType DEF Ack, Kind, ToCoord, ToParticipant
  <2>5. msgs' \subseteq Message
    BY <2>1, <1>t, <2>3, ExchangeType DEF TakeDoAbort
  <2>6. decision' \in [Node -> Decision]
    BY <2>1, <1>t, LogType DEF TakeDoAbort, Decision
  <2> QED
    BY <2>1, <1>t, <2>2, <2>5, <2>6, ApplyType DEF TakeDoAbort, Unlock, CmTypeOK
<1>23. CASE \E n \in Others : TakeSimpleCommit(n)
  BY <1>23, <1>t DEF TakeSimpleCommit, Exchange, NoteDecision, Unlock, CmTypeOK, Decision
<1>24. CASE \E n \in Others : Forget(n)
  BY <1>24 DEF Forget, Enter, CmTypeOK, PartPc
<1>25. CASE \E n \in Others : CoordinatorDown(n)
  BY <1>25, <1>t, AskType DEF CoordinatorDown, AskedOf, Unlock, CmTypeOK, Question
<1>26. CASE \E n \in Others : TellOutcome(n)
  <2>1. PICK n \in Others : TellOutcome(n)
    BY <1>26
  <2>2. Tell(n) \subseteq Message
    BY <1>t, ToAllType DEF Tell, Kind, ToTm, Question
  <2>3. msgs' \subseteq Message
    BY <2>1, <1>t, <2>2, ExchangeType DEF TellOutcome
  <2> QED
    BY <2>1, <2>3, <1>t DEF TellOutcome, EndQuestion, NoQuestion, CmTypeOK
<1>27. CASE \E n \in Others : Vote(n)
  <2>1. PICK n \in Others : Vote(n)
    BY <1>27
  <2>2. part' \in [Others -> PartPc]
    BY <2>1 DEF Vote, Enter, CmTypeOK, PartPc
  <2>3. To(Coord, n, "vote_yes") \in Message /\ To(Coord, n, "vote_no") \in Message
    BY <1>t, ToType DEF Kind, ToCoord
  <2>4. msgs' \subseteq Message
    BY <2>1, <1>t, <2>3 DEF Vote, Exchange
  <2> QED
    BY <2>1, <1>t, <2>2, <2>4 DEF Vote, Unlock, CmTypeOK
<1>28. CASE \E n \in Others : PreCommit(n)
  <2>1. PICK n \in Others : PreCommit(n)
    BY <1>28
  <2>2. part' \in [Others -> PartPc]
    BY <2>1 DEF PreCommit, Enter, CmTypeOK, PartPc
  <2>3. To(Coord, n, "acc_pre_commit") \in Message
    BY <1>t, ToType DEF Kind, ToCoord
  <2>4. msgs' \subseteq Message
    BY <2>1, <1>t, <2>3 DEF PreCommit, Exchange
  <2>5. decision' \in [Node -> Decision]
    BY <2>1, <1>t, LogType DEF PreCommit, Decision
  <2> QED
    BY <2>1, <2>2, <2>4, <2>5 DEF PreCommit, CmTypeOK
<1>29. CASE \E n \in Others : ParticipantCommit(n)
  <2>1. PICK n \in Others : ParticipantCommit(n)
    BY <1>29
  <2>2. part' \in [Others -> PartPc]
    BY <2>1 DEF ParticipantCommit, Enter, CmTypeOK, PartPc
  <2>3. Told(n, "committed") \cup Ack(n) \subseteq Message
    BY <1>t, ToType, ToldType DEF Ack, Kind, ToCoord
  <2>4. msgs' \subseteq Message
    BY <2>1, <1>t, <2>3, ExchangeType DEF ParticipantCommit
  <2>5. decision' \in [Node -> Decision]
    BY <2>1, <1>t, LogType DEF ParticipantCommit, Decision
  <2> QED
    BY <2>1, <1>t, <2>2, <2>4, <2>5, ApplyType DEF ParticipantCommit, Unlock, CmTypeOK
<1>30. CASE \E n \in Others : ParticipantAbort(n)
  <2>1. PICK n \in Others : ParticipantAbort(n)
    BY <1>30
  <2>2. part' \in [Others -> PartPc]
    BY <2>1 DEF ParticipantAbort, Enter, CmTypeOK, PartPc
  <2>4. msgs' \subseteq Message
    BY <2>1, <1>t, ToldType, ExchangeType DEF ParticipantAbort
  <2>5. decision' \in [Node -> Decision]
    BY <2>1, <1>t, LogType DEF ParticipantAbort, Decision
  <2> QED
    BY <2>1, <1>t, <2>2, <2>4, <2>5, ApplyType DEF ParticipantAbort, Unlock, CmTypeOK
<1>31. CASE \E n \in Node : ImCertain(n)
  BY <1>31, <1>t DEF ImCertain, Exchange, Merge, CmTypeOK, Decision
<1>32. CASE \E n \in Node : LockerRelease(n)
  BY <1>32 DEF LockerRelease, Exchange, Unlock, CmTypeOK
<1>33. CASE \E n \in Node : Crash(n)
  <2>1. PICK n \in Node : Crash(n)
    BY <1>33
  <2>2. part' \in [Others -> PartPc]
    BY <2>1 DEF Crash, Enter, CmTypeOK, PartPc
  <2>3. msgs' \subseteq Message
    BY <2>1, <1>t DEF Crash
  <2> QED
    BY <2>1, <1>t, <2>2, <2>3 DEF Crash, EndQuestion, NoQuestion, Unlock, CmTypeOK, Question
<1>40. CASE UNCHANGED commitVars
  BY <1>40 DEF commitVars, CmTypeOK
<1> QED
  BY <1>1, <1>2, <1>3, <1>4, <1>5, <1>6, <1>7, <1>8, <1>9, <1>10, <1>11, <1>12, <1>13, <1>14,
     <1>15, <1>16, <1>20, <1>21, <1>22, <1>23, <1>24, <1>25, <1>26, <1>27, <1>28, <1>29, <1>30,
     <1>31, <1>32, <1>33, <1>40, <1>t DEF CmNext, CoordStep, CoordTmStep, TmStep, ParticipantStep

\* Messages, processes, participants, questions and decisions keep their types, whatever
\* fails and how often (mnesia_tm, mnesia_recover).
THEOREM CommitTypeCorrect == CmSpec => []CmTypeOK
BY InitType, NextType, PTL DEF CmSpec

-----------------------------------------------------------------------------
(* The invariant.                                                          *)

\* The transaction has updates to make.
Updating == protocol # "read_only"

\* The process has been killed.
Died == coord.pc \in {"killed", "recovered"}

\* Nothing has failed so far.
AllWell == up = Node /\ ~Died

\* What is only ever sent once the transaction is decided, and once it is given up.
Deciding == {"do_commit", "committed", "certain_committed"}
Aborting == {"do_abort", "abort", "certain_aborted"}
Telling == {"told", "noted", "acks", "applied", "released"}

\* The point of no return.  The process itself is past it as soon as it tells the
\* others; when it is gone, what it has told or put on record still decides.
Decided ==
    \/ \E m \in msgs : m.kind \in Deciding
    \/ \E n \in up : decision[n] = "committed"
    \/ Coord \in up /\ coord.pc \in Telling

\* The node will have the decision on record before it answers a question: it has
\* it, or the word of the process is on its way.
Knows(k) ==
    \/ decision[k] = "committed"
    \/ k \in Others /\ \E m \in msgs : /\ m.from = Coord /\ m.to = k
                                       /\ m.kind = IF Asym THEN "committed" ELSE "do_commit"

\* The process cannot take this node for one that has voted yes.
Refuser(k) ==
    /\ k \in coord.wait
    /\ part[k] # "prepare"
    /\ \A m \in msgs : /\ ~(m.kind = "vote_yes" /\ m.from = k)
                       /\ ~(m.kind = "ask_commit" /\ m.to = k)

\* One node is down, or the process has been killed.
OneFailure == /\ \E x \in Node : Node \ {x} \subseteq up
              /\ Died => up = Node

\* Messages go to nodes that are up.
Reachable == \A m \in msgs : m.to \in up

\* Only the failure of the process or its node gives reason to ask, and the answers
\* are certain.
Askers ==
    \A n \in Node :
        IF asking[n].on
        THEN /\ n \in up
             /\ IF n = Coord THEN coord.pc = "killed" ELSE Coord \notin up
             /\ asking[n].said \subseteq {"committed", "aborted"}
        ELSE asking[n] = NoQuestion

\* A transaction that has only read has no votes, participants and updates.
OnlyRead ==
    IF Updating THEN \A m \in msgs : m.kind # "simple_commit"
    ELSE /\ \A n \in Node : applied[n] = 0
         /\ \A n \in Others : part[n] = "none"
         /\ coord.pc \notin {"votes", "acc", "refusing", "giving_up", "noted", "acks"}
         /\ ~refused
         /\ \A m \in msgs : m.kind # "ask_commit"

\* Nothing has happened before the process asks for votes.
Starting ==
    Updating /\ At("start") =>
        /\ msgs = {} /\ undone = {} /\ ~refused
        /\ \A n \in Node : decision[n] = "none" /\ applied[n] = 0
        /\ \A n \in Others : part[n] = "none"

\* Nothing about the outcome is on its way before the process has decided.
Early ==
    Updating /\ (At("votes") \/ At("acc")) =>
        \A m \in msgs : m.kind \notin Aborting \cup Deciding

\* A node that is counted as voting yes has voted yes, and one that will not is
\* still waited for.
VotesMatch ==
    /\ Others = coord.wait \cup coord.yes
    /\ \A m \in msgs : m.kind = "ask_commit" =>
          m.from = Coord /\ m.to \in coord.wait /\ part[m.to] = "none"
    /\ \A m \in msgs : m.kind = "vote_yes" /\ m.from \in up =>
          m.from \in Others /\ part[m.from] = "voted"
    /\ \A k \in Others \cap up : /\ part[k] = "prepare" => k \in coord.wait
                                 /\ k \notin coord.wait => part[k] = "voted"
    /\ \A k \in undone \cap up : k \in Others /\ Refuser(k)
    /\ refused => \E k \in Others : Refuser(k)

\* While votes come in nobody has a decision; unless one has voted no, they match.
Voted ==
    Updating /\ At("votes") =>
        /\ \A n \in up : decision[n] = "none"
        /\ \A m \in msgs : m.kind \notin {"pre_commit", "acc_pre_commit"}
        /\ coord.commit => VotesMatch

\* While everybody enters the uncertain state no node can have refused; whoever has
\* confirmed has put the unclear decision on record.
AllUncertain ==
    /\ Others = coord.wait \cup coord.yes
    /\ undone \cap up = {} /\ ~refused
    /\ decision[Coord] = "unclear"
    /\ \A n \in up : decision[n] \notin {"aborted", "committed"}
    /\ \A m \in msgs :
          /\ m.kind # "ask_commit"
          /\ m.kind = "pre_commit" =>
                m.from = Coord /\ m.to \in coord.wait /\ part[m.to] = "voted"
          /\ m.kind = "acc_pre_commit" /\ m.from \in up =>
                m.from \in Others /\ part[m.from] = "pre_commit" /\ decision[m.from] = "unclear"
    /\ \A k \in Others \cap up :
          /\ part[k] \in {"voted", "pre_commit"}
          /\ k \notin coord.wait => part[k] = "pre_commit" /\ decision[k] = "unclear"

\* The second phase of asym_trans.
PreCommitted ==
    Updating /\ At("acc") => Asym /\ (coord.commit => AllUncertain)

\* No node is still to prepare the commit when another has made the updates.
NobodyPrepares ==
    (\E n \in Node : applied[n] > 0) =>
        /\ \A m \in msgs : m.kind # "ask_commit"
        /\ \A n \in Others \cap up : part[n] # "prepare"

\* A decided transaction is not given up: nobody is told to abort, has aborted or
\* answers so, and every participant is in the state from which it goes on to commit.
AfterDecision ==
    Updating /\ Decided =>
        /\ \A m \in msgs : m.kind \notin Aborting \cup {"ask_commit", "pre_commit"}
        /\ undone \cap up = {} /\ ~refused
        /\ \A n \in Node : "aborted" \notin asking[n].said
        /\ \A n \in up : decision[n] \in {"committed", IF Asym THEN "unclear" ELSE "none"}
        /\ \A n \in Others \cap up :
              IF Asym
              THEN /\ part[n] \in {"pre_commit", "ended", "none"}
                   /\ decision[n] = "unclear" => part[n] = "pre_commit"
              ELSE /\ part[n] \in {"voted", "none"}
                   /\ decision[n] = "none" => part[n] = "voted"
        /\ Coord \in up => coord.pc \in Telling \cup {"ended", "killed", "recovered"}

\* While nothing has failed, nobody hears "certain" of the outcome before the word of
\* the process is at least on its way to it: a failure cannot lose that alone.
Untroubled ==
    Updating /\ AllWell =>
        /\ \A m \in msgs :
              /\ m.kind = "do_commit" => ~Asym /\ m.from = Coord /\ m.to \in Others
              /\ m.kind = "committed" => Asym /\ m.from = Coord /\ m.to \in Others
              /\ m.kind = "certain_committed" =>
                    IF m.from = Coord THEN m.to \in Others /\ Knows(m.to)
                                      ELSE m.from \in Others /\ decision[m.from] = "committed"
        /\ At("told") => \A k \in Others : Knows(k)

\* When the process or its node is gone, the decision is found by whoever asks.
SomebodyKnows ==
    Updating /\ Decided =>
        /\ Coord \notin up \/ coord.pc = "killed" => \E k \in up : Knows(k)
        /\ \A n \in Node : asking[n].on => \/ "committed" \in asking[n].said
                                           \/ \E k \in asking[n].ask \cap up : Knows(k)

\* Who is told "committed" is told so of a decided transaction.
ToldTrue == Updating => \A n \in Node : "committed" \in asking[n].said => Decided

\* The decision is on record before the updates are made.
Recorded ==
    Updating =>
        /\ At("noted") \/ At("acks") \/ At("applied") \/ At("released")
              => decision[Coord] = "committed"
        /\ \A n \in up : applied[n] > 0 => decision[n] = "committed"

\* The inductive invariant, for one failure and messages handled before questions.
CommitInv ==
    /\ CmTypeOK /\ OneFailure /\ Reachable /\ Askers /\ OnlyRead /\ Starting /\ Early /\ Voted
    /\ PreCommitted /\ NobodyPrepares /\ AfterDecision /\ Untroubled /\ SomebodyKnows
    /\ ToldTrue /\ Recorded

-----------------------------------------------------------------------------
(* Failures, questions and the stages of the process.                      *)

\* A failure is possible only while nothing has failed.
LEMMA MayFail ==
    ASSUME CmTypeOK, MaxFailures \leq 1, Failures < MaxFailures
    PROVE  AllWell
<1> DEFINE Down == Node \ up
<1>1. IsFiniteSet(Down)
  BY CommitAssumption, FS_Subset
<1>2. Cardinality(Down) \in Nat
  BY <1>1, FS_CardinalityType
<1>3. Cardinality(Down) = 0 /\ ~Died
  BY <1>2, CommitAssumption DEF Failures, Died
<1>4. Down = {}
  BY <1>1, <1>3, FS_EmptySet
<1> QED
  BY <1>3, <1>4 DEF AllWell, CmTypeOK

\* What telling some nodes comes to: all are told, or some and the process is killed.
LEMMA TellAndGoSends ==
    ASSUME NEW taken, NEW ns, NEW kind, NEW next, TellAndGo(taken, ns, kind, next)
    PROVE  \E s \in SUBSET ns :
              /\ Exchange(taken, ToAll(s, Coord, kind))
              /\ \/ s = ns /\ coord' = next
                 \/ Goto("killed") /\ Failures < MaxFailures
BY DEF TellAndGo

LEMMA TellAndGoNew ==
    ASSUME NEW taken, NEW ns, NEW kind, NEW next, TellAndGo(taken, ns, kind, next), NEW m \in msgs'
    PROVE  \/ m \in msgs \ taken
           \/ m.kind = kind /\ m.from = Coord /\ m.to \in ns \cap up
BY DEF TellAndGo, Exchange, ToAll, To

LEMMA TellAndGoPc ==
    ASSUME coord \in Process, NEW taken, NEW ns, NEW kind, NEW next,
           TellAndGo(taken, ns, kind, next)
    PROVE  \/ coord' = next
           \/ coord' = [coord EXCEPT !.pc = "killed"] /\ coord'.pc = "killed" /\ Failures < MaxFailures
BY DEF TellAndGo, Goto, Process

\* Messages go to nodes that are up.
LEMMA NextReachable ==
    ASSUME Reachable, CmNext
    PROVE  Reachable'
<1>1. CASE msgs' = msgs /\ up' = up
  BY <1>1 DEF Reachable
<1>2. CASE (\E taken, sent : Exchange(taken, sent)) /\ up' = up
  BY <1>2 DEF Reachable, Exchange
<1>3. CASE \E n \in Node : Crash(n)
  BY <1>3 DEF Reachable, Crash
<1>4. \/ msgs' = msgs /\ up' = up
      \/ (\E taken, sent : Exchange(taken, sent)) /\ up' = up
      \/ \E n \in Node : Crash(n)
  <2>1. ASSUME CoordStep PROVE ((\E taken, sent : Exchange(taken, sent)) \/ msgs' = msgs) /\ up' = up
    BY <2>1 DEF CoordStep, ReadOnlyCommit, AskCommit, GetReply, Hear, HearDown, AllVotedYes,
       SomebodyRefused,
       AllPreCommitted, RecordCommit, MakeUpdates, ReleaseTid, DeleteTransaction, ReturnAbort, TellAndGo
  <2>2. ASSUME CoordTmStep \/ Kill
        PROVE  ((\E taken, sent : Exchange(taken, sent)) \/ msgs' = msgs) /\ up' = up
    BY <2>2 DEF CoordTmStep, ParticipantDown, CoordinatorDied, GetAnswer, RecoverCoordinator, Kill
  <2>3. ASSUME NEW n \in Others, TmStep(n)
        PROVE  ((\E taken, sent : Exchange(taken, sent)) \/ msgs' = msgs) /\ up' = up
    BY <2>3 DEF TmStep, TakeAskCommit, TakeDoCommit, TakeDoAbort, TakeSimpleCommit, Forget,
       CoordinatorDown, GetAnswer, TellOutcome
  <2>4. ASSUME NEW n \in Others, ParticipantStep(n)
        PROVE  ((\E taken, sent : Exchange(taken, sent)) \/ msgs' = msgs) /\ up' = up
    BY <2>4 DEF ParticipantStep, Vote, PreCommit, ParticipantCommit, ParticipantAbort
  <2> QED
    BY <2>1, <2>2, <2>3, <2>4 DEF CmNext, ImCertain, LockerRelease
<1> QED
  BY <1>1, <1>2, <1>3, <1>4

\* Only the recovery of the transaction follows the death of its process.
LEMMA KilledStays ==
    ASSUME CmNext, coord.pc = "killed", ~RecoverCoordinator
    PROVE  coord' = coord
<1>1. ~CoordStep
  BY DEF CoordStep, ReadOnlyCommit, AskCommit, GetReply, Hear, HearDown, AllVotedYes, SomebodyRefused,
     Heeded, At,
       AllPreCommitted, RecordCommit, MakeUpdates, ReleaseTid, DeleteTransaction, ReturnAbort
<1>2. ~Kill /\ (CoordTmStep => coord' = coord)
  BY DEF CoordTmStep, ParticipantDown, CoordinatorDied, GetAnswer, Kill
<1>3. ASSUME NEW n \in Others, TmStep(n) \/ ParticipantStep(n)
      PROVE  coord' = coord
  BY <1>3 DEF TmStep, TakeAskCommit, TakeDoCommit, TakeDoAbort, TakeSimpleCommit, Forget,
     CoordinatorDown, GetAnswer, TellOutcome,
      ParticipantStep, Vote, PreCommit, ParticipantCommit, ParticipantAbort
<1> QED
  BY <1>1, <1>2, <1>3 DEF CmNext, ImCertain, LockerRelease, Crash

\* Where the process goes when it tells others something.
LEMMA TellingPc ==
    ASSUME coord \in Process
    PROVE  /\ ReadOnlyCommit => coord'.pc \in {"told", "killed"}
           /\ AskCommit => coord'.pc \in {"votes", "killed"}
           /\ AllVotedYes => coord'.pc \in {IF Asym THEN "acc" ELSE "told", "killed"}
           /\ SomebodyRefused => coord'.pc \in {"refusing", "killed"}
           /\ AllPreCommitted => coord'.pc \in {IF coord.commit THEN "told" ELSE "giving_up", "killed"}
           /\ ReadOnlyCommit \/ AskCommit \/ AllVotedYes \/ SomebodyRefused \/ AllPreCommitted
                 => coord'.pc # "killed" \/ Failures < MaxFailures
<1>1. ReadOnlyCommit => coord'.pc = "told" \/ (coord'.pc = "killed" /\ Failures < MaxFailures)
  BY DEF ReadOnlyCommit, TellAndGo, Goto, Process
<1>2. AskCommit => coord'.pc = "votes" \/ (coord'.pc = "killed" /\ Failures < MaxFailures)
  BY DEF AskCommit, Waiting, TellAndGo, Goto, Process
<1>3. AllVotedYes => \/ coord'.pc = IF Asym THEN "acc" ELSE "told"
                     \/ coord'.pc = "killed" /\ Failures < MaxFailures
  BY DEF AllVotedYes, TellAndGo, Goto, Process
<1>4. SomebodyRefused => coord'.pc = "refusing" \/ (coord'.pc = "killed" /\ Failures < MaxFailures)
  BY DEF SomebodyRefused, TellAndGo, Goto, Process
<1>5. AllPreCommitted => \/ coord'.pc = IF coord.commit THEN "told" ELSE "giving_up"
                         \/ coord'.pc = "killed" /\ Failures < MaxFailures
  BY DEF AllPreCommitted, TellAndGo, Goto, Process
<1> QED
  BY <1>1, <1>2, <1>3, <1>4, <1>5

\* The protocol is chosen once.
LEMMA ProtocolKept == CmNext => protocol' = protocol
BY ZenonT(60) DEF CmNext, CoordStep, ReadOnlyCommit, AskCommit, GetReply, AllVotedYes, SomebodyRefused, Kill,
      AllPreCommitted, RecordCommit, MakeUpdates, ReleaseTid, DeleteTransaction, ReturnAbort, CoordTmStep,
      ParticipantDown, CoordinatorDied, GetAnswer, RecoverCoordinator, TmStep, TakeAskCommit, TakeDoCommit,
      TakeDoAbort, TakeSimpleCommit, Forget, CoordinatorDown, TellOutcome,
      ParticipantStep, Vote, PreCommit, ParticipantCommit, ParticipantAbort, ImCertain, LockerRelease, Crash

\* One failure is all there is.
LEMMA NextOneFailure ==
    ASSUME CmTypeOK, MaxFailures \leq 1, OneFailure, Askers, CmNext
    PROVE  OneFailure'
<1>1. CASE \E n \in Node : Crash(n)
  <2>1. PICK n \in Node : Crash(n)
    BY <1>1
  <2>2. AllWell
    BY <2>1, MayFail DEF Crash
  <2>3. up' = Node \ {n} /\ coord' = coord /\ ~Died'
    BY <2>1, <2>2 DEF Crash, AllWell, Died
  <2> QED
    BY <2>3 DEF OneFailure
<1>2. CASE AllWell /\ up' = up
  BY <1>2 DEF OneFailure, AllWell, CommitAssumption
<1>3. CASE up' = up /\ (Died' => Died)
  BY <1>3 DEF OneFailure
<1>4. ASSUME CoordStep PROVE up' = up /\ (AllWell \/ (Died' => Died))
  <2>1. CASE Failures < MaxFailures
    BY <1>4, <2>1, MayFail DEF CoordStep, ReadOnlyCommit, AskCommit, GetReply, AllVotedYes, SomebodyRefused,
       AllPreCommitted, RecordCommit, MakeUpdates, ReleaseTid, DeleteTransaction, ReturnAbort
  <2>2. CASE ~(Failures < MaxFailures)
    <3>1. coord \in Process
      BY DEF CmTypeOK, Process
    <3> QED
      <4>1. CASE ReadOnlyCommit \/ AskCommit \/ AllVotedYes \/ SomebodyRefused \/ AllPreCommitted
        BY <4>1, <2>2, <3>1, TellingPc DEF ReadOnlyCommit, AskCommit, AllVotedYes,
           SomebodyRefused, AllPreCommitted, Died
      <4>2. CASE GetReply
        BY <4>2, <3>1 DEF GetReply, Hear, HearDown, Heard, At, Died, Process
      <4> QED
        BY <1>4, <3>1, <4>1, <4>2 DEF CoordStep, RecordCommit, MakeUpdates, ReleaseTid, DeleteTransaction,
           ReturnAbort, Goto, Died, Process
  <2> QED
    BY <2>1, <2>2
<1>5. ASSUME CoordTmStep PROVE up' = up /\ (Died' => Died)
  <2>1. coord \in Process
    BY DEF CmTypeOK, Process
  <2>2. RecoverCoordinator => Died
    BY CommitAssumption DEF RecoverCoordinator, Answered, Askers, Died
  <2> QED
    BY <1>5, <2>1, <2>2 DEF CoordTmStep, ParticipantDown, CoordinatorDied, GetAnswer, RecoverCoordinator,
       Died, Process
<1>6. ASSUME Kill PROVE AllWell /\ up' = up
  BY <1>6, MayFail DEF Kill
<1>7. ASSUME NEW n \in Others, TmStep(n) \/ ParticipantStep(n)
      PROVE  up' = up /\ coord' = coord
  BY <1>7 DEF TmStep, TakeAskCommit, TakeDoCommit, TakeDoAbort, TakeSimpleCommit, Forget,
     CoordinatorDown, GetAnswer, TellOutcome,
      ParticipantStep, Vote, PreCommit, ParticipantCommit, ParticipantAbort
<1> QED
  BY <1>1, <1>2, <1>3, <1>4, <1>5, <1>6, <1>7 DEF CmNext, ImCertain, LockerRelease, Died

\* What a node answers for certain agrees with its record.
LEMMA CertainlyCertain ==
    ASSUME decision \in [Node -> Decision], NEW n \in Node
    PROVE  /\ Certainly(n) \subseteq {"committed", "aborted"}
           /\ "committed" \in Certainly(n) => decision[n] = "committed"
           /\ "aborted" \in Certainly(n) => decision[n] = "aborted" \/ (decision[n] = "none" /\ Asym)
           /\ decision[n] = "committed" => Certainly(n) = {"committed"}
BY DEF Certainly, Known, Decision

\* Only who has reason to ask does.
LEMMA NextAskers ==
    ASSUME CmTypeOK, MaxFailures \leq 1, Askers, CmNext
    PROVE  Askers'
<1> USE CommitAssumption
<1>t. /\ asking \in [Node -> Question] /\ decision \in [Node -> Decision] /\ coord \in Process
      /\ Others \subseteq Node
  BY DEF CmTypeOK, Question, Process, Others
<1>1. CASE UNCHANGED <<asking, up>> /\ (coord.pc = "killed" => coord'.pc = "killed")
  BY <1>1 DEF Askers, NoQuestion
<1>2. ASSUME NEW n \in Node, Crash(n) PROVE Askers'
  <2>1. AllWell
    BY <1>2, MayFail DEF Crash
  <2>2. \A k \in Node : asking[k] = NoQuestion
    BY <2>1 DEF AllWell, Askers, Died, Others
  <2>3. \A k \in Node : asking'[k] = NoQuestion
    BY <1>2, <1>t, <2>2 DEF Crash, EndQuestion
  <2> QED
    BY <2>3 DEF Askers, NoQuestion
<1>3. ASSUME NEW n \in Node, GetAnswer(n) PROVE Askers'
  <2>1. PICK k \in asking[n].ask :
            asking' = [asking EXCEPT ![n].ask = @ \ {k},
                             ![n].said = @ \cup (IF k \in up THEN Certainly(k) ELSE {})]
    BY <1>3 DEF GetAnswer
  <2>2. k \in Node /\ asking[n].on
    BY <2>1, <1>t DEF Askers, NoQuestion, Question
  <2>3. /\ asking'[n].on = asking[n].on
        /\ asking'[n].said \subseteq asking[n].said \cup Certainly(k)
        /\ \A j \in Node \ {n} : asking'[j] = asking[j]
    BY <2>1, <1>t DEF Question
  <2>4. asking'[n].said \subseteq {"committed", "aborted"}
    BY <2>2, <2>3, <1>t, CertainlyCertain DEF Askers
  <2>5. UNCHANGED <<up, coord>>
    BY <1>3 DEF GetAnswer
  <2> QED
    BY <2>2, <2>3, <2>4, <2>5 DEF Askers
<1>4. ASSUME NEW n \in Node, NEW tell, Ask(n, tell), n \in up, UNCHANGED <<up, coord>>,
             IF n = Coord THEN coord.pc = "killed" ELSE Coord \notin up
      PROVE  Askers'
  BY <1>4, <1>t, CertainlyCertain DEF Ask, Askers
<1>5. ASSUME NEW n \in Node, EndQuestion(n), UNCHANGED up,
             n = Coord \/ (coord.pc = "killed" => coord'.pc = "killed")
      PROVE  Askers'
  BY <1>5, <1>t DEF EndQuestion, Askers, NoQuestion
<1>6. CASE RecoverCoordinator
  BY <1>5, <1>6 DEF RecoverCoordinator
<1>7. ASSUME ~RecoverCoordinator PROVE coord.pc = "killed" => coord'.pc = "killed"
  BY <1>7, KilledStays
<1>8. ASSUME CoordStep \/ Kill PROVE UNCHANGED <<asking, up>>
  BY <1>8 DEF CoordStep, ReadOnlyCommit, AskCommit, GetReply, AllVotedYes, SomebodyRefused, Kill,
      AllPreCommitted, RecordCommit, MakeUpdates, ReleaseTid, DeleteTransaction, ReturnAbort
<1>9. ASSUME CoordTmStep, ~RecoverCoordinator PROVE Askers'
  <2>1. CASE CoordinatorDied
    BY <2>1, <1>4 DEF CoordinatorDied, TmFree
  <2>2. CASE \E n \in Others : ParticipantDown(n)
    BY <2>2, <1>1, <1>7, <1>9 DEF ParticipantDown
  <2> QED
    BY <1>9, <1>3, <2>1, <2>2 DEF CoordTmStep
<1>10. ASSUME NEW n \in Others, TmStep(n) \/ ParticipantStep(n), ~RecoverCoordinator
       PROVE  Askers'
  <2>1. CASE CoordinatorDown(n)
    BY <2>1, <1>1, <1>4, <1>t DEF CoordinatorDown, TmFree, Others
  <2>2. CASE TellOutcome(n)
    BY <2>2, <1>5, <1>t DEF TellOutcome
  <2>3. CASE GetAnswer(n)
    BY <2>3, <1>3, <1>t
  <2>4. CASE UNCHANGED <<asking, up>>
    BY <2>4, <1>1, <1>7, <1>10
  <2> QED
    BY <1>10, <2>1, <2>2, <2>3, <2>4 DEF TmStep, TakeAskCommit, TakeDoCommit, TakeDoAbort,
       TakeSimpleCommit, Forget,
      ParticipantStep, Vote, PreCommit, ParticipantCommit, ParticipantAbort
<1>11. ASSUME NEW n \in Node, ImCertain(n) \/ LockerRelease(n) PROVE UNCHANGED <<asking, up, coord>>
  BY <1>11 DEF ImCertain, LockerRelease
<1> QED
  BY <1>1, <1>2, <1>6, <1>7, <1>8, <1>9, <1>10, <1>11 DEF CmNext

\* A transaction that has only read never takes part in a protocol.
LEMMA NextOnlyRead ==
    ASSUME CmTypeOK, OnlyRead, CmNext
    PROVE  OnlyRead'
<1> USE CommitAssumption
<1>t. coord \in Process /\ Coord \in Node /\ Others \subseteq Node
  BY DEF CmTypeOK, Process, Others
<1>1. protocol' = protocol
  BY ProtocolKept
<1>2. CASE Updating
  <2> SUFFICES ASSUME NEW m \in msgs', m \notin msgs PROVE m.kind # "simple_commit"
    BY <1>1, <1>2 DEF OnlyRead, Updating
  <2>1. ASSUME CoordStep PROVE m.kind # "simple_commit"
    <3>1. CASE AskCommit \/ AllVotedYes \/ SomebodyRefused \/ AllPreCommitted
      BY <3>1, TellAndGoNew DEF AskCommit, AllVotedYes, SomebodyRefused, AllPreCommitted
    <3>2. CASE RecordCommit \/ ReturnAbort
      BY <3>2 DEF RecordCommit, ReturnAbort, Exchange, ToAll, To, Told
    <3> QED
      BY <1>2, <2>1, <3>1, <3>2 DEF Updating, CoordStep, ReadOnlyCommit, GetReply, Hear, HearDown,
         MakeUpdates, ReleaseTid, DeleteTransaction, Exchange
  <2>2. ASSUME CoordTmStep \/ Kill PROVE m.kind # "simple_commit"
    BY <2>2 DEF CoordTmStep, Kill, ParticipantDown, CoordinatorDied, GetAnswer, RecoverCoordinator,
       Exchange, Tell, ToAll, To, Told
  <2>3. ASSUME NEW n \in Others, TmStep(n) PROVE m.kind # "simple_commit"
    BY <2>3 DEF TmStep, TakeAskCommit, TakeDoCommit, TakeDoAbort, TakeSimpleCommit, Forget,
       CoordinatorDown, GetAnswer, TellOutcome,
       Exchange, Tell, ToAll, To, Told, Ack
  <2>4. ASSUME NEW n \in Others, ParticipantStep(n) PROVE m.kind # "simple_commit"
    BY <2>4 DEF ParticipantStep, Vote, PreCommit, ParticipantCommit, ParticipantAbort,
       Exchange, ToAll, To, Told, Ack
  <2> QED
    BY <2>1, <2>2, <2>3, <2>4 DEF CmNext, ImCertain, LockerRelease, Crash, Exchange
<1>3. CASE ~Updating
  <2>1. /\ protocol = "read_only"
        /\ \A n \in Node : applied[n] = 0
        /\ \A n \in Others : part[n] = "none"
        /\ coord.pc \notin {"votes", "acc", "refusing", "giving_up", "noted", "acks"}
        /\ ~refused
        /\ \A m \in msgs : m.kind # "ask_commit"
    BY <1>3 DEF OnlyRead, Updating
  <2>2. CASE CoordStep
    <3>1. CASE ReadOnlyCommit
      BY <3>1, <2>1, <1>1, <1>3, <1>t DEF ReadOnlyCommit, TellAndGo, Goto, Exchange, ToAll, To, OnlyRead,
         Updating, Process
    <3>2. CASE RecordCommit
      BY <3>2, <2>1, <1>1, <1>3, <1>t DEF RecordCommit, Goto, Asym, OnlyRead, Updating, Process
    <3>3. CASE ReleaseTid \/ DeleteTransaction
      BY <3>3, <2>1, <1>1, <1>3, <1>t DEF ReleaseTid, DeleteTransaction, Goto, OnlyRead, Updating, Process
    <3>4. CASE GetReply
      <4>1. coord.pc = "acks"
        BY <3>4, <2>1 DEF GetReply, Hear, HearDown, At
      <4> QED
        BY <4>1, <2>1
    <3> QED
      BY <2>2, <3>1, <3>2, <3>3, <3>4, <2>1 DEF CoordStep, AskCommit, AllVotedYes, SomebodyRefused,
      AllPreCommitted, MakeUpdates, ReturnAbort, At, Heeded
  <2>3. CASE CoordTmStep \/ Kill
    <3>1. CASE RecoverCoordinator
      <4>1. part' = part /\ refused' = refused /\ coord'.pc = "recovered"
        BY <3>1, <1>t DEF RecoverCoordinator, Goto, Process
      <4>2. applied' = applied
        BY <3>1, <2>1 DEF RecoverCoordinator, GiveUp
      <4>3. \A m \in msgs' : m.kind # "ask_commit"
        BY <3>1, <2>1 DEF RecoverCoordinator, Exchange, Tell, ToAll, To, Told
      <4> QED
        BY <4>1, <4>2, <4>3, <2>1, <1>1, <1>3 DEF OnlyRead, Updating
    <3> QED
      BY <2>3, <3>1, <2>1, <1>1, <1>3, <1>t DEF CoordTmStep, Kill, ParticipantDown, CoordinatorDied,
         GetAnswer, Goto, OnlyRead, Updating, Process
  <2>4. CASE \E n \in Others : TmStep(n)
    <3>1. PICK n \in Others : TmStep(n)
      BY <2>4
    <3>2. UNCHANGED <<part, applied, refused, coord>>
      BY <3>1, <2>1 DEF TmStep, TakeAskCommit, TakeDoCommit, TakeDoAbort, TakeSimpleCommit, Forget,
         CoordinatorDown, GetAnswer, TellOutcome,
         Asym, Follows, Inbox
    <3>3. \A m \in msgs' : m.kind # "ask_commit"
      BY <3>1, <2>1 DEF TmStep, TakeAskCommit, TakeDoCommit, TakeDoAbort, TakeSimpleCommit, Forget,
         CoordinatorDown, GetAnswer, TellOutcome,
       Exchange, Tell, ToAll, To, Told, Ack
    <3> QED
      BY <3>2, <3>3, <2>1, <1>1, <1>3 DEF OnlyRead, Updating
  <2>5. CASE \E n \in Others : ParticipantStep(n)
    BY <2>5, <2>1 DEF ParticipantStep, Vote, PreCommit, ParticipantCommit, ParticipantAbort
  <2>6. CASE \E n \in Node : ImCertain(n) \/ LockerRelease(n) \/ Crash(n)
    <3>1. PICK n \in Node : ImCertain(n) \/ LockerRelease(n) \/ Crash(n)
      BY <2>6
    <3>2. UNCHANGED <<applied, refused, coord>> /\ msgs' \subseteq msgs
      BY <3>1 DEF ImCertain, LockerRelease, Crash, Exchange
    <3>3. \A k \in Others : part'[k] = "none"
      BY <3>1, <2>1 DEF ImCertain, LockerRelease, Crash, Enter, CmTypeOK
    <3> QED
      BY <3>2, <3>3, <2>1, <1>1, <1>3 DEF OnlyRead, Updating
  <2> QED
    BY <2>2, <2>3, <2>4, <2>5, <2>6 DEF CmNext
<1> QED
  BY <1>2, <1>3

\* The steps that are possible before the process has decided.
LEMMA EarlySteps ==
    ASSUME CmTypeOK, Askers, OnlyRead, Starting, Early, Updating, CmNext,
           At("start") \/ At("votes") \/ At("acc")
    PROVE  \/ AskCommit \/ GetReply \/ AllVotedYes \/ SomebodyRefused \/ AllPreCommitted \/ Kill
           \/ \E n \in Others : ParticipantDown(n)
           \/ \E n \in Others : TakeAskCommit(n) \/ Forget(n) \/ Vote(n) \/ PreCommit(n)
           \/ \E n \in Node : LockerRelease(n) \/ Crash(n)
<1> USE CommitAssumption
<1>t. coord \in Process /\ Coord \in Node /\ Others \subseteq Node
  BY DEF CmTypeOK, Process, Others
<1>1. /\ \A m \in msgs : m.kind \notin Aborting \cup Deciding \cup {"simple_commit"}
      /\ \A n \in Node : ~asking[n].on /\ asking[n].ask = {}
      /\ Coord \in up /\ coord.pc \in {"start", "votes", "acc"} /\ protocol # "read_only"
  BY <1>t DEF At, Early, Starting, OnlyRead, Updating, Askers, NoQuestion
<1>2. CoordStep => AskCommit \/ GetReply \/ AllVotedYes \/ SomebodyRefused \/ AllPreCommitted
  BY <1>1 DEF CoordStep, ReadOnlyCommit, RecordCommit, MakeUpdates, ReleaseTid, DeleteTransaction,
     ReturnAbort, At, Heeded
<1>3. CoordTmStep => \E n \in Others : ParticipantDown(n)
  BY <1>1, <1>t DEF CoordTmStep, CoordinatorDied, GetAnswer, RecoverCoordinator, Answered
<1>4. ASSUME NEW n \in Others, TmStep(n) PROVE TakeAskCommit(n) \/ Forget(n)
  BY <1>1, <1>t, <1>4 DEF TmStep, TakeDoCommit, TakeDoAbort, TakeSimpleCommit, CoordinatorDown,
     GetAnswer, TellOutcome,
     Answered, Inbox, Aborting, Deciding
<1>5. ASSUME NEW n \in Others, ParticipantStep(n) PROVE Vote(n) \/ PreCommit(n)
  BY <1>1, <1>5 DEF ParticipantStep, ParticipantCommit, ParticipantAbort, Inbox, Aborting, Deciding
<1>6. ASSUME NEW n \in Node PROVE ~ImCertain(n)
  BY <1>1 DEF ImCertain, Inbox, Certain, Aborting, Deciding
<1> QED
  BY <1>2, <1>3, <1>4, <1>5, <1>6 DEF CmNext

\* The process does not come back to a stage it has left.
LEMMA EarlyBefore ==
    ASSUME CmTypeOK, CmNext, At("start")' \/ At("votes")' \/ At("acc")', protocol # "read_only"
    PROVE  /\ At("start") \/ At("votes") \/ At("acc")
           /\ At("start")' => At("start") /\ coord'.pc = coord.pc
           /\ At("votes")' => At("votes") \/ (At("start") /\ AskCommit)
           /\ At("acc")' => At("acc") \/ (At("votes") /\ AllVotedYes /\ Asym)
<1> USE CommitAssumption
<1>t. coord \in Process
  BY DEF CmTypeOK, Process
<1>1. CASE UNCHANGED <<coord, up>>
  BY <1>1 DEF At
<1>2. ASSUME coord'.pc = coord.pc, up' \subseteq up
      PROVE  /\ At("start") \/ At("votes") \/ At("acc")
             /\ At("start")' => At("start") /\ coord'.pc = coord.pc
             /\ At("votes")' => At("votes")
             /\ At("acc")' => At("acc")
  BY <1>2 DEF At
<1>3. CASE CoordStep
  <2>1. CASE AskCommit
    <3>1. coord'.pc \in {"votes", "killed"} /\ up' = up
      BY <2>1, <1>t, TellingPc DEF AskCommit
    <3> QED
      BY <2>1, <3>1 DEF AskCommit, At
  <2>2. CASE AllVotedYes
    <3>1. coord'.pc \in {"acc", "told", "killed"} /\ up' = up /\ (coord'.pc = "acc" => Asym)
      BY <2>2, <1>t, TellingPc DEF AllVotedYes
    <3> QED
      BY <2>2, <3>1 DEF AllVotedYes, At, Heeded
  <2>3. CASE SomebodyRefused
    <3>1. coord'.pc \in {"refusing", "killed"}
      BY <2>3, <1>t, TellingPc
    <3> QED
      BY <3>1 DEF At
  <2>4. CASE AllPreCommitted
    <3>1. coord'.pc \in {"told", "giving_up", "killed"}
      BY <2>4, <1>t, TellingPc
    <3> QED
      BY <3>1 DEF At
  <2>5. CASE GetReply
    <3>1. coord'.pc = coord.pc /\ up' = up
      BY <2>5, <1>t DEF GetReply, Hear, HearDown, Heard, Process
    <3> QED
      BY <3>1, <1>2
  <2>6. CASE RecordCommit \/ MakeUpdates \/ ReleaseTid \/ DeleteTransaction \/ ReturnAbort
    <3>1. coord'.pc \notin {"start", "votes", "acc"}
      BY <2>6, <1>t DEF RecordCommit, MakeUpdates, ReleaseTid, DeleteTransaction, ReturnAbort, Goto, Process
    <3> QED
      BY <3>1 DEF At
  <2> QED
    BY <1>3, <2>1, <2>2, <2>3, <2>4, <2>5, <2>6 DEF CoordStep, ReadOnlyCommit
<1>4. CASE CoordTmStep
  <2>1. CASE RecoverCoordinator
    BY <2>1, <1>t DEF RecoverCoordinator, Goto, Process, At
  <2>2. CASE \E n \in Others : ParticipantDown(n)
    BY <2>2, <1>t, <1>2 DEF ParticipantDown, Process
  <2> QED
    BY <1>4, <1>1, <2>1, <2>2 DEF CoordTmStep, CoordinatorDied, GetAnswer
<1>5. CASE Kill
  BY <1>5, <1>t DEF Kill, Goto, Process, At
<1>6. ASSUME NEW n \in Others, TmStep(n) \/ ParticipantStep(n)
      PROVE  UNCHANGED <<coord, up>>
  BY <1>6 DEF TmStep, TakeAskCommit, TakeDoCommit, TakeDoAbort, TakeSimpleCommit, Forget,
     CoordinatorDown, GetAnswer, TellOutcome,
      ParticipantStep, Vote, PreCommit, ParticipantCommit, ParticipantAbort
<1>7. ASSUME NEW n \in Node, ImCertain(n) \/ LockerRelease(n) \/ Crash(n)
      PROVE  coord' = coord /\ up' \subseteq up
  BY <1>7 DEF ImCertain, LockerRelease, Crash
<1> QED
  BY <1>1, <1>2, <1>3, <1>4, <1>5, <1>6, <1>7 DEF CmNext

\* Nothing happens before the process has started.
LEMMA NextStarting ==
    ASSUME CmTypeOK, Askers, OnlyRead, Starting, Early, CmNext
    PROVE  Starting'
<1> USE CommitAssumption
<1> SUFFICES ASSUME Updating, At("start")'
             PROVE  /\ msgs' = {} /\ undone' = {} /\ ~refused'
                    /\ \A n \in Node : decision'[n] = "none" /\ applied'[n] = 0
                    /\ \A n \in Others : part'[n] = "none"
  BY ProtocolKept DEF Starting, Updating
<1>1. At("start") /\ coord'.pc = coord.pc /\ coord \in Process
  BY EarlyBefore DEF Updating, CmTypeOK, Process
<1>2. /\ msgs = {} /\ undone = {} /\ ~refused
      /\ \A n \in Node : decision[n] = "none" /\ applied[n] = 0
      /\ \A n \in Others : part[n] = "none"
  BY <1>1 DEF Starting
<1>3. ~AskCommit /\ ~AllVotedYes /\ ~SomebodyRefused /\ ~AllPreCommitted /\ ~Kill
  <2>1. ~AskCommit
    BY <1>1, TellingPc DEF At
  <2> QED
    BY <1>1, <2>1 DEF AllVotedYes, SomebodyRefused, AllPreCommitted, Kill, Heeded, At, Goto, Process
<1>4. ~GetReply
  BY <1>1 DEF GetReply, Hear, HearDown, At
<1>5. \/ \E n \in Others : ParticipantDown(n)
      \/ \E n \in Node : Crash(n)
  <2>1. ASSUME NEW n \in Others PROVE ~TakeAskCommit(n) /\ ~Forget(n) /\ ~Vote(n) /\ ~PreCommit(n)
    BY <1>2 DEF TakeAskCommit, Forget, Vote, PreCommit, Inbox
  <2>2. ASSUME NEW n \in Node PROVE ~LockerRelease(n)
    BY <1>2 DEF LockerRelease, Inbox
  <2> QED
    BY <1>1, <1>3, <1>4, <2>1, <2>2, EarlySteps
<1>6. CASE \E n \in Others : ParticipantDown(n)
  BY <1>6, <1>2 DEF ParticipantDown
<1>7. CASE \E n \in Node : Crash(n)
  BY <1>7, <1>2 DEF Crash, Enter, CmTypeOK
<1> QED
  BY <1>5, <1>6, <1>7

\* No outcome is sent before the process has decided.
LEMMA NextEarly ==
    ASSUME CmTypeOK, Askers, OnlyRead, Starting, Early, CmNext
    PROVE  Early'
<1> USE CommitAssumption
<1> SUFFICES ASSUME Updating, At("votes")' \/ At("acc")', NEW m \in msgs'
             PROVE  m.kind \notin Aborting \cup Deciding
  BY ProtocolKept DEF Early, Updating
<1>1. At("start") \/ At("votes") \/ At("acc")
  BY EarlyBefore DEF Updating
<1>2. \A k \in msgs : k.kind \notin Aborting \cup Deciding
  BY <1>1 DEF Starting, Early
<1>3. coord \in Process /\ coord'.pc \in {"votes", "acc"}
  BY DEF At, CmTypeOK, Process
<1>4. CASE AskCommit
  BY <1>2, <1>4, TellAndGoNew DEF AskCommit, Aborting, Deciding
<1>5. CASE AllVotedYes
  <2>1. Asym
    BY <1>3, <1>5, TellingPc
  <2> QED
    BY <1>2, <1>5, <2>1, TellAndGoNew DEF AllVotedYes, Aborting, Deciding
<1>6. ~SomebodyRefused
  BY <1>3, TellingPc
<1>7. ~AllPreCommitted
  BY <1>3, TellingPc
<1>8. CASE GetReply
  BY <1>2, <1>8 DEF GetReply, Hear, HearDown, Exchange
<1>9. ASSUME NEW n \in Others, TakeAskCommit(n) \/ Forget(n) \/ Vote(n) \/ PreCommit(n) \/ ParticipantDown(n)
      PROVE  m.kind \notin Aborting \cup Deciding
  BY <1>2, <1>9 DEF TakeAskCommit, Forget, Vote, PreCommit, ParticipantDown, Exchange, To, Aborting,
     Deciding
<1>10. ASSUME NEW n \in Node, LockerRelease(n) \/ Crash(n)
       PROVE  m.kind \notin Aborting \cup Deciding
  BY <1>2, <1>10 DEF LockerRelease, Crash, Exchange
<1>11. ~Kill
  BY <1>3 DEF Kill, Goto, Process
<1> QED
  BY <1>1, <1>4, <1>5, <1>6, <1>7, <1>8, <1>9, <1>10, <1>11, EarlySteps

\* The votes that are counted are those that were given.
LEMMA NextVoted ==
    ASSUME CmTypeOK, Reachable, Askers, OnlyRead, Starting, Early, Voted, CmNext
    PROVE  Voted'
<1> USE CommitAssumption
<1> SUFFICES ASSUME Updating, At("votes")'
             PROVE  /\ \A n \in up' : decision'[n] = "none"
                    /\ \A m \in msgs' : m.kind \notin {"pre_commit", "acc_pre_commit"}
                    /\ coord'.commit => VotesMatch'
  BY ProtocolKept DEF Voted, Updating
<1>t. /\ coord \in Process /\ msgs \subseteq Message /\ part \in [Others -> PartPc]
      /\ Coord \in up' /\ coord'.pc = "votes" /\ Coord \in Node
  BY DEF At, CmTypeOK, Process
<1>1. CASE At("start") /\ AskCommit
  <2>1. /\ msgs = {} /\ undone = {}
        /\ \A n \in Node : decision[n] = "none"
        /\ \A n \in Others : part[n] = "none"
    BY <1>1 DEF Starting
  <2>2. PICK p \in BOOLEAN : TellAndGo({}, Others, "ask_commit", Waiting("votes", Others, p)) /\ refused' = ~p
    BY <1>1 DEF AskCommit
  <2>3. coord' = Waiting("votes", Others, p)
    BY <2>2, <1>t, TellAndGoPc
  <2>4. \A m \in msgs' : m.kind = "ask_commit" /\ m.from = Coord /\ m.to \in Others
    BY <2>1, <2>2, TellAndGoNew
  <2>5. UNCHANGED <<up, part, decision, undone>>
    BY <1>1 DEF AskCommit
  <2>6. up \subseteq Node
    BY DEF CmTypeOK
  <2>7. coord'.commit => VotesMatch'
    BY <2>1, <2>2, <2>3, <2>4, <2>5 DEF VotesMatch, Waiting
  <2> QED
    BY <2>1, <2>4, <2>5, <2>6, <2>7
<1>2. CASE At("votes")
  <2>1. /\ \A n \in up : decision[n] = "none"
        /\ \A m \in msgs : m.kind \notin {"pre_commit", "acc_pre_commit"}
        /\ coord.commit => VotesMatch
    BY <1>2 DEF Voted
  <2>2. \/ GetReply
        \/ \E n \in Others : ParticipantDown(n)
        \/ \E n \in Others : TakeAskCommit(n) \/ Forget(n) \/ Vote(n)
        \/ \E n \in Node : LockerRelease(n) \/ Crash(n)
    <3>1. ~AskCommit /\ ~AllVotedYes /\ ~SomebodyRefused /\ ~AllPreCommitted
      BY <1>2, <1>t, TellingPc DEF AskCommit, AllPreCommitted, At, Heeded
    <3>2. ~Kill
      BY <1>t DEF Kill, Goto, Process
    <3>3. \A n \in Others : ~PreCommit(n)
      BY <2>1 DEF PreCommit, Inbox
    <3> QED
      BY <1>2, <3>1, <3>2, <3>3, EarlySteps
  <2>3. CASE GetReply
    <3>1. PICK n \in Others : Hear("votes", n, "vote_yes") \/ Hear("votes", n, "vote_no") \/ HearDown(n)
      BY <2>3, <1>2 DEF GetReply, Hear, At
    <3>2. UNCHANGED <<up, part, decision, undone, refused>> /\ msgs' \subseteq msgs
      BY <2>3 DEF GetReply, Hear, HearDown, Exchange
    <3>3. ASSUME coord'.commit PROVE VotesMatch'
      <4>1. coord.commit /\ Hear("votes", n, "vote_yes")
        BY <1>2, <1>t, <3>1, <3>3 DEF Hear, HearDown, Heard, At, Process
      <4>2. coord'.wait = coord.wait \ {n} /\ coord'.yes = coord.yes \cup {n}
        BY <4>1, <1>t DEF Hear, Heard, Process
      <4>3. VotesMatch
        BY <2>1, <4>1
      <4>4. PICK v \in msgs : v.kind = "vote_yes" /\ v.from = n
        BY <4>1 DEF Hear, To
      <4>5. n \in up => part[n] = "voted"
        BY <4>3, <4>4 DEF VotesMatch
      <4>6. ~Refuser(n) /\ \A k \in Others \ {n} : Refuser(k) => Refuser(k)'
        BY <4>2, <4>4, <3>2 DEF Refuser
      <4>7. ASSUME NEW m \in msgs', m.kind = "ask_commit"
            PROVE  m.from = Coord /\ m.to \in coord'.wait /\ part'[m.to] = "none"
        <5>1. m.to # n
          <6>1. part[m.to] = "none" /\ m.to \in up
            BY <4>3, <4>7, <3>2 DEF VotesMatch, Reachable
          <6> QED
            BY <6>1, <4>5
        <5> QED
          BY <5>1, <4>2, <4>3, <4>7, <3>2 DEF VotesMatch
      <4> QED
        BY <4>2, <4>3, <4>5, <4>6, <4>7, <3>2 DEF VotesMatch
    <3> QED
      BY <2>1, <3>2, <3>3
  <2>4. CASE \E n \in Others : ParticipantDown(n)
    <3>1. UNCHANGED <<up, part, decision, undone, refused, msgs>>
      BY <2>4 DEF ParticipantDown
    <3>2. coord'.commit = coord.commit /\ coord'.wait = coord.wait /\ coord'.yes = coord.yes
      BY <2>4, <1>t DEF ParticipantDown, Process
    <3> QED
      BY <2>1, <3>1, <3>2 DEF VotesMatch, Refuser
  <2>5. ASSUME NEW n \in Others, TakeAskCommit(n)
        PROVE  /\ \A k \in up' : decision'[k] = "none"
               /\ \A m \in msgs' : m.kind \notin {"pre_commit", "acc_pre_commit"}
               /\ coord'.commit => VotesMatch'
    <3>1. PICK a \in msgs : /\ a.kind = "ask_commit" /\ a.to = n
                            /\ IF Asym THEN Enter(n, "prepare") /\ Exchange({a}, {})
                               ELSE Enter(n, "voted") /\ Exchange({a}, {To(Coord, n, "vote_yes")})
      BY <2>5 DEF TakeAskCommit, Inbox
    <3>2. UNCHANGED <<up, coord, decision, undone, refused>> /\ n \in up
      BY <2>5 DEF TakeAskCommit, TmFree
    <3>3. \A m \in msgs' : (m \in msgs /\ m # a) \/ (m.kind = "vote_yes" /\ m.from = n /\ ~Asym)
      BY <3>1 DEF Exchange, To
    <3>4. /\ part'[n] = IF Asym THEN "prepare" ELSE "voted"
          /\ \A k \in Others \ {n} : part'[k] = part[k]
      BY <3>1, <1>t DEF Enter
    <3>5. ASSUME coord.commit PROVE VotesMatch'
      <4>1. VotesMatch
        BY <3>5, <2>1
      <4>2. n \in coord.wait /\ ~Refuser(n)
        BY <4>1, <3>1 DEF VotesMatch, Refuser
      <4>3. \A k \in Others \ {n} : Refuser(k) => Refuser(k)'
        BY <3>2, <3>3, <3>4 DEF Refuser
      <4>4. ASSUME NEW m \in msgs', m.kind = "ask_commit"
            PROVE  m.from = Coord /\ m.to \in coord'.wait /\ part'[m.to] = "none"
        <5>1. m \in msgs /\ m # a /\ m.from = Coord /\ m.to \in coord.wait /\ part[m.to] = "none" /\ a.from = Coord
          BY <4>4, <3>1, <3>3, <4>1 DEF VotesMatch
        <5>2. m.to # n
          BY <5>1, <4>4, <3>1, <1>t DEF Message
        <5>3. m.to \in Others
          BY <5>1, <1>t DEF Process
        <5> QED
          BY <5>1, <5>2, <5>3, <3>2, <3>4
      <4>5. \A m \in msgs' : m.kind = "vote_yes" /\ m.from \in up' => m.from \in Others /\ part'[m.from] = "voted"
        <5>1. part[n] = "none"
          BY <4>1, <3>1 DEF VotesMatch
        <5> QED
          BY <5>1, <4>1, <3>2, <3>3, <3>4 DEF VotesMatch
      <4>6. \A k \in Others \cap up' : /\ part'[k] = "prepare" => k \in coord'.wait
                                       /\ k \notin coord'.wait => part'[k] = "voted"
        BY <4>1, <4>2, <3>2, <3>4 DEF VotesMatch
      <4> QED
        BY <4>1, <4>2, <4>3, <4>4, <4>5, <4>6, <3>2 DEF VotesMatch
    <3> QED
      BY <2>1, <3>2, <3>3, <3>5
  <2>6. ASSUME NEW n \in Others, Forget(n)
        PROVE  /\ \A k \in up' : decision'[k] = "none"
               /\ \A m \in msgs' : m.kind \notin {"pre_commit", "acc_pre_commit"}
               /\ coord'.commit => VotesMatch'
    <3>1. UNCHANGED <<up, coord, decision, undone, refused, msgs>> /\ n \in up /\ part[n] = "ended"
      BY <2>6 DEF Forget, TmFree
    <3>2. part'[n] = "none" /\ \A k \in Others \ {n} : part'[k] = part[k]
      BY <2>6, <1>t DEF Forget, Enter
    <3>3. \A k \in Others : Refuser(k) => Refuser(k)'
      BY <3>1, <3>2 DEF Refuser
    <3>4. coord.wait \subseteq Others
      BY <1>t DEF Process
    <3> QED
      BY <2>1, <3>1, <3>2, <3>3, <3>4 DEF VotesMatch
  <2>7. ASSUME NEW n \in Others, Vote(n)
        PROVE  /\ \A k \in up' : decision'[k] = "none"
               /\ \A m \in msgs' : m.kind \notin {"pre_commit", "acc_pre_commit"}
               /\ coord'.commit => VotesMatch'
    <3>1. UNCHANGED <<up, coord, decision>> /\ n \in up /\ part[n] = "prepare"
      BY <2>7 DEF Vote
    <3>2. \/ /\ Enter(n, "voted")
             /\ Exchange({}, {To(Coord, n, "vote_yes")})
             /\ UNCHANGED <<undone, refused>>
          \/ /\ Enter(n, "ended")
             /\ Exchange({}, {To(Coord, n, "vote_no")})
             /\ undone' = undone \cup {n}
      BY <2>7 DEF Vote
    <3>3. \A m \in msgs' : m \in msgs \/ (m.kind \in {"vote_yes", "vote_no"} /\ m.from = n)
      BY <3>2 DEF Exchange, To
    <3>4. \A k \in Others \ {n} : part'[k] = part[k] /\ (Refuser(k) => Refuser(k)')
      BY <3>1, <3>2, <3>3, <1>t DEF Enter, Refuser
    <3>5. coord.wait \subseteq Others
      BY <1>t DEF Process
    <3>6. ASSUME coord.commit PROVE VotesMatch'
      <4>1. VotesMatch
        BY <3>6, <2>1
      <4>2. n \in coord.wait /\ ~Refuser(n)
        BY <4>1, <3>1 DEF VotesMatch, Refuser
      <4>3. \A m \in msgs : ~(m.kind = "ask_commit" /\ m.to = n) /\ ~(m.kind = "vote_yes" /\ m.from = n)
        BY <4>1, <3>1 DEF VotesMatch
      <4>4. CASE Enter(n, "voted") /\ Exchange({}, {To(Coord, n, "vote_yes")}) /\ UNCHANGED <<undone, refused>>
        <5>1. part'[n] = "voted"
          BY <4>4, <1>t DEF Enter
        <5>2. \A m \in msgs' : m \in msgs \/ (m.kind = "vote_yes" /\ m.from = n)
          BY <4>4 DEF Exchange, To
        <5> QED
          BY <4>1, <4>2, <4>3, <4>4, <5>1, <5>2, <3>1, <3>4, <3>5 DEF VotesMatch
      <4>5. CASE Enter(n, "ended") /\ Exchange({}, {To(Coord, n, "vote_no")}) /\ undone' = undone \cup {n}
        <5>1. part'[n] = "ended"
          BY <4>5, <1>t DEF Enter
        <5>2. \A m \in msgs' : m \in msgs \/ (m.kind = "vote_no" /\ m.from = n)
          BY <4>5 DEF Exchange, To
        <5>3. Refuser(n)'
          BY <4>2, <4>3, <5>1, <5>2, <3>1 DEF Refuser
        <5> QED
          BY <4>1, <4>2, <4>3, <4>5, <5>1, <5>2, <5>3, <3>1, <3>4, <3>5 DEF VotesMatch
      <4> QED
        BY <3>2, <4>4, <4>5
    <3> QED
      BY <2>1, <3>1, <3>3, <3>6
  <2>8. ASSUME NEW n \in Node, LockerRelease(n)
        PROVE  /\ \A k \in up' : decision'[k] = "none"
               /\ \A m \in msgs' : m.kind \notin {"pre_commit", "acc_pre_commit"}
               /\ coord'.commit => VotesMatch'
    <3>1. UNCHANGED <<up, coord, decision, undone, refused, part>> /\ msgs' \subseteq msgs
      BY <2>8 DEF LockerRelease, Exchange
    <3>2. \A k \in Others : Refuser(k) => Refuser(k)'
      BY <3>1 DEF Refuser
    <3> QED
      BY <2>1, <3>1, <3>2 DEF VotesMatch
  <2>9. ASSUME NEW n \in Node, Crash(n)
        PROVE  /\ \A k \in up' : decision'[k] = "none"
               /\ \A m \in msgs' : m.kind \notin {"pre_commit", "acc_pre_commit"}
               /\ coord'.commit => VotesMatch'
    <3>1. /\ UNCHANGED <<coord, decision, undone, refused>> /\ msgs' \subseteq msgs
          /\ up' = up \ {n} /\ n # Coord /\ \A m \in msgs' : m.to # n
      BY <2>9, <1>t DEF Crash
    <3>2. part'[n] = "none" /\ \A k \in Others \ {n} : part'[k] = part[k]
      BY <2>9, <3>1, <1>t DEF Crash, Enter, Others
    <3>3. \A k \in Others : Refuser(k) => Refuser(k)'
      BY <3>1, <3>2 DEF Refuser
    <3>4. coord.wait \subseteq Others
      BY <1>t DEF Process
    <3> QED
      BY <2>1, <3>1, <3>2, <3>3, <3>4 DEF VotesMatch
  <2> QED
    BY <2>2, <2>3, <2>4, <2>5, <2>6, <2>7, <2>8, <2>9
<1> QED
  BY <1>1, <1>2, EarlyBefore DEF Updating

\* In the second phase everybody that confirms has voted yes.
LEMMA NextPreCommitted ==
    ASSUME CmTypeOK, Reachable, Askers, OnlyRead, Starting, Early, Voted, PreCommitted, CmNext
    PROVE  PreCommitted'
<1> USE CommitAssumption
<1> SUFFICES ASSUME Updating, At("acc")'
             PROVE  Asym /\ (coord'.commit => AllUncertain')
  BY ProtocolKept DEF PreCommitted, Updating, Asym
<1>t. /\ coord \in Process /\ msgs \subseteq Message /\ part \in [Others -> PartPc]
      /\ Coord \in up' /\ coord'.pc = "acc" /\ Coord \in Node /\ up \subseteq Node
      /\ decision \in [Node -> Decision] /\ Others = Node \ {Coord}
  BY DEF At, CmTypeOK, Process, Others
<1>1. CASE At("votes") /\ AllVotedYes /\ Asym
  <2>1. /\ \A n \in up : decision[n] = "none"
        /\ \A m \in msgs : m.kind \notin {"pre_commit", "acc_pre_commit"}
        /\ VotesMatch /\ coord.wait = {} /\ coord.commit
    BY <1>1 DEF Voted, AllVotedYes, Heeded
  <2>2. /\ coord.yes = Others /\ undone \cap up = {} /\ ~refused
        /\ \A m \in msgs : m.kind # "ask_commit"
        /\ \A k \in Others \cap up : part[k] = "voted"
    BY <2>1 DEF VotesMatch, Refuser
  <2>3. /\ TellAndGo({}, coord.yes, "pre_commit", [coord EXCEPT !.pc = "acc", !.wait = coord.yes, !.yes = {}])
        /\ LogDecision(Coord, "unclear")
        /\ UNCHANGED <<up, part, undone, refused>>
    BY <1>1 DEF AllVotedYes
  <2>4. coord' = [coord EXCEPT !.pc = "acc", !.wait = coord.yes, !.yes = {}]
    BY <2>3, <1>t, TellAndGoPc
  <2>5. coord'.wait = Others /\ coord'.yes = {}
    BY <2>2, <2>4, <1>t DEF Process
  <2>6. \A m \in msgs' : m \in msgs \/ (m.kind = "pre_commit" /\ m.from = Coord /\ m.to \in Others \cap up)
    BY <2>2, <2>3, TellAndGoNew
  <2>7. decision'[Coord] = "unclear" /\ \A n \in up \ {Coord} : decision'[n] = "none"
    BY <2>1, <2>3, <1>t DEF LogDecision
  <2>8. AllUncertain'
    BY <2>1, <2>2, <2>3, <2>5, <2>6, <2>7, <1>t DEF AllUncertain
  <2> QED
    BY <1>1, <2>8
<1>2. CASE At("acc")
  <2>1. Asym /\ (coord.commit => AllUncertain)
    BY <1>2 DEF PreCommitted
  <2> SUFFICES ASSUME coord'.commit PROVE AllUncertain'
    BY <2>1
  <2>2. \/ GetReply
        \/ \E n \in Others : ParticipantDown(n)
        \/ \E n \in Others : TakeAskCommit(n) \/ Forget(n) \/ Vote(n) \/ PreCommit(n)
        \/ \E n \in Node : LockerRelease(n) \/ Crash(n)
    <3>1. ~AskCommit /\ ~AllVotedYes /\ ~SomebodyRefused /\ ~AllPreCommitted
      BY <1>2, <1>t, TellingPc DEF AskCommit, AllVotedYes, SomebodyRefused, At, Heeded
    <3>2. ~Kill
      BY <1>t DEF Kill, Goto, Process
    <3> QED
      BY <1>2, <3>1, <3>2, EarlySteps
  <2>3. CASE GetReply
    <3>1. PICK n \in Others : Hear("acc", n, "acc_pre_commit") \/ HearDown(n)
      BY <2>3, <1>2 DEF GetReply, Hear, At
    <3>2. UNCHANGED <<up, part, decision, undone, refused>> /\ msgs' \subseteq msgs
      BY <2>3 DEF GetReply, Hear, HearDown, Exchange
    <3>3. coord.commit /\ Hear("acc", n, "acc_pre_commit")
      BY <1>2, <1>t, <3>1 DEF Hear, HearDown, Heard, At, Process
    <3>4. coord'.wait = coord.wait \ {n} /\ coord'.yes = coord.yes \cup {n}
      BY <3>3, <1>t DEF Hear, Heard, Process
    <3>5. AllUncertain
      BY <2>1, <3>3
    <3>6. PICK v \in msgs : v.kind = "acc_pre_commit" /\ v.from = n
      BY <3>3 DEF Hear, To
    <3>7. n \in up => part[n] = "pre_commit" /\ decision[n] = "unclear"
      BY <3>5, <3>6 DEF AllUncertain
    <3>8. \A m \in msgs' : m.kind = "pre_commit" => m.to # n
      BY <3>2, <3>5, <3>7 DEF AllUncertain, Reachable
    <3> QED
      BY <3>2, <3>4, <3>5, <3>7, <3>8 DEF AllUncertain
  <2>4. CASE \E n \in Others : ParticipantDown(n)
    <3>1. UNCHANGED <<up, part, decision, undone, refused, msgs>>
      BY <2>4 DEF ParticipantDown
    <3>2. coord'.commit = coord.commit /\ coord'.wait = coord.wait /\ coord'.yes = coord.yes
      BY <2>4, <1>t DEF ParticipantDown, Process
    <3> QED
      BY <2>1, <3>1, <3>2 DEF AllUncertain
  <2>5. ASSUME ~GetReply, ~\E n \in Others : ParticipantDown(n)
        PROVE  coord' = coord /\ AllUncertain
    BY <2>1, <2>2, <2>5 DEF TakeAskCommit, Forget, Vote, PreCommit, LockerRelease, Crash
  <2>6. ASSUME NEW n \in Others, TakeAskCommit(n) \/ Forget(n) \/ Vote(n), AllUncertain
        PROVE  FALSE
    BY <2>6 DEF AllUncertain, TakeAskCommit, Forget, Vote, Inbox, TmFree
  <2>7. ASSUME NEW n \in Others, PreCommit(n), AllUncertain
        PROVE  AllUncertain'
    <3>1. PICK a \in msgs : a.kind = "pre_commit" /\ a.to = n /\ Exchange({a}, {To(Coord, n, "acc_pre_commit")})
      BY <2>7 DEF PreCommit, Inbox
    <3>2. UNCHANGED <<up, coord, undone, refused>> /\ n \in up
      BY <2>7 DEF PreCommit
    <3>3. \A m \in msgs' : (m \in msgs /\ m # a) \/ (m.kind = "acc_pre_commit" /\ m.from = n)
      BY <3>1 DEF Exchange, To
    <3>4. /\ part'[n] = "pre_commit" /\ decision'[n] = "unclear"
          /\ \A k \in Others \ {n} : part'[k] = part[k]
          /\ \A k \in Node \ {n} : decision'[k] = decision[k]
      BY <2>7, <1>t DEF PreCommit, Enter, LogDecision
    <3>5. ASSUME NEW m \in msgs', m.kind = "pre_commit"
          PROVE  m.from = Coord /\ m.to \in coord'.wait /\ part'[m.to] = "voted"
      <4>1. m \in msgs /\ m # a /\ m.from = Coord /\ m.to \in coord.wait /\ part[m.to] = "voted" /\ a.from = Coord
        BY <2>7, <3>1, <3>3, <3>5 DEF AllUncertain
      <4>2. m.to # n
        BY <4>1, <3>5, <3>1, <1>t DEF Message
      <4>3. m.to \in Others
        BY <4>1, <1>t DEF Process
      <4> QED
        BY <4>1, <4>2, <4>3, <3>2, <3>4
    <3>6. \A m \in msgs' : m.kind = "acc_pre_commit" /\ m.from \in up' =>
             m.from \in Others /\ part'[m.from] = "pre_commit" /\ decision'[m.from] = "unclear"
      BY <2>7, <3>2, <3>3, <3>4, <1>t DEF AllUncertain
    <3>7. \A k \in up' : decision'[k] \notin {"aborted", "committed"}
      BY <2>7, <3>2, <3>4, <1>t DEF AllUncertain
    <3>8. decision'[Coord] = "unclear" /\ \A m \in msgs' : m.kind # "ask_commit"
      BY <2>7, <3>3, <3>4, <1>t DEF AllUncertain
    <3>9. \A k \in Others \cap up' :
             /\ part'[k] \in {"voted", "pre_commit"}
             /\ k \notin coord'.wait => part'[k] = "pre_commit" /\ decision'[k] = "unclear"
      BY <2>7, <3>2, <3>4, <1>t DEF AllUncertain
    <3> QED
      BY <2>7, <3>2, <3>5, <3>6, <3>7, <3>8, <3>9 DEF AllUncertain
  <2>8. ASSUME NEW n \in Node, LockerRelease(n), AllUncertain
        PROVE  AllUncertain'
    <3>1. UNCHANGED <<up, coord, decision, undone, refused, part>> /\ msgs' \subseteq msgs
      BY <2>8 DEF LockerRelease, Exchange
    <3> QED
      BY <2>8, <3>1 DEF AllUncertain
  <2>9. ASSUME NEW n \in Node, Crash(n), AllUncertain
        PROVE  AllUncertain'
    <3>1. /\ UNCHANGED <<coord, decision, undone, refused>> /\ msgs' \subseteq msgs
          /\ up' = up \ {n} /\ n # Coord /\ \A m \in msgs' : m.to # n
      BY <2>9, <1>t DEF Crash
    <3>2. \A k \in Others \ {n} : part'[k] = part[k]
      BY <2>9, <3>1, <1>t DEF Crash, Enter
    <3>3. coord.wait \subseteq Others
      BY <1>t DEF Process
    <3> QED
      BY <2>9, <3>1, <3>2, <3>3 DEF AllUncertain
  <2> QED
    BY <2>2, <2>3, <2>4, <2>5, <2>6, <2>7, <2>8, <2>9
<1> QED
  BY <1>1, <1>2, EarlyBefore DEF Updating

-----------------------------------------------------------------------------
(* Before the decision.                                                    *)

\* Before the decision nobody has a trace of a commit.
LEMMA UndecidedFacts ==
    ASSUME CmTypeOK, Updating, ~Decided, ToldTrue, Recorded
    PROVE  /\ \A m \in msgs : m.kind \notin Deciding
           /\ \A n \in up : decision[n] # "committed" /\ applied[n] = 0
           /\ \A n \in Node : "committed" \notin asking[n].said
           /\ \A pc \in Telling : ~At(pc)
BY DEF CmTypeOK, Decided, ToldTrue, Recorded, At

\* The steps that are possible before the decision.
LEMMA UndecidedSteps ==
    ASSUME CmTypeOK, Updating, ~Decided, OnlyRead, ToldTrue, Recorded, CmNext
    PROVE  \/ AskCommit \/ GetReply \/ AllVotedYes \/ SomebodyRefused \/ AllPreCommitted \/ ReturnAbort
           \/ CoordTmStep \/ Kill
           \/ \E n \in Others : \/ TakeAskCommit(n) \/ TakeDoAbort(n) \/ Forget(n) \/ CoordinatorDown(n)
                                \/ GetAnswer(n) \/ TellOutcome(n)
                                \/ Vote(n) \/ PreCommit(n) \/ ParticipantAbort(n)
           \/ \E n \in Node : ImCertain(n) \/ LockerRelease(n) \/ Crash(n)
<1>1. /\ \A m \in msgs : m.kind \notin Deciding \cup {"simple_commit"}
      /\ \A pc \in Telling : ~At(pc)
      /\ protocol # "read_only"
  BY UndecidedFacts DEF OnlyRead, Updating
<1>2. ~ReadOnlyCommit /\ ~RecordCommit /\ ~MakeUpdates /\ ~ReleaseTid /\ ~DeleteTransaction
  BY <1>1 DEF ReadOnlyCommit, RecordCommit, MakeUpdates, ReleaseTid, DeleteTransaction, Heeded, Telling
<1>3. \A n \in Others : ~TakeDoCommit(n) /\ ~TakeSimpleCommit(n) /\ ~ParticipantCommit(n)
  BY <1>1 DEF TakeDoCommit, TakeSimpleCommit, ParticipantCommit, Inbox, Deciding
<1> QED
  BY <1>2, <1>3 DEF CmNext, CoordStep, TmStep, ParticipantStep

\* Only two steps of the process take the decision; all the others leave a
\* transaction that is not decided undecided, and the updates unmade.
LEMMA NextUndecided ==
    ASSUME CmTypeOK, Updating, ~Decided, Askers, OnlyRead, ToldTrue, Recorded, CmNext,
           ~(AllVotedYes /\ ~Asym), ~(AllPreCommitted /\ coord.commit)
    PROVE  /\ ~Decided' /\ applied' = applied
           /\ \A n \in Node : "committed" \notin asking'[n].said
<1> USE CommitAssumption
<1>t. /\ coord \in Process /\ Coord \in Node /\ up \subseteq Node /\ Others \subseteq Node
      /\ decision \in [Node -> Decision] /\ asking \in [Node -> Question]
  BY DEF CmTypeOK, Process, Question, Others
<1>u. /\ \A m \in msgs : m.kind \notin Deciding
      /\ \A n \in up : decision[n] # "committed" /\ applied[n] = 0
      /\ \A n \in Node : "committed" \notin asking[n].said
      /\ \A pc \in Telling : ~At(pc)
  BY UndecidedFacts
<1>p. Coord \in up => coord.pc \notin Telling
  BY <1>u DEF At
<1> DEFINE Still == /\ \A m \in msgs' : m.kind \notin Deciding
                    /\ \A n \in up' : decision'[n] # "committed"
                    /\ Coord \in up' => coord'.pc \notin Telling
                    /\ applied' = applied
<1>a. CASE UNCHANGED asking /\ Still
  BY <1>a, <1>u DEF Decided
<1>1. CASE AskCommit
  <2>1. coord'.pc \notin Telling
    BY <1>1, <1>t, TellingPc DEF Telling
  <2>2. \A m \in msgs' : m.kind \notin Deciding
    BY <1>1, <1>u, TellAndGoNew DEF AskCommit, Deciding
  <2> QED
    BY <1>1, <1>a, <1>u, <2>1, <2>2 DEF AskCommit
<1>2. CASE GetReply
  <2>1. coord'.pc = coord.pc /\ msgs' \subseteq msgs
    BY <1>2, <1>t DEF GetReply, Hear, HearDown, Heard, Process, Exchange
  <2> QED
    BY <1>2, <1>a, <1>u, <1>p, <2>1 DEF GetReply
<1>3. CASE AllVotedYes
  <2>1. coord'.pc \notin Telling /\ Asym
    BY <1>3, <1>t, TellingPc DEF Telling
  <2>2. \A m \in msgs' : m.kind \notin Deciding
    BY <1>3, <1>u, <2>1, TellAndGoNew DEF AllVotedYes, Deciding
  <2>3. \A n \in up : decision'[n] # "committed"
    BY <1>3, <1>u, <1>t, <2>1 DEF AllVotedYes, LogDecision
  <2> QED
    BY <1>3, <1>a, <2>1, <2>2, <2>3 DEF AllVotedYes
<1>4. CASE SomebodyRefused
  <2>1. coord'.pc \notin Telling
    BY <1>4, <1>t, TellingPc DEF Telling
  <2>2. \A m \in msgs' : m.kind \notin Deciding
    BY <1>4, <1>u, TellAndGoNew DEF SomebodyRefused, Deciding
  <2>3. \A n \in up : decision'[n] # "committed"
    BY <1>4, <1>u, <1>t DEF SomebodyRefused, NoteDecision
  <2> QED
    BY <1>4, <1>a, <2>1, <2>2, <2>3 DEF SomebodyRefused
<1>5. CASE AllPreCommitted
  <2>1. coord'.pc \notin Telling
    BY <1>5, <1>t, TellingPc DEF Telling
  <2>2. \A m \in msgs' : m.kind \notin Deciding
    BY <1>5, <1>u, TellAndGoNew DEF AllPreCommitted, Deciding
  <2> QED
    BY <1>5, <1>a, <1>u, <2>1, <2>2 DEF AllPreCommitted
<1>6. CASE ReturnAbort
  <2>1. coord'.pc \notin Telling
    BY <1>6, <1>t DEF ReturnAbort, Goto, Process, Telling
  <2>2. \A m \in msgs' : m.kind \notin Deciding
    BY <1>6, <1>u, <1>t DEF ReturnAbort, Exchange, ToAll, To, Told, Merge, Deciding
  <2>3. \A n \in up : decision'[n] # "committed"
    BY <1>6, <1>u, <1>t DEF ReturnAbort, NoteDecision, LogDecision, Merge
  <2> QED
    BY <1>6, <1>a, <2>1, <2>2, <2>3 DEF ReturnAbort, GiveUp
<1>7. CASE Kill
  BY <1>7, <1>a, <1>u, <1>t DEF Kill, Goto, Process, Telling
<1>8. CASE \E n \in Others : ParticipantDown(n)
  BY <1>8, <1>a, <1>u, <1>p, <1>t DEF ParticipantDown, Process
<1>9. ASSUME NEW n \in Node, n \in up, NEW tell, Ask(n, tell), UNCHANGED <<up, coord, decision, msgs, applied>>
      PROVE  /\ ~Decided' /\ \A k \in Node : "committed" \notin asking'[k].said
             /\ applied' = applied
  <2>1. "committed" \notin Certainly(n)
    BY <1>9, <1>t, <1>u, CertainlyCertain
  <2> QED
    BY <1>9, <1>t, <1>u, <1>p, <2>1 DEF Ask, Decided
<1>10. ASSUME NEW n \in Node, GetAnswer(n)
       PROVE  /\ ~Decided' /\ \A k \in Node : "committed" \notin asking'[k].said
              /\ applied' = applied
  <2>1. PICK k \in asking[n].ask :
            asking' = [asking EXCEPT ![n].ask = @ \ {k},
                             ![n].said = @ \cup (IF k \in up THEN Certainly(k) ELSE {})]
    BY <1>10 DEF GetAnswer
  <2>2. k \in Node /\ (k \in up => "committed" \notin Certainly(k))
    BY <1>t, <1>u, CertainlyCertain DEF Question
  <2>3. /\ asking'[n].said = asking[n].said \cup (IF k \in up THEN Certainly(k) ELSE {})
        /\ \A j \in Node \ {n} : asking'[j] = asking[j]
    BY <2>1, <1>t DEF Question
  <2> QED
    BY <1>10, <1>u, <1>p, <2>2, <2>3 DEF GetAnswer, Decided
<1>11. ASSUME NEW n \in Node PROVE Outcome(n) = "aborted" /\ \A m \in Tell(n) : m.kind = "do_abort"
  BY <1>u DEF Outcome, Tell, ToAll, To
<1>12. ASSUME NEW n \in Node, EndQuestion(n), Still
       PROVE  ~Decided' /\ (\A k \in Node : "committed" \notin asking'[k].said) /\ applied' = applied
  BY <1>12, <1>t, <1>u DEF EndQuestion, NoQuestion, Decided
<1>13. CASE RecoverCoordinator
  <2>1. coord'.pc \notin Telling
    BY <1>13, <1>t DEF RecoverCoordinator, Goto, Process, Telling
  <2>2. \A m \in msgs' : m.kind \notin Deciding
    <3>1. \A m \in Tell(Coord) \cup Told(Coord, "aborted") : m.kind \notin Deciding
      BY <1>11 DEF Told, ToAll, To, Merge, Deciding
    <3> QED
      BY <1>13, <1>u, <1>11, <3>1 DEF RecoverCoordinator, Exchange
  <2>3. \A n \in up : decision'[n] # "committed"
    BY <1>13, <1>u, <1>t, <1>11 DEF RecoverCoordinator, NoteDecision, LogDecision, Merge
  <2>4. applied' = applied /\ up' = up /\ EndQuestion(Coord)
    BY <1>13, <1>11 DEF RecoverCoordinator, GiveUp
  <2> QED
    BY <1>12, <2>1, <2>2, <2>3, <2>4
<1>14. CASE CoordinatorDied
  BY <1>14, <1>9 DEF CoordinatorDied, TmFree
<1>15. ASSUME NEW n \in Others, TakeAskCommit(n) \/ Forget(n) \/ Vote(n)
       PROVE  UNCHANGED asking /\ Still
  BY <1>15, <1>u, <1>p DEF TakeAskCommit, Forget, Vote, Exchange, To, Deciding
<1>16. ASSUME NEW n \in Others, TakeDoAbort(n) PROVE UNCHANGED asking /\ Still
  <2>1. \A m \in msgs' : m.kind \notin Deciding
    BY <1>16, <1>u DEF TakeDoAbort, Exchange, To, Ack, Deciding
  <2>2. \A k \in up : decision'[k] # "committed"
    BY <1>16, <1>u, <1>t DEF TakeDoAbort, NoteDecision
  <2> QED
    BY <1>16, <2>1, <2>2, <1>p DEF TakeDoAbort, GiveUp
<1>17. ASSUME NEW n \in Others, CoordinatorDown(n)
       PROVE  ~Decided' /\ (\A k \in Node : "committed" \notin asking'[k].said) /\ applied' = applied
  <2>1. CASE Follows(n)
    BY <1>17, <1>9, <1>t, <2>1 DEF CoordinatorDown, TmFree
  <2>2. CASE ~Follows(n)
    BY <1>17, <1>a, <1>u, <1>p, <2>2 DEF CoordinatorDown
  <2> QED
    BY <2>1, <2>2
<1>18. ASSUME NEW n \in Others, TellOutcome(n)
       PROVE  ~Decided' /\ (\A k \in Node : "committed" \notin asking'[k].said) /\ applied' = applied
  BY <1>18, <1>11, <1>12, <1>t, <1>u, <1>p DEF TellOutcome, Exchange, Deciding
<1>19. ASSUME NEW n \in Others, PreCommit(n) \/ ParticipantAbort(n) PROVE UNCHANGED asking /\ Still
  <2>1. \A m \in msgs' : m.kind \notin Deciding
    BY <1>19, <1>u DEF PreCommit, ParticipantAbort, Exchange, To, ToAll, Told, Merge, Deciding
  <2>2. \A k \in up : decision'[k] # "committed"
    BY <1>19, <1>u, <1>t DEF PreCommit, ParticipantAbort, LogDecision, Merge
  <2> QED
    BY <1>19, <2>1, <2>2, <1>p DEF PreCommit, ParticipantAbort, GiveUp
<1>20. ASSUME NEW n \in Node, ImCertain(n) PROVE UNCHANGED asking /\ Still
  BY <1>20, <1>u, <1>p, <1>t DEF ImCertain, Inbox, Exchange, Merge, Deciding
<1>21. ASSUME NEW n \in Node, LockerRelease(n) PROVE UNCHANGED asking /\ Still
  BY <1>21, <1>u, <1>p DEF LockerRelease, Exchange
<1>22. ASSUME NEW n \in Node, Crash(n)
       PROVE  ~Decided' /\ (\A k \in Node : "committed" \notin asking'[k].said) /\ applied' = applied
  BY <1>22, <1>12, <1>u, <1>p DEF Crash
<1>23. CoordTmStep => \/ \E n \in Others : ParticipantDown(n)
                      \/ CoordinatorDied \/ GetAnswer(Coord) \/ RecoverCoordinator
  BY DEF CoordTmStep
<1> HIDE DEF Still
<1>24. ASSUME NEW n \in Others,
              \/ TakeAskCommit(n) \/ TakeDoAbort(n) \/ Forget(n) \/ CoordinatorDown(n)
              \/ GetAnswer(n) \/ TellOutcome(n)
              \/ Vote(n) \/ PreCommit(n) \/ ParticipantAbort(n)
       PROVE  ~Decided' /\ (\A k \in Node : "committed" \notin asking'[k].said) /\ applied' = applied
  <2>1. CASE TakeAskCommit(n) \/ TakeDoAbort(n) \/ Forget(n) \/ Vote(n) \/ PreCommit(n) \/ ParticipantAbort(n)
    BY <2>1, <1>15, <1>16, <1>19, <1>a
  <2> QED
    BY <1>24, <2>1, <1>10, <1>17, <1>18, <1>t
<1>25. ASSUME NEW n \in Node, ImCertain(n) \/ LockerRelease(n) \/ Crash(n)
       PROVE  ~Decided' /\ (\A k \in Node : "committed" \notin asking'[k].said) /\ applied' = applied
  BY <1>25, <1>20, <1>21, <1>22, <1>a
<1> QED
  BY UndecidedSteps, <1>1, <1>2, <1>3, <1>4, <1>5, <1>6, <1>7, <1>8, <1>10, <1>13, <1>14, <1>23, <1>24,
     <1>25, <1>t

\* What has to hold once the transaction is decided.
DecisionInv == AfterDecision /\ Untroubled /\ SomebodyKnows /\ ToldTrue /\ Recorded

\* A transaction that stays undecided has nothing to fulfil.
LEMMA UndecidedInv ==
    ASSUME CmTypeOK, Updating, ~Decided, Askers, OnlyRead, ToldTrue, Recorded, CmNext,
           ~(AllVotedYes /\ ~Asym), ~(AllPreCommitted /\ coord.commit), up' \subseteq up
    PROVE  DecisionInv'
<1>1. ~Decided' /\ applied' = applied /\ \A n \in Node : "committed" \notin asking'[n].said
  BY NextUndecided
<1>2. \A n \in up : applied[n] = 0
  BY UndecidedFacts
<1>3. AfterDecision' /\ SomebodyKnows'
  BY <1>1 DEF AfterDecision, SomebodyKnows
<1>4. Untroubled'
  BY <1>1 DEF Untroubled, Decided, Deciding, Telling, At
<1>5. Recorded'
  BY <1>1, <1>2 DEF Recorded, Decided, Telling, At
<1> QED
  BY <1>1, <1>3, <1>4, <1>5 DEF ToldTrue, DecisionInv

-----------------------------------------------------------------------------
(* The decision.                                                           *)

\* Nobody asks while the process is alive.
LEMMA SilentAskers ==
    ASSUME Askers, Coord \in up, coord.pc # "killed"
    PROVE  \A n \in Node : asking[n] = NoQuestion
BY DEF Askers

\* A message to a node that is up gets on its way.
LEMMA Delivered ==
    ASSUME NEW s, NEW n, NEW kind, NEW taken, Exchange(taken, ToAll(s, n, kind)), NEW k \in s \cap up
    PROVE  \E m \in msgs' : m.kind = kind /\ m.from = n /\ m.to = k
<1>1. To(k, n, kind) \in ToAll(s, n, kind) /\ To(k, n, kind).to = k
  BY DEF ToAll, To
<1>2. To(k, n, kind) \in msgs'
  BY <1>1 DEF Exchange
<1> QED
  BY <1>2 DEF To

\* sym_trans: the decision is taken when all have voted yes.
LEMMA SymDecision ==
    ASSUME CmTypeOK, MaxFailures \leq 1, Reachable, Askers, OnlyRead, Early, Voted, Recorded,
           Updating, AllVotedYes, ~Asym
    PROVE  DecisionInv'
<1> USE CommitAssumption
<1>t. /\ coord \in Process /\ Coord \in Node /\ up \subseteq Node /\ Others = Node \ {Coord}
      /\ At("votes") /\ coord.wait = {} /\ coord.commit
  BY DEF CmTypeOK, Process, AllVotedYes, Heeded, Others
<1>1. /\ \A n \in up : decision[n] = "none"
      /\ \A m \in msgs : m.kind \notin {"pre_commit", "acc_pre_commit", "ask_commit"} \cup Aborting \cup Deciding
      /\ undone \cap up = {} /\ ~refused
      /\ \A k \in Others \cap up : part[k] = "voted"
  BY <1>t DEF Voted, VotesMatch, Refuser, Early
<1>2. \A n \in Node : asking[n] = NoQuestion
  BY <1>t, SilentAskers DEF At
<1>3. PICK s \in SUBSET Others :
          /\ Exchange({}, ToAll(s, Coord, "do_commit"))
          /\ \/ s = Others /\ coord' = [coord EXCEPT !.pc = "told", !.wait = Others]
             \/ Goto("killed") /\ Failures < MaxFailures
  BY TellAndGoSends DEF AllVotedYes
<1>4. UNCHANGED <<protocol, up, part, asking, decision, applied, undone, refused>>
  BY DEF AllVotedYes
<1>5. coord'.pc \in {"told", "killed"} /\ Coord \in up
  BY <1>t, TellingPc DEF At
<1>6. \A m \in msgs' : m \in msgs \/ (m.kind = "do_commit" /\ m.from = Coord /\ m.to \in s \cap up)
  BY <1>3 DEF Exchange, ToAll, To
<1>7. \A k \in s \cap up : \E m \in msgs' : m.kind = "do_commit" /\ m.from = Coord /\ m.to = k
  BY <1>3, Delivered
<1>8. AfterDecision'
  BY <1>1, <1>2, <1>4, <1>5, <1>6 DEF AfterDecision, Aborting, NoQuestion, Asym, Telling
<1>9. \A k \in s \cap up : Knows(k)'
  BY <1>4, <1>7 DEF Knows, Asym
<1>10. Untroubled'
  <2> SUFFICES ASSUME AllWell'
               PROVE  /\ \A m \in msgs' :
                            /\ m.kind = "do_commit" => ~Asym /\ m.from = Coord /\ m.to \in Others
                            /\ m.kind \notin {"committed", "certain_committed"}
                      /\ \A k \in Others : Knows(k)'
    BY <1>4 DEF Untroubled, Asym
  <2>1. s = Others /\ up = Node
    BY <1>3, <1>4, <1>t DEF AllWell, Died, Goto, Process
  <2> QED
    BY <1>1, <1>6, <1>9, <1>t, <2>1 DEF Deciding
<1>11. SomebodyKnows'
  <2>1. Decided' /\ coord'.pc = "killed" => \E k \in up : Knows(k)'
    BY <1>1, <1>4, <1>6, <1>9 DEF Decided, Telling
  <2> QED
    BY <1>2, <1>4, <1>5, <2>1 DEF SomebodyKnows, NoQuestion
<1>12. ToldTrue' /\ Recorded'
  BY <1>2, <1>4, <1>5 DEF ToldTrue, Recorded, NoQuestion, Updating, At
<1> QED
  BY <1>8, <1>10, <1>11, <1>12 DEF DecisionInv

\* asym_trans: the decision is taken when all have confirmed that they are uncertain.
LEMMA AsymDecision ==
    ASSUME CmTypeOK, MaxFailures \leq 1, Reachable, Askers, OnlyRead, Early, PreCommitted, Recorded,
           Updating, AllPreCommitted, coord.commit
    PROVE  DecisionInv'
<1> USE CommitAssumption
<1>t. /\ coord \in Process /\ Coord \in Node /\ up \subseteq Node /\ Others = Node \ {Coord}
      /\ At("acc") /\ coord.wait = {} /\ Asym
  BY DEF CmTypeOK, Process, AllPreCommitted, Heeded, Others, PreCommitted
<1>1. /\ \A n \in up : decision[n] # "committed"
      /\ \A k \in up : decision[k] = "unclear"
      /\ \A m \in msgs : m.kind \notin {"pre_commit", "ask_commit"} \cup Aborting \cup Deciding
      /\ undone \cap up = {} /\ ~refused /\ coord.yes = Others
      /\ \A k \in Others \cap up : part[k] = "pre_commit"
  BY <1>t DEF PreCommitted, AllUncertain, Early
<1>2. \A n \in Node : asking[n] = NoQuestion
  BY <1>t, SilentAskers DEF At
<1>3. PICK s \in SUBSET Others :
          /\ Exchange({}, ToAll(s, Coord, "committed"))
          /\ \/ s = Others
             \/ Goto("killed") /\ Failures < MaxFailures
  BY <1>1, TellAndGoSends DEF AllPreCommitted
<1>4. UNCHANGED <<protocol, up, part, asking, decision, applied, undone, refused>>
  BY DEF AllPreCommitted
<1>5. coord'.pc \in {"told", "killed"} /\ Coord \in up
  BY <1>t, TellingPc DEF At
<1>6. \A m \in msgs' : m \in msgs \/ (m.kind = "committed" /\ m.from = Coord /\ m.to \in s \cap up)
  BY <1>3 DEF Exchange, ToAll, To
<1>7. \A k \in s \cap up : \E m \in msgs' : m.kind = "committed" /\ m.from = Coord /\ m.to = k
  BY <1>3, Delivered
<1>8. AfterDecision'
  BY <1>1, <1>2, <1>4, <1>5, <1>6, <1>t DEF AfterDecision, Aborting, NoQuestion, Asym, Telling
<1>9. \A k \in s \cap up : Knows(k)'
  BY <1>4, <1>7, <1>t DEF Knows, Asym
<1>10. Untroubled'
  <2> SUFFICES ASSUME AllWell'
               PROVE  /\ \A m \in msgs' :
                            /\ m.kind = "committed" => Asym /\ m.from = Coord /\ m.to \in Others
                            /\ m.kind \notin {"do_commit", "certain_committed"}
                      /\ \A k \in Others : Knows(k)'
    BY <1>4 DEF Untroubled, Asym
  <2>1. s = Others /\ up = Node
    BY <1>3, <1>4, <1>t DEF AllWell, Died, Goto, Process
  <2> QED
    BY <1>1, <1>6, <1>9, <1>t, <2>1 DEF Deciding
<1>11. SomebodyKnows'
  <2>1. Decided' /\ coord'.pc = "killed" => \E k \in up : Knows(k)'
    BY <1>1, <1>4, <1>6, <1>9 DEF Decided, Telling
  <2> QED
    BY <1>2, <1>4, <1>5, <2>1 DEF SomebodyKnows, NoQuestion
<1>12. ToldTrue' /\ Recorded'
  BY <1>2, <1>4, <1>5 DEF ToldTrue, Recorded, NoQuestion, Updating, At
<1> QED
  BY <1>8, <1>10, <1>11, <1>12 DEF DecisionInv

-----------------------------------------------------------------------------
(* After the decision.                                                     *)

\* After the decision nobody has a trace of an abort.
LEMMA DecidedFacts ==
    ASSUME CmTypeOK, Updating, Decided, AfterDecision, OnlyRead
    PROVE  /\ protocol # "read_only"
           /\ \A m \in msgs : m.kind \notin Aborting \cup {"ask_commit", "pre_commit", "simple_commit"}
           /\ undone \cap up = {} /\ ~refused
           /\ \A n \in Node : "aborted" \notin asking[n].said
           /\ \A n \in up : decision[n] \in {"committed", IF Asym THEN "unclear" ELSE "none"}
           /\ Coord \in up => coord.pc \in Telling \cup {"ended", "killed", "recovered"}
BY DEF AfterDecision, OnlyRead, Updating

\* The steps that are possible after the decision.
LEMMA DecidedSteps ==
    ASSUME CmTypeOK, Updating, Decided, AfterDecision, OnlyRead, CmNext
    PROVE  \/ GetReply \/ RecordCommit \/ MakeUpdates \/ ReleaseTid \/ DeleteTransaction
           \/ CoordTmStep \/ Kill
           \/ \E n \in Others : \/ TakeDoCommit(n) \/ Forget(n) \/ CoordinatorDown(n)
                                \/ GetAnswer(n) \/ TellOutcome(n) \/ ParticipantCommit(n)
           \/ \E n \in Node : ImCertain(n) \/ LockerRelease(n) \/ Crash(n)
<1>1. /\ protocol # "read_only"
      /\ \A m \in msgs : m.kind \notin {"do_abort", "abort", "ask_commit", "pre_commit", "simple_commit"}
      /\ Coord \in up => coord.pc \in Telling \cup {"ended", "killed", "recovered"}
  BY DecidedFacts DEF Aborting
<1>2. \A n \in Others \cap up : part[n] # "prepare"
  BY DEF AfterDecision
<1>3. ~ReadOnlyCommit /\ ~AskCommit /\ ~AllVotedYes /\ ~SomebodyRefused /\ ~AllPreCommitted /\ ~ReturnAbort
  BY <1>1 DEF ReadOnlyCommit, AskCommit, AllVotedYes, SomebodyRefused, AllPreCommitted, ReturnAbort,
     Heeded, At, Telling
<1>4. \A n \in Others : /\ ~TakeAskCommit(n) /\ ~TakeDoAbort(n) /\ ~TakeSimpleCommit(n)
                        /\ ~Vote(n) /\ ~PreCommit(n) /\ ~ParticipantAbort(n)
  BY <1>1, <1>2, ZenonT(60) DEF TakeAskCommit, TakeDoAbort, TakeSimpleCommit, Vote, PreCommit, ParticipantAbort, Inbox
<1> QED
  BY <1>3, <1>4 DEF CmNext, CoordStep, TmStep, ParticipantStep

\* Whoever asks after the decision learns it.
LEMMA DecidedOutcome ==
    ASSUME CmTypeOK, Updating, Decided, Askers, AfterDecision, SomebodyKnows, NEW n \in Node, Answered(n)
    PROVE  Outcome(n) = "committed" /\ (\A m \in Tell(n) : m.kind = "do_commit") /\ asking[n].said = {"committed"}
<1>1. asking[n].on /\ asking[n].ask = {} /\ asking[n].said \subseteq {"committed", "aborted"}
  BY DEF Answered, Askers
<1>2. "committed" \in asking[n].said /\ "aborted" \notin asking[n].said
  BY <1>1 DEF SomebodyKnows, AfterDecision
<1>3. asking[n].said = {"committed"}
  BY <1>1, <1>2
<1> QED
  BY <1>3 DEF Outcome, Tell, ToAll, To

\* A decision "committed" stays, and so does the news of it.
LEMMA KnowsStays ==
    ASSUME CmTypeOK, Updating, Decided, Askers, AfterDecision, SomebodyKnows, OnlyRead, CmNext,
           ~\E n \in Node : Crash(n)
    PROVE  /\ \A k \in up : decision[k] = "committed" => decision'[k] = "committed"
           /\ \A k \in up : Knows(k) => Knows(k)'
<1> USE CommitAssumption
<1>t. /\ Coord \in Node /\ up \subseteq Node /\ Others \subseteq Node /\ part \in [Others -> PartPc]
      /\ decision \in [Node -> Decision] /\ msgs \subseteq Message
  BY DEF CmTypeOK, Others
<1>d. /\ \A m \in msgs : m.kind \notin Aborting
      /\ \A n \in up : decision[n] \in {"committed", IF Asym THEN "unclear" ELSE "none"}
      /\ \A n \in Others \cap up : ~Asym /\ decision[n] = "none" => part[n] # "none"
      /\ protocol' = protocol
  BY DecidedFacts, ProtocolKept DEF AfterDecision
<1>1. ASSUME decision' = decision, msgs \subseteq msgs'
      PROVE  /\ \A k \in up : decision[k] = "committed" => decision'[k] = "committed"
             /\ \A k \in up : Knows(k) => Knows(k)'
  BY <1>1, <1>d DEF Knows, Asym
<1>2. ASSUME NEW n \in up, LogDecision(n, "committed") \/ NoteDecision(n, "committed"),
             \A m \in msgs : m \in msgs' \/ m.to = n
      PROVE  /\ \A k \in up : decision[k] = "committed" => decision'[k] = "committed"
             /\ \A k \in up : Knows(k) => Knows(k)'
  <2>1. decision'[n] = "committed" /\ \A k \in Node \ {n} : decision'[k] = decision[k]
    BY <1>2, <1>d, <1>t DEF LogDecision, NoteDecision, Merge
  <2> QED
    BY <1>2, <1>d, <1>t, <2>1 DEF Knows, Asym
<1>3. ASSUME decision' = decision, NEW a \in msgs, msgs \ {a} \subseteq msgs',
             \/ a.kind \notin {"committed", "do_commit"}
             \/ Asym /\ a.kind = "do_commit"
             \/ decision[a.to] = "committed"
      PROVE  /\ \A k \in up : decision[k] = "committed" => decision'[k] = "committed"
             /\ \A k \in up : Knows(k) => Knows(k)'
  BY <1>3, <1>d DEF Knows, Asym
<1>4. CASE GetReply
  <2>1. decision' = decision
    BY <1>4 DEF GetReply
  <2>2. \/ msgs' = msgs
        \/ \E a \in msgs : msgs' = msgs \ {a} /\ a.kind \in ToCoord
    BY <1>4 DEF GetReply, Hear, HearDown, Exchange, To, ToCoord
  <2>3. \A k \in up : Knows(k) => Knows(k)'
    BY <2>1, <2>2, <1>d DEF Knows, Asym, ToCoord
  <2> QED
    BY <2>1, <2>3
<1>5. CASE RecordCommit
  BY <1>5, <1>2, <1>d DEF RecordCommit, At, Exchange
<1>6. CASE MakeUpdates \/ ReleaseTid \/ DeleteTransaction \/ Kill
  BY <1>6, <1>1 DEF MakeUpdates, ReleaseTid, DeleteTransaction, Kill
<1>7. CASE CoordTmStep
  <2>1. CASE RecoverCoordinator
    <3>1. Outcome(Coord) = "committed" /\ Coord \in up
      BY <2>1, DecidedOutcome DEF RecoverCoordinator, Answered
    <3> QED
      BY <2>1, <3>1, <1>2 DEF RecoverCoordinator, Exchange
  <2> QED
    BY <1>7, <1>1, <2>1 DEF CoordTmStep, ParticipantDown, CoordinatorDied, GetAnswer
<1>8. ASSUME NEW n \in Others, Forget(n) \/ CoordinatorDown(n) \/ GetAnswer(n) \/ TellOutcome(n)
      PROVE  decision' = decision /\ msgs \subseteq msgs'
  BY <1>8 DEF Forget, CoordinatorDown, GetAnswer, TellOutcome, Exchange
<1>9. ASSUME NEW n \in Others, TakeDoCommit(n)
      PROVE  /\ \A k \in up : decision[k] = "committed" => decision'[k] = "committed"
             /\ \A k \in up : Knows(k) => Knows(k)'
  <2>1. PICK a \in msgs :
            /\ a.kind = "do_commit" /\ a.to = n
            /\ IF Asym
               THEN /\ Exchange({a}, ToAll({k \in {n} : Follows(k)}, n, "committed"))
                    /\ UNCHANGED <<part, decision, applied, undone, locked>>
               ELSE IF Follows(n)
               THEN /\ NoteDecision(n, "committed")
                    /\ Exchange({a}, Ack(n))
               ELSE /\ Exchange({a}, {})
                    /\ UNCHANGED <<part, decision, applied, undone, locked>>
    BY <1>9 DEF TakeDoCommit, Inbox
  <2>2. n \in up /\ \A m \in msgs : m \in msgs' \/ m = a
    BY <1>9, <2>1 DEF TakeDoCommit, TmFree, Exchange
  <2>3. CASE Asym
    BY <1>3, <2>1, <2>2, <2>3
  <2>4. CASE ~Asym /\ Follows(n)
    BY <1>2, <2>1, <2>2, <2>4
  <2>5. CASE ~Asym /\ ~Follows(n)
    <3>1. decision[n] = "committed"
      BY <1>d, <2>2, <2>5 DEF Follows
    <3> QED
      BY <1>3, <2>1, <2>2, <2>5, <3>1
  <2> QED
    BY <2>3, <2>4, <2>5
<1>10. ASSUME NEW n \in Others, ParticipantCommit(n)
       PROVE  /\ \A k \in up : decision[k] = "committed" => decision'[k] = "committed"
              /\ \A k \in up : Knows(k) => Knows(k)'
  BY <1>10, <1>2 DEF ParticipantCommit, Inbox, Exchange
<1>11. ASSUME NEW n \in Node, ImCertain(n)
       PROVE  /\ \A k \in up : decision[k] = "committed" => decision'[k] = "committed"
              /\ \A k \in up : Knows(k) => Knows(k)'
  <2>1. PICK a \in msgs : /\ a.kind = "certain_committed"
                          /\ decision' = [decision EXCEPT ![n] = Merge(@, "committed")]
                          /\ Exchange({a}, {})
    BY <1>11, <1>d DEF ImCertain, Inbox, Certain, Aborting
  <2>2. \A k \in up : decision'[k] = decision[k] \/ decision'[k] = "committed"
    BY <2>1, <1>d, <1>t DEF Merge
  <2>3. msgs' = msgs \ {a}
    BY <2>1 DEF Exchange
  <2>4. \A k \in up : Knows(k) => Knows(k)'
    BY <1>d, <2>1, <2>2, <2>3 DEF Knows, Asym
  <2> QED
    BY <2>2, <2>4
<1>12. ASSUME NEW n \in Node, LockerRelease(n)
       PROVE  /\ \A k \in up : decision[k] = "committed" => decision'[k] = "committed"
              /\ \A k \in up : Knows(k) => Knows(k)'
  BY <1>12, <1>3 DEF LockerRelease, Inbox, Exchange
<1> QED
  BY DecidedSteps, <1>1, <1>4, <1>5, <1>6, <1>7, <1>8, <1>9, <1>10, <1>11, <1>12

\* The decision is on record before the updates are made.
LEMMA NextRecorded ==
    ASSUME CmTypeOK, Updating, Decided, Askers, AfterDecision, SomebodyKnows, OnlyRead, Recorded, CmNext
    PROVE  Recorded'
<1> USE CommitAssumption
<1>t. /\ Coord \in Node /\ up \subseteq Node /\ Others \subseteq Node /\ coord \in Process
      /\ decision \in [Node -> Decision] /\ applied \in [Node -> 0 .. 2]
  BY DEF CmTypeOK, Others, Process
<1>d. /\ Coord \in up => coord.pc \in Telling \cup {"ended", "killed", "recovered"}
      /\ Coord \in up /\ coord.pc \in {"noted", "acks", "applied", "released"} => decision[Coord] = "committed"
      /\ \A n \in up : applied[n] > 0 => decision[n] = "committed"
      /\ \A n \in up : decision[n] # "aborted"
      /\ protocol # "read_only"
  BY <1>t, DecidedFacts DEF Recorded, At, Telling
<1> SUFFICES /\ Coord \in up' /\ coord'.pc \in {"noted", "acks", "applied", "released"} => decision'[Coord] = "committed"
             /\ \A n \in up' : applied'[n] > 0 => decision'[n] = "committed"
  BY DEF Recorded, At
<1>1. CASE \E n \in Node : Crash(n)
  BY <1>1, <1>d DEF Crash
<1>2. CASE ~\E n \in Node : Crash(n)
  <2>1. \A k \in up : decision[k] = "committed" => decision'[k] = "committed"
    BY <1>2, KnowsStays
  <2>2. ASSUME UNCHANGED applied, up' = up,
               Coord \in up /\ coord'.pc \in {"noted", "acks", "applied", "released"}
                  => coord.pc \in {"noted", "acks", "applied", "released"}
        PROVE  /\ Coord \in up' /\ coord'.pc \in {"noted", "acks", "applied", "released"} => decision'[Coord] = "committed"
               /\ \A n \in up' : applied'[n] > 0 => decision'[n] = "committed"
    BY <2>1, <2>2, <1>d
  <2>3. ASSUME NEW n \in up, Apply(n), decision'[n] = "committed", up' = up,
               Coord \in up /\ coord'.pc \in {"noted", "acks", "applied", "released"}
                  => coord.pc \in {"noted", "acks", "applied", "released"}
        PROVE  /\ Coord \in up' /\ coord'.pc \in {"noted", "acks", "applied", "released"} => decision'[Coord] = "committed"
               /\ \A k \in up' : applied'[k] > 0 => decision'[k] = "committed"
    <3>1. \A k \in Node \ {n} : applied'[k] = applied[k]
      BY <2>3, <1>t DEF Apply
    <3> QED
      BY <2>1, <2>3, <3>1, <1>d, <1>t
  <2>4. CASE GetReply
    <3>1. coord'.pc = coord.pc
      BY <2>4, <1>t DEF GetReply, Hear, HearDown, Heard, Process
    <3> QED
      BY <2>2, <2>4, <3>1 DEF GetReply
  <2>5. CASE RecordCommit
    <3>1. decision'[Coord] = "committed" /\ applied' = applied /\ up' = up /\ Coord \in up
      BY <2>5, <1>t, <1>d DEF RecordCommit, LogDecision, NoteDecision, Merge, At
    <3> QED
      BY <3>1, <2>1, <1>d
  <2>6. CASE MakeUpdates
    <3>1. Coord \in up /\ coord.pc = "noted" /\ Apply(Coord) /\ up' = up /\ decision' = decision
      BY <2>6 DEF MakeUpdates, At
    <3> QED
      BY <3>1, <2>3, <1>d
  <2>7. CASE ReleaseTid \/ DeleteTransaction
    <3>1. coord'.pc \in {"released", "ended"} /\ (coord'.pc = "released" => coord.pc \in {"applied", "acks"})
      BY <2>7, <1>t DEF ReleaseTid, DeleteTransaction, Heeded, At, Goto, Process
    <3> QED
      BY <2>2, <2>7, <3>1 DEF ReleaseTid, DeleteTransaction
  <2>8. CASE Kill
    BY <2>2, <2>8, <1>t DEF Kill, Goto, Process
  <2>9. CASE CoordTmStep
    <3>1. CASE RecoverCoordinator
      <4>1. Outcome(Coord) = "committed" /\ Coord \in up
        BY <3>1, DecidedOutcome DEF RecoverCoordinator, Answered
      <4>2. Apply(Coord) /\ up' = up /\ coord'.pc = "recovered"
        BY <3>1, <4>1, <1>d, <1>t DEF RecoverCoordinator, Goto, Process
      <4>3. decision'[Coord] = "committed"
        BY <3>1, <4>1, <1>d, <1>t DEF RecoverCoordinator, LogDecision, NoteDecision, Merge
      <4> QED
        BY <4>1, <4>2, <4>3, <2>3
    <3>2. CASE \E n \in Others : ParticipantDown(n)
      BY <2>2, <3>2, <1>t DEF ParticipantDown, Process
    <3> QED
      BY <2>9, <2>2, <3>1, <3>2 DEF CoordTmStep, CoordinatorDied, GetAnswer
  <2>10. ASSUME NEW n \in Others, Forget(n) \/ CoordinatorDown(n) \/ GetAnswer(n) \/ TellOutcome(n)
         PROVE  UNCHANGED <<applied, up, coord>>
    BY <2>10 DEF Forget, CoordinatorDown, GetAnswer, TellOutcome
  <2>11. ASSUME NEW n \in Others, TakeDoCommit(n)
         PROVE  \/ UNCHANGED <<applied, up, coord>>
                \/ n \in up /\ Apply(n) /\ decision'[n] = "committed" /\ UNCHANGED <<up, coord>>
    BY <2>11, <1>t DEF TakeDoCommit, NoteDecision, TmFree
  <2>12. ASSUME NEW n \in Others, ParticipantCommit(n)
         PROVE  n \in up /\ Apply(n) /\ decision'[n] = "committed" /\ UNCHANGED <<up, coord>>
    BY <2>12, <1>t, <1>d DEF ParticipantCommit, LogDecision, Merge
  <2>13. ASSUME NEW n \in Node, ImCertain(n) \/ LockerRelease(n)
         PROVE  UNCHANGED <<applied, up, coord>>
    BY <2>13 DEF ImCertain, LockerRelease
  <2> QED
    BY DecidedSteps, <1>2, <2>2, <2>3, <2>4, <2>5, <2>6, <2>7, <2>8, <2>9, <2>10, <2>11, <2>12, <2>13
<1> QED
  BY <1>1, <1>2

\* The decision outlives every step but the failure of a node or the process.
LEMMA DecidedStays ==
    ASSUME CmTypeOK, Updating, Decided, Reachable, Askers, AfterDecision, SomebodyKnows, OnlyRead, Recorded,
           CmNext, ~(\E n \in Node : Crash(n)), ~Kill
    PROVE  Decided'
<1> USE CommitAssumption
<1>t. /\ Coord \in Node /\ up \subseteq Node /\ Others \subseteq Node /\ coord \in Process
      /\ decision \in [Node -> Decision]
  BY DEF CmTypeOK, Others, Process
<1>d. /\ Coord \in up /\ coord.pc \in {"noted", "acks", "applied", "released"} => decision[Coord] = "committed"
      /\ \A n \in up : decision[n] # "aborted"
      /\ \A n \in Others \cap up : /\ ~Asym /\ decision[n] = "none" => part[n] # "none"
                                   /\ Asym /\ decision[n] = "unclear" => part[n] # "none"
      /\ \A n \in up : decision[n] \in {"committed", IF Asym THEN "unclear" ELSE "none"}
      /\ \A m \in msgs : m.kind \notin Aborting
  BY DecidedFacts DEF Recorded, At, AfterDecision, Updating
<1>1. \A k \in up : decision[k] = "committed" => decision'[k] = "committed"
  BY KnowsStays
<1>2. ASSUME UNCHANGED <<coord, decision, up>>, \A m \in msgs : m.kind \in Deciding => m \in msgs'
      PROVE  Decided'
  BY <1>2 DEF Decided
<1>3. ASSUME NEW k \in up, up' = up, decision'[k] = "committed"
      PROVE  Decided'
  BY <1>3 DEF Decided
<1>4. CASE GetReply
  <2>1. coord'.pc = coord.pc
    BY <1>4, <1>t DEF GetReply, Hear, HearDown, Heard, Process
  <2>2. \A m \in msgs : m.kind \in Deciding => m \in msgs'
    BY <1>4 DEF GetReply, Hear, HearDown, Exchange, To, Deciding
  <2> QED
    BY <1>4, <2>1, <2>2 DEF Decided, GetReply
<1>5. CASE RecordCommit
  BY <1>3, <1>5, <1>t, <1>d DEF RecordCommit, LogDecision, NoteDecision, Merge, At
<1>6. CASE MakeUpdates \/ ReleaseTid \/ DeleteTransaction
  <2>1. Coord \in up /\ decision[Coord] = "committed" /\ up' = up
    BY <1>6, <1>d DEF MakeUpdates, ReleaseTid, DeleteTransaction, Heeded, At
  <2> QED
    BY <2>1, <1>1, <1>3
<1>7. CASE CoordTmStep
  <2>1. CASE RecoverCoordinator
    <3>1. Outcome(Coord) = "committed" /\ Coord \in up
      BY <2>1, DecidedOutcome DEF RecoverCoordinator, Answered
    <3>2. decision'[Coord] = "committed" /\ up' = up
      BY <2>1, <3>1, <1>d, <1>t DEF RecoverCoordinator, LogDecision, NoteDecision, Merge
    <3> QED
      BY <3>1, <3>2, <1>3
  <2>2. CASE \E n \in Others : ParticipantDown(n)
    <3>1. coord'.pc = coord.pc /\ UNCHANGED <<up, msgs, decision>>
      BY <2>2, <1>t DEF ParticipantDown, Process
    <3> QED
      BY <3>1 DEF Decided
  <2> QED
    BY <1>7, <1>2, <2>1, <2>2 DEF CoordTmStep, CoordinatorDied, GetAnswer
<1>8. ASSUME NEW n \in Others, Forget(n) \/ CoordinatorDown(n) \/ GetAnswer(n) \/ TellOutcome(n)
      PROVE  Decided'
  BY <1>8, <1>2 DEF Forget, CoordinatorDown, GetAnswer, TellOutcome, Exchange
<1>9. ASSUME NEW n \in Others, TakeDoCommit(n) PROVE Decided'
  <2>1. n \in up /\ up' = up
    BY <1>9 DEF TakeDoCommit, TmFree
  <2>2. CASE Follows(n) /\ Asym
    <3>2. \E m \in msgs' : m.kind = "committed"
      <4>1. PICK a \in msgs : Exchange({a}, ToAll({k \in {n} : Follows(k)}, n, "committed"))
        BY <1>9, <2>2 DEF TakeDoCommit, Inbox
      <4>2. n \in {k \in {n} : Follows(k)} \cap up
        BY <2>1, <2>2
      <4> QED
        BY <4>1, <4>2, Delivered
    <3> QED
      BY <3>2 DEF Decided, Deciding
  <2>3. CASE Follows(n) /\ ~Asym
    <3>1. decision'[n] = "committed"
      BY <1>9, <2>3, <1>t DEF TakeDoCommit, NoteDecision
    <3> QED
      BY <2>1, <3>1, <1>3
  <2>4. CASE ~Follows(n)
    <3>1. decision[n] = "committed"
      BY <2>1, <2>4, <1>d DEF Follows
    <3> QED
      BY <2>1, <3>1, <1>1, <1>3
  <2> QED
    BY <2>2, <2>3, <2>4
<1>10. ASSUME NEW n \in Others, ParticipantCommit(n) PROVE Decided'
  BY <1>10, <1>3, <1>t, <1>d DEF ParticipantCommit, LogDecision, Merge
<1>11. ASSUME NEW n \in Node, ImCertain(n) PROVE Decided'
  <2>1. PICK a \in msgs : /\ a.kind \in Certain /\ a.to = n
                          /\ decision' = [decision EXCEPT ![n] =
                                Merge(@, IF a.kind = "certain_committed" THEN "committed" ELSE "aborted")]
                          /\ Exchange({a}, {})
    BY <1>11 DEF ImCertain, Inbox
  <2>2. a.kind = "certain_committed" /\ UNCHANGED <<coord, up>>
    BY <1>11, <2>1, <1>d DEF ImCertain, Certain, Aborting
  <2>3. CASE n \in up
    <3>1. decision'[n] = "committed"
      BY <2>1, <2>2, <2>3, <1>t, <1>d DEF Merge
    <3> QED
      BY <2>2, <2>3, <3>1, <1>3
  <2>4. n \in up
    BY <2>1 DEF Reachable
  <2> QED
    BY <2>3, <2>4
<1>12. ASSUME NEW n \in Node, LockerRelease(n) PROVE Decided'
  BY <1>12, <1>2 DEF LockerRelease, Inbox, Exchange, Deciding
<1> QED
  BY DecidedSteps, <1>4, <1>5, <1>6, <1>7, <1>8, <1>9, <1>10, <1>11, <1>12

\* No step gives up a decided transaction.
LEMMA NextAfterDecision ==
    ASSUME CmTypeOK, Updating, Decided, Reachable, Askers, AfterDecision, SomebodyKnows, OnlyRead, CmNext
    PROVE  AfterDecision'
<1> USE CommitAssumption
<1>t. /\ Coord \in Node /\ up \subseteq Node /\ Others = Node \ {Coord} /\ coord \in Process
      /\ decision \in [Node -> Decision] /\ part \in [Others -> PartPc] /\ asking \in [Node -> Question]
  BY DEF CmTypeOK, Others, Process, Question
<1>d. /\ protocol # "read_only" /\ protocol' = protocol
      /\ \A m \in msgs : m.kind \notin Aborting \cup {"ask_commit", "pre_commit", "simple_commit"}
      /\ undone \cap up = {} /\ ~refused
      /\ \A n \in Node : "aborted" \notin asking[n].said
      /\ \A n \in up : decision[n] \in {"committed", IF Asym THEN "unclear" ELSE "none"}
      /\ Coord \in up => coord.pc \in Telling \cup {"ended", "killed", "recovered"}
  BY DecidedFacts, ProtocolKept
<1> DEFINE
      Mail == \A m \in msgs' : m.kind \notin Aborting \cup {"ask_commit", "pre_commit"}
      Safe(n) == IF Asym
                 THEN /\ part[n] \in {"pre_commit", "ended", "none"}
                      /\ decision[n] = "unclear" => part[n] = "pre_commit"
                 ELSE /\ part[n] \in {"voted", "none"}
                      /\ decision[n] = "none" => part[n] = "voted"
      SafeThen(n) == IF Asym
                     THEN /\ part'[n] \in {"pre_commit", "ended", "none"}
                          /\ decision'[n] = "unclear" => part'[n] = "pre_commit"
                     ELSE /\ part'[n] \in {"voted", "none"}
                          /\ decision'[n] = "none" => part'[n] = "voted"
      Nodes == /\ \A n \in up' : decision'[n] \in {"committed", IF Asym THEN "unclear" ELSE "none"}
               /\ \A n \in Others \cap up' : SafeThen(n)
      Pc == Coord \in up' => coord'.pc \in Telling \cup {"ended", "killed", "recovered"}
      Told2 == \A n \in Node : "aborted" \notin asking'[n].said
<1>e. \A n \in Others \cap up : Safe(n)
  BY DEF AfterDecision
<1> SUFFICES Mail /\ undone' \cap up' = {} /\ ~refused' /\ Told2 /\ Nodes /\ Pc
  BY <1>d DEF AfterDecision, Asym
<1>1. ASSUME UNCHANGED <<decision, part>>, up' \subseteq up PROVE Nodes
  BY <1>1, <1>d, <1>e
<1>2. ASSUME UNCHANGED <<up, part>>, \A n \in up : decision'[n] \in {decision[n], "committed"} PROVE Nodes
  BY <1>2, <1>d, <1>e
<1>3. ASSUME coord'.pc \in Telling \cup {"ended", "killed", "recovered"} PROVE Pc
  BY <1>3
<1>4. ASSUME coord' = coord, up' \subseteq up PROVE Pc
  BY <1>4, <1>d
<1>5. ASSUME msgs' \subseteq msgs PROVE Mail
  BY <1>5, <1>d
<1>6. ASSUME asking' = asking PROVE Told2
  BY <1>6, <1>d
<1>7. ASSUME NEW n \in Node, EndQuestion(n) PROVE Told2
  BY <1>7, <1>d, <1>t DEF EndQuestion, NoQuestion
<1>8. \A n \in up : "aborted" \notin Certainly(n)
  BY <1>d, <1>t, CertainlyCertain
<1>9. ASSUME NEW n \in up, NEW tell, Ask(n, tell) PROVE Told2
  BY <1>9, <1>8, <1>d, <1>t DEF Ask
<1>10. ASSUME NEW n \in Node, GetAnswer(n) PROVE Told2
  <2>1. PICK k \in asking[n].ask :
            asking' = [asking EXCEPT ![n].ask = @ \ {k},
                             ![n].said = @ \cup (IF k \in up THEN Certainly(k) ELSE {})]
    BY <1>10 DEF GetAnswer
  <2>2. /\ asking'[n].said = asking[n].said \cup (IF k \in up THEN Certainly(k) ELSE {})
        /\ \A j \in Node \ {n} : asking'[j] = asking[j]
    BY <2>1, <1>t DEF Question
  <2> QED
    BY <2>2, <1>8, <1>d
<1>11. \A n \in up : Merge(decision[n], "committed") = "committed"
  BY <1>d DEF Merge
<1>12. \A n \in up : \A m \in Told(n, "committed") : m.kind = "certain_committed"
  BY <1>11 DEF Told, ToAll, To
<1>13. \A n \in Others : \A m \in Ack(n) : m.kind = "ack"
  BY DEF Ack, To
<1> HIDE DEF Mail, Nodes, Pc, Told2
<1>20. CASE GetReply
  <2>1. coord'.pc = coord.pc /\ msgs' \subseteq msgs
    BY <1>20, <1>t, ZenonT(60) DEF GetReply, Hear, HearDown, Heard, Process, Exchange
  <2>2. Pc
    BY <1>20, <2>1, <1>d DEF GetReply, Pc
  <2> QED
    BY <1>20, <2>1, <2>2, <1>1, <1>5, <1>6, <1>d DEF GetReply
<1>21. CASE RecordCommit
  <2>1. Pc
    BY <1>21, <1>3, <1>t DEF RecordCommit, Goto, Process, Telling
  <2>2. Mail
    BY <1>21, <1>12, <1>d DEF RecordCommit, At, Exchange, Mail, Aborting
  <2>3. \A n \in up : decision'[n] \in {decision[n], "committed"}
    BY <1>21, <1>11, <1>t DEF RecordCommit, At, LogDecision, NoteDecision
  <2> QED
    BY <1>21, <2>1, <2>2, <2>3, <1>2, <1>6, <1>d DEF RecordCommit
<1>22. CASE MakeUpdates \/ ReleaseTid \/ DeleteTransaction \/ Kill
  <2>1. Pc
    BY <1>22, <1>3, <1>t DEF MakeUpdates, ReleaseTid, DeleteTransaction, Kill, Goto, Process, Telling
  <2>2. UNCHANGED <<decision, part, up, asking, undone, refused, msgs>>
    BY <1>22 DEF MakeUpdates, ReleaseTid, DeleteTransaction, Kill, Apply
  <2> QED
    BY <2>1, <2>2, <1>1, <1>5, <1>6, <1>d
<1>23. CASE RecoverCoordinator
  <2>1. Outcome(Coord) = "committed" /\ Coord \in up /\ \A m \in Tell(Coord) : m.kind = "do_commit"
    BY <1>23, DecidedOutcome DEF RecoverCoordinator, Answered
  <2>2. Pc
    BY <1>23, <1>3, <1>t DEF RecoverCoordinator, Goto, Process
  <2>3. Mail
    BY <1>23, <2>1, <1>12, <1>d DEF RecoverCoordinator, Exchange, Mail, Aborting
  <2>4. \A n \in up : decision'[n] \in {decision[n], "committed"}
    BY <1>23, <2>1, <1>11, <1>t DEF RecoverCoordinator, LogDecision, NoteDecision
  <2>5. undone' = undone
    BY <1>23, <2>1, <1>d DEF RecoverCoordinator, Apply
  <2> QED
    BY <1>23, <2>2, <2>3, <2>4, <2>5, <1>2, <1>7, <1>d DEF RecoverCoordinator
<1>24. CASE CoordinatorDied
  BY <1>24, <1>1, <1>4, <1>5, <1>9, <1>d DEF CoordinatorDied, TmFree
<1>25. CASE \E n \in Others : ParticipantDown(n)
  <2>1. Pc
    BY <1>25, <1>d, <1>t DEF ParticipantDown, Process, Pc
  <2> QED
    BY <1>25, <2>1, <1>1, <1>5, <1>6, <1>d DEF ParticipantDown
<1>26. CASE \E n \in Node : GetAnswer(n)
  <2>1. Told2
    BY <1>26, <1>10
  <2>2. UNCHANGED <<up, coord, refused, undone, msgs, decision, part>>
    BY <1>26 DEF GetAnswer
  <2> QED
    BY <2>1, <2>2, <1>1, <1>4, <1>5, <1>d
<1>27. ASSUME NEW n \in Others, TakeDoCommit(n)
       PROVE  Mail /\ undone' \cap up' = {} /\ ~refused' /\ Told2 /\ Nodes /\ Pc
  <2>1. Mail
    BY <1>27, <1>13, <1>d DEF TakeDoCommit, Exchange, ToAll, To, Mail, Aborting
  <2>2. n \in up /\ UNCHANGED <<up, coord, asking, refused, undone>>
    BY <1>27 DEF TakeDoCommit, TmFree, Apply
  <2>3. Nodes
    <3>1. CASE UNCHANGED <<decision, part>>
      BY <3>1, <2>2, <1>1
    <3>2. CASE ~Asym /\ NoteDecision(n, "committed") /\ Enter(n, "none")
      <4>1. decision'[n] = "committed" /\ part'[n] = "none"
        BY <3>2, <1>t DEF NoteDecision, Enter
      <4>2. \A k \in Node \ {n} : decision'[k] = decision[k] /\ (k \in Others => part'[k] = part[k])
        BY <3>2, <1>t DEF NoteDecision, Enter
      <4> QED
        BY <3>2, <4>1, <4>2, <2>2, <1>d, <1>e, <1>t DEF Nodes
    <3> QED
      BY <1>27, <3>1, <3>2 DEF TakeDoCommit
  <2> QED
    BY <2>1, <2>2, <2>3, <1>4, <1>6, <1>d
<1>28. ASSUME NEW n \in Others, Forget(n)
       PROVE  Mail /\ undone' \cap up' = {} /\ ~refused' /\ Told2 /\ Nodes /\ Pc
  <2>1. UNCHANGED <<up, coord, asking, refused, undone, msgs, decision>> /\ part[n] = "ended" /\ n \in up
    BY <1>28 DEF Forget, TmFree
  <2>2. part'[n] = "none" /\ \A k \in Others \ {n} : part'[k] = part[k]
    BY <1>28, <1>t DEF Forget, Enter
  <2>3. Asym /\ decision[n] = "committed"
    BY <2>1, <1>d, <1>e
  <2>4. Nodes
    BY <2>1, <2>2, <2>3, <1>d, <1>e DEF Nodes
  <2> QED
    BY <2>1, <2>4, <1>4, <1>5, <1>6, <1>d
<1>29. ASSUME NEW n \in Others, CoordinatorDown(n)
       PROVE  Mail /\ undone' \cap up' = {} /\ ~refused' /\ Told2 /\ Nodes /\ Pc
  <2>1. UNCHANGED <<up, coord, refused, undone, msgs, decision, part>> /\ n \in up
    BY <1>29 DEF CoordinatorDown, TmFree
  <2>2. Told2
    BY <1>29, <2>1, <1>6, <1>9 DEF CoordinatorDown
  <2> QED
    BY <2>1, <2>2, <1>1, <1>4, <1>5, <1>d
<1>30. ASSUME NEW n \in Others, TellOutcome(n)
       PROVE  Mail /\ undone' \cap up' = {} /\ ~refused' /\ Told2 /\ Nodes /\ Pc
  <2>1. \A m \in Tell(n) : m.kind = "do_commit"
    BY <1>30, <1>t, DecidedOutcome DEF TellOutcome
  <2>2. Mail
    BY <1>30, <2>1, <1>d DEF TellOutcome, Exchange, Mail, Aborting
  <2>3. UNCHANGED <<up, coord, refused, undone, decision, part>> /\ EndQuestion(n) /\ n \in Node
    BY <1>30, <1>t DEF TellOutcome
  <2> QED
    BY <2>2, <2>3, <1>1, <1>4, <1>7, <1>d
<1>31. ASSUME NEW n \in Others, ParticipantCommit(n)
       PROVE  Mail /\ undone' \cap up' = {} /\ ~refused' /\ Told2 /\ Nodes /\ Pc
  <2>1. n \in up /\ UNCHANGED <<up, coord, asking, refused, undone>> /\ part[n] = "pre_commit"
    BY <1>31 DEF ParticipantCommit, Apply
  <2>2. Mail
    BY <1>31, <2>1, <1>12, <1>13, <1>d DEF ParticipantCommit, Exchange, Mail, Aborting
  <2>3. decision'[n] = "committed" /\ part'[n] = "ended"
    BY <1>31, <2>1, <1>11, <1>t DEF ParticipantCommit, LogDecision, Enter
  <2>4. \A k \in Node \ {n} : decision'[k] = decision[k] /\ (k \in Others => part'[k] = part[k])
    BY <1>31, <1>t DEF ParticipantCommit, LogDecision, Enter
  <2>5. Asym
    BY <2>1, <1>e
  <2>6. Nodes
    BY <2>1, <2>3, <2>4, <2>5, <1>d, <1>e, <1>t DEF Nodes
  <2> QED
    BY <2>1, <2>2, <2>6, <1>4, <1>6, <1>d
<1>32. ASSUME NEW n \in Node, ImCertain(n)
       PROVE  Mail /\ undone' \cap up' = {} /\ ~refused' /\ Told2 /\ Nodes /\ Pc
  <2>1. PICK a \in msgs : /\ a.kind = "certain_committed" /\ a.to = n
                          /\ decision' = [decision EXCEPT ![n] = Merge(@, "committed")]
                          /\ Exchange({a}, {})
    BY <1>32, <1>d DEF ImCertain, Inbox, Certain, Aborting
  <2>2. UNCHANGED <<up, coord, asking, refused, undone, part>>
    BY <1>32 DEF ImCertain
  <2>3. \A k \in up : decision'[k] \in {decision[k], "committed"}
    BY <2>1, <1>11, <1>t
  <2>4. msgs' \subseteq msgs
    BY <2>1 DEF Exchange
  <2> QED
    BY <2>2, <2>3, <2>4, <1>2, <1>4, <1>5, <1>6, <1>d
<1>33. ASSUME NEW n \in Node, LockerRelease(n)
       PROVE  Mail /\ undone' \cap up' = {} /\ ~refused' /\ Told2 /\ Nodes /\ Pc
  BY <1>33, <1>1, <1>4, <1>5, <1>6, <1>d DEF LockerRelease, Exchange
<1>34. ASSUME NEW n \in Node, Crash(n)
       PROVE  Mail /\ undone' \cap up' = {} /\ ~refused' /\ Told2 /\ Nodes /\ Pc
  <2>1. /\ UNCHANGED <<coord, refused, undone, decision>> /\ up' = up \ {n} /\ msgs' \subseteq msgs
        /\ EndQuestion(n)
    BY <1>34 DEF Crash
  <2>2. \A k \in Others \ {n} : part'[k] = part[k]
    BY <1>34, <1>t DEF Crash, Enter
  <2>3. Nodes
    BY <2>1, <2>2, <1>d, <1>e DEF Nodes
  <2> QED
    BY <2>1, <2>3, <1>4, <1>5, <1>7, <1>d
<1>35. CoordTmStep => \/ \E n \in Others : ParticipantDown(n)
                      \/ CoordinatorDied \/ GetAnswer(Coord) \/ RecoverCoordinator
  BY DEF CoordTmStep
<1> QED
  BY DecidedSteps, <1>20, <1>21, <1>22, <1>23, <1>24, <1>25, <1>26, <1>27, <1>28, <1>29, <1>30, <1>31,
     <1>32, <1>33, <1>34, <1>35, <1>t

\* While nothing has failed nobody asks and nobody takes over.
LEMMA WellSteps ==
    ASSUME CmTypeOK, Updating, Decided, Askers, AfterDecision, OnlyRead, CmNext, AllWell'
    PROVE  /\ AllWell /\ up' = up
           /\ \/ GetReply \/ RecordCommit \/ MakeUpdates \/ ReleaseTid \/ DeleteTransaction
              \/ \E n \in Others : TakeDoCommit(n) \/ Forget(n) \/ ParticipantCommit(n)
              \/ \E n \in Node : ImCertain(n) \/ LockerRelease(n)
<1> USE CommitAssumption
<1>t. Coord \in Node /\ up \subseteq Node /\ Others = Node \ {Coord} /\ coord \in Process
  BY DEF CmTypeOK, Others, Process
<1>1. up' = Node /\ coord'.pc \notin {"killed", "recovered"}
  BY DEF AllWell, Died
<1>2. ~Kill /\ ~RecoverCoordinator
  BY <1>1, <1>t DEF Kill, RecoverCoordinator, Goto, Process
<1>3. \A n \in Node : ~Crash(n)
  BY <1>1 DEF Crash
<1>4. coord.pc # "killed"
  BY <1>1, <1>2, KilledStays
<1>5. up = Node
  BY <1>1, <1>2, <1>3, DecidedSteps
     DEF GetReply, RecordCommit, MakeUpdates, ReleaseTid, DeleteTransaction, CoordTmStep, ParticipantDown,
         CoordinatorDied, GetAnswer, TakeDoCommit, Forget, CoordinatorDown, TellOutcome, ParticipantCommit,
         ImCertain, LockerRelease
<1>6. \A n \in Node : asking[n] = NoQuestion
  BY <1>4, <1>5, <1>t, SilentAskers
<1>7. /\ ~CoordTmStep
      /\ \A n \in Others : ~CoordinatorDown(n) /\ ~GetAnswer(n) /\ ~TellOutcome(n)
  <2>1. \A n \in Node : ~GetAnswer(n) /\ ~TellOutcome(n)
    <3>1. \A n \in Node : asking[n].ask = {} /\ ~asking[n].on
      BY <1>6 DEF NoQuestion
    <3>2. ASSUME NEW n \in Node, GetAnswer(n) PROVE FALSE
      BY <3>1, <3>2 DEF GetAnswer
    <3>3. ASSUME NEW n \in Node, TellOutcome(n) PROVE FALSE
      BY <3>1, <3>3 DEF TellOutcome, Answered
    <3> QED
      BY <3>2, <3>3
  <2>2. \A n \in Others : ~CoordinatorDown(n) /\ ~ParticipantDown(n)
    BY <1>5, <1>t DEF CoordinatorDown, ParticipantDown
  <2>3. ~CoordinatorDied
    BY <1>4 DEF CoordinatorDied
  <2> QED
    BY <1>2, <1>t, <2>1, <2>2, <2>3 DEF CoordTmStep
<1>8. \/ GetReply \/ RecordCommit \/ MakeUpdates \/ ReleaseTid \/ DeleteTransaction
      \/ \E n \in Others : TakeDoCommit(n) \/ Forget(n) \/ ParticipantCommit(n)
      \/ \E n \in Node : ImCertain(n) \/ LockerRelease(n)
  BY <1>2, <1>3, <1>7, DecidedSteps
<1>9. coord.pc # "recovered"
  <2>1. SUFFICES ASSUME coord.pc = "recovered" PROVE FALSE
    OBVIOUS
  <2>2. coord' # coord
    BY <2>1, <1>1
  <2> QED
    BY <1>8, <2>1, <2>2
       DEF GetReply, Hear, HearDown, RecordCommit, MakeUpdates, ReleaseTid, DeleteTransaction, Heeded, At,
           TakeDoCommit, Forget, ParticipantCommit, ImCertain, LockerRelease
<1> QED
  BY <1>1, <1>4, <1>5, <1>8, <1>9 DEF AllWell, Died

\* While nothing fails, word of the process comes before certainty.
LEMMA NextUntroubled ==
    ASSUME CmTypeOK, Updating, Decided, Reachable, Askers, AfterDecision, Untroubled, SomebodyKnows, OnlyRead, CmNext
    PROVE  Untroubled'
<1> USE CommitAssumption
<1> SUFFICES ASSUME AllWell' PROVE Untroubled'
  BY DEF Untroubled
<1>t. /\ Coord \in Node /\ Others = Node \ {Coord} /\ coord \in Process
      /\ decision \in [Node -> Decision] /\ part \in [Others -> PartPc] /\ msgs \subseteq Message
  BY DEF CmTypeOK, Others, Process
<1>1. AllWell /\ up = Node /\ up' = up
  BY WellSteps DEF AllWell
<1>2. /\ \A m \in msgs :
            /\ m.kind = "do_commit" => ~Asym /\ m.from = Coord /\ m.to \in Others
            /\ m.kind = "committed" => Asym /\ m.from = Coord /\ m.to \in Others
            /\ m.kind = "certain_committed" =>
                  IF m.from = Coord THEN m.to \in Others /\ Knows(m.to)
                                    ELSE m.from \in Others /\ decision[m.from] = "committed"
      /\ At("told") => \A k \in Others : Knows(k)
  BY <1>1 DEF Untroubled
<1>3. ~\E n \in Node : Crash(n)
  BY <1>1 DEF Crash
<1>4. /\ \A k \in Node : decision[k] = "committed" => decision'[k] = "committed"
      /\ \A k \in Node : Knows(k) => Knows(k)'
  BY <1>1, <1>3, KnowsStays
<1>5. protocol' = protocol
  BY ProtocolKept
<1>6. At("told")' => At("told")
  <2>1. GetReply => coord'.pc = coord.pc
    BY <1>t, ZenonT(60) DEF GetReply, Hear, HearDown, Heard, Process
  <2>2. RecordCommit \/ MakeUpdates \/ ReleaseTid \/ DeleteTransaction => coord'.pc # "told"
    BY <1>t DEF RecordCommit, MakeUpdates, ReleaseTid, DeleteTransaction, Goto, Process
  <2> QED
    BY <1>1, <2>1, <2>2, WellSteps DEF At, TakeDoCommit, Forget, ParticipantCommit, ImCertain, LockerRelease
<1>7. ASSUME NEW m \in msgs',
             m \notin msgs => \/ m.kind = "ack"
                              \/ m.kind = "certain_committed" /\ m.from = Coord /\ m.to \in Others /\ Knows(m.to)'
                              \/ m.kind = "certain_committed" /\ m.from \in Others /\ decision'[m.from] = "committed"
      PROVE  /\ m.kind = "do_commit" => ~Asym' /\ m.from = Coord /\ m.to \in Others
             /\ m.kind = "committed" => Asym' /\ m.from = Coord /\ m.to \in Others
             /\ m.kind = "certain_committed" =>
                   IF m.from = Coord THEN m.to \in Others /\ Knows(m.to)'
                                     ELSE m.from \in Others /\ decision'[m.from] = "committed"
  <2>1. CASE m \in msgs
    <3>1. m.kind = "certain_committed" =>
             IF m.from = Coord THEN m.to \in Others /\ Knows(m.to)'
                               ELSE m.from \in Others /\ decision'[m.from] = "committed"
      BY <1>2, <1>4, <1>t, <2>1
    <3> QED
      BY <1>2, <1>5, <2>1, <3>1 DEF Asym
  <2>2. CASE m \notin msgs
    BY <1>7, <2>2, <1>t
  <2> QED
    BY <2>1, <2>2
<1>8. ASSUME NEW m \in msgs', m \notin msgs
      PROVE  \/ m.kind = "ack"
             \/ m.kind = "certain_committed" /\ m.from = Coord /\ m.to \in Others /\ Knows(m.to)'
             \/ m.kind = "certain_committed" /\ m.from \in Others /\ decision'[m.from] = "committed"
  <2>d. /\ \A n \in Node : decision[n] # "aborted" /\ Merge(decision[n], "committed") = "committed"
        /\ \A x \in msgs : x.kind = "do_commit" => ~Asym
    BY <1>1, <1>2, DecidedFacts DEF Merge
  <2>1. CASE RecordCommit
    <3>1. m \in Told(Coord, "committed") /\ At("told")
      BY <1>8, <2>1 DEF RecordCommit, Exchange
    <3>2. m.kind = "certain_committed" /\ m.from = Coord /\ m.to \in Others
      BY <3>1, <2>d, <1>t DEF Told, ToAll, To
    <3>3. Knows(m.to)
      BY <3>1, <3>2, <1>2
    <3> QED
      BY <3>2, <3>3, <1>4, <1>t
  <2>2. ASSUME NEW n \in Others, ParticipantCommit(n)
        PROVE  \/ m.kind = "ack"
               \/ m.kind = "certain_committed" /\ m.from \in Others /\ decision'[m.from] = "committed"
    <3>1. m \in Told(n, "committed") \cup Ack(n) /\ decision'[n] = "committed"
      BY <1>8, <2>2, <2>d, <1>t DEF ParticipantCommit, Exchange, LogDecision
    <3>2. m \in Ack(n) => m.kind = "ack"
      BY DEF Ack, To
    <3>3. m \in Told(n, "committed") => m.kind = "certain_committed" /\ m.from = n
      BY <2>d, <1>t DEF Told, ToAll, To
    <3> QED
      BY <3>1, <3>2, <3>3
  <2>3. ASSUME NEW n \in Others, TakeDoCommit(n) PROVE m.kind = "ack"
    <3>1. ~Asym
      BY <2>3, <2>d DEF TakeDoCommit, Inbox
    <3> QED
      BY <1>8, <2>3, <3>1 DEF TakeDoCommit, Exchange, Ack, To
  <2>4. /\ ~GetReply /\ ~MakeUpdates /\ ~ReleaseTid /\ ~DeleteTransaction
        /\ \A n \in Others : ~Forget(n)
        /\ \A n \in Node : ~ImCertain(n) /\ ~LockerRelease(n)
    BY <1>8 DEF GetReply, Hear, HearDown, MakeUpdates, ReleaseTid, DeleteTransaction, Forget, ImCertain,
       LockerRelease, Exchange
  <2> QED
    BY <2>1, <2>2, <2>3, <2>4, WellSteps
<1>9. At("told")' => \A k \in Others : Knows(k)'
  BY <1>2, <1>4, <1>6, <1>t
<1> QED
  BY <1>7, <1>8, <1>9 DEF Untroubled

\* A node that has read the word of the process has it on record.
LEMMA ReadKnows ==
    ASSUME NEW k \in up, ~Unread(k), Knows(k)
    PROVE  decision[k] = "committed" /\ "committed" \in Certainly(k)
<1>1. decision[k] = "committed"
  <2>1. SUFFICES ASSUME decision[k] # "committed" PROVE FALSE
    OBVIOUS
  <2>2. PICK m \in msgs : /\ m.from = Coord /\ m.to = k
                          /\ m.kind = IF Asym THEN "committed" ELSE "do_commit"
    BY <2>1 DEF Knows
  <2>3. m \in Inbox(k, {"do_commit", "committed"})
    BY <2>2 DEF Inbox
  <2> QED
    BY <2>1, <2>2, <2>3 DEF Unread
<1> QED
  BY <1>1 DEF Certainly, Known

\* While nothing has failed, somebody else knows a decision that has left its mark.
LEMMA WellKnown ==
    ASSUME CmTypeOK, Updating, AllWell, Untroubled,
           (\E m \in msgs : m.kind \in Deciding) \/ (\E n \in up : decision[n] = "committed")
    PROVE  \E k \in up : Knows(k)
<1>1. up = Node /\ Others \subseteq Node
  BY DEF AllWell, Others
<1>2. CASE \E n \in up : decision[n] = "committed"
  BY <1>2 DEF Knows
<1>3. CASE \E m \in msgs : m.kind \in Deciding
  <2>1. PICK m \in msgs : m.kind \in Deciding
    BY <1>3
  <2>2. CASE m.kind \in {"do_commit", "committed"}
    <3>1. m.to \in Others /\ m.from = Coord /\ m.kind = IF Asym THEN "committed" ELSE "do_commit"
      BY <2>2 DEF Untroubled
    <3> QED
      BY <3>1, <1>1 DEF Knows
  <2>3. CASE m.kind = "certain_committed"
    BY <2>3, <1>1 DEF Untroubled, Knows
  <2> QED
    BY <2>1, <2>2, <2>3 DEF Deciding
<1> QED
  BY <1>2, <1>3

\* The decision survives the process.
LEMMA KillSomebodyKnows ==
    ASSUME CmTypeOK, MaxFailures \leq 1, Updating, Askers, Untroubled, Kill
    PROVE  SomebodyKnows'
<1> USE CommitAssumption
<1> SUFFICES ASSUME Decided' PROVE SomebodyKnows'
  BY DEF SomebodyKnows
<1>1. AllWell /\ Coord \in up /\ coord.pc # "killed"
  BY MayFail DEF Kill
<1>2. UNCHANGED <<up, msgs, decision, asking, protocol>> /\ coord'.pc = "killed"
  BY DEF Kill, Goto, CmTypeOK
<1>3. \A n \in Node : ~asking'[n].on
  BY <1>1, <1>2, SilentAskers DEF NoQuestion
<1>4. (\E m \in msgs : m.kind \in Deciding) \/ (\E n \in up : decision[n] = "committed")
  BY <1>2 DEF Decided, Telling
<1>5. \E k \in up : Knows(k)
  BY <1>1, <1>4, WellKnown
<1>6. \E k \in up' : Knows(k)'
  BY <1>2, <1>5 DEF Knows, Asym
<1> QED
  BY <1>3, <1>6 DEF SomebodyKnows

\* The decision survives the node of the process.
LEMMA CrashSomebodyKnows ==
    ASSUME CmTypeOK, MaxFailures \leq 1, Updating, Askers, Untroubled, NEW n \in Node, Crash(n)
    PROVE  SomebodyKnows'
<1> USE CommitAssumption
<1> SUFFICES ASSUME Decided' PROVE SomebodyKnows'
  BY DEF SomebodyKnows
<1>t. Coord \in Node /\ Others = Node \ {Coord} /\ asking \in [Node -> Question]
  BY DEF CmTypeOK, Others, Question
<1>1. AllWell /\ up = Node /\ coord.pc \notin {"killed", "recovered"}
  BY MayFail DEF Crash, AllWell, Died
<1>2. UNCHANGED <<coord, decision, protocol>> /\ up' = Node \ {n} /\ EndQuestion(n)
  BY <1>1 DEF Crash
<1>3. PICK ms \in SUBSET {m \in msgs : m.from = n /\ m.to # n} :
          Lost(n, ms) /\ msgs' = {m \in msgs \ ms : m.to # n}
  BY DEF Crash
<1>4. \A k \in Node : ~asking'[k].on
  <2>1. \A k \in Node : asking[k] = NoQuestion
    BY <1>1, <1>t, SilentAskers
  <2> QED
    BY <1>2, <1>t, <2>1 DEF EndQuestion, NoQuestion
<1>5. ASSUME n = Coord PROVE \E k \in up' : Knows(k)'
  <2>1. up' = Others
    BY <1>2, <1>5, <1>t
  <2>2. CASE \E k \in up' : decision'[k] = "committed"
    BY <2>2 DEF Knows
  <2>3. CASE \E m \in msgs' : m.kind \in Deciding
    <3>1. PICK m \in msgs' : m.kind \in Deciding
      BY <2>3
    <3>2. m \in msgs \ ms
      BY <1>3
    <3>3. CASE m.kind \in {"do_commit", "committed"}
      <4>1. m.to \in Others /\ m.from = Coord /\ m.kind = IF Asym THEN "committed" ELSE "do_commit"
        BY <1>1, <3>2, <3>3 DEF Untroubled
      <4> QED
        BY <4>1, <2>1, <1>2 DEF Knows, Asym
    <3>4. CASE m.kind = "certain_committed" /\ m.from # Coord
      <4>1. m.from \in Others /\ decision[m.from] = "committed"
        BY <1>1, <3>2, <3>4 DEF Untroubled
      <4> QED
        BY <4>1, <2>1, <1>2 DEF Knows
    <3>5. CASE m.kind = "certain_committed" /\ m.from = Coord
      <4>1. m.to \in Others /\ Knows(m.to)
        BY <1>1, <3>2, <3>5 DEF Untroubled
      <4>2. CASE decision[m.to] = "committed"
        BY <4>1, <4>2, <2>1, <1>2 DEF Knows
      <4>3. CASE decision[m.to] # "committed"
        <5>1. PICK j \in msgs : /\ j.from = Coord /\ j.to = m.to
                                /\ j.kind = IF Asym THEN "committed" ELSE "do_commit"
          BY <4>1, <4>3 DEF Knows
        <5>2. j \notin ms
          <6>1. SUFFICES ASSUME j \in ms PROVE FALSE
            OBVIOUS
          <6>2. m \in {x \in msgs : x.from = n} \ ms
            BY <3>2, <3>5, <1>5
          <6>3. j.kind \in Certain \cup {"release_tid"}
            BY <1>3, <6>1, <6>2, <5>1, <3>5 DEF Lost, Certain
          <6> QED
            BY <5>1, <6>3 DEF Certain
        <5>3. j \in msgs'
          BY <1>3, <1>5, <4>1, <5>1, <5>2, <1>t
        <5> QED
          BY <4>1, <5>1, <5>3, <2>1, <1>2 DEF Knows, Asym
      <4> QED
        BY <4>2, <4>3
    <3> QED
      BY <3>1, <3>3, <3>4, <3>5 DEF Deciding
  <2> QED
    BY <2>1, <2>2, <2>3, <1>t DEF Decided
<1>6. Coord \notin up' \/ coord'.pc = "killed" => n = Coord
  BY <1>1, <1>2, <1>t
<1> QED
  BY <1>4, <1>5, <1>6 DEF SomebodyKnows

\* Whoever asks about a decided transaction has somebody to ask who knows.
LEMMA NextSomebodyKnows ==
    ASSUME CmTypeOK, MaxFailures \leq 1, ~overtaken', Updating, Decided, Askers, AfterDecision, Untroubled,
           SomebodyKnows, OnlyRead, CmNext
    PROVE  SomebodyKnows'
<1> USE CommitAssumption
<1> SUFFICES ASSUME ~Kill, ~\E n \in Node : Crash(n) PROVE SomebodyKnows'
  BY KillSomebodyKnows, CrashSomebodyKnows
<1>t. /\ Coord \in Node /\ up \subseteq Node /\ Others = Node \ {Coord} /\ coord \in Process
      /\ asking \in [Node -> Question] /\ decision \in [Node -> Decision]
  BY DEF CmTypeOK, Others, Process, Question
<1>1. /\ \A k \in up : Knows(k) => Knows(k)'
  BY KnowsStays
<1>2. up' = up
  BY DecidedSteps
     DEF GetReply, RecordCommit, MakeUpdates, ReleaseTid, DeleteTransaction, CoordTmStep, ParticipantDown,
         CoordinatorDied, GetAnswer, RecoverCoordinator, TakeDoCommit, Forget, CoordinatorDown, TellOutcome,
         ParticipantCommit, ImCertain, LockerRelease
<1>3. coord'.pc = "killed" => coord.pc = "killed"
  BY ZenonT(60), DecidedSteps, <1>t
     DEF GetReply, Hear, HearDown, Heard, RecordCommit, MakeUpdates, ReleaseTid, DeleteTransaction, Goto,
        CoordTmStep,
         ParticipantDown, CoordinatorDied, GetAnswer, RecoverCoordinator, TakeDoCommit, Forget,
         CoordinatorDown,
         TellOutcome, ParticipantCommit, ImCertain, LockerRelease, Process
<1>4. Coord \notin up \/ coord.pc = "killed" => \E k \in up : Knows(k)
  BY DEF SomebodyKnows
<1>5. \A n \in Node : asking[n].on => \/ "committed" \in asking[n].said
                                      \/ \E k \in asking[n].ask \cap up : Knows(k)
  BY DEF SomebodyKnows
<1>6. \A n \in up : Certainly(n) \in {{}, {"committed"}}
  BY DecidedFacts DEF Certainly, Known
<1> DEFINE Learns == \A n \in Node : asking'[n].on => \/ "committed" \in asking'[n].said
                                                      \/ \E k \in asking'[n].ask \cap up : Knows(k)'
<1>7. SUFFICES Learns
  BY <1>1, <1>2, <1>3, <1>4 DEF SomebodyKnows
<1>8. ASSUME NEW n \in Node, \A k \in Node \ {n} : asking'[k] = asking[k],
             asking'[n].on => \/ "committed" \in asking'[n].said
                              \/ \E k \in asking'[n].ask \cap up : Knows(k)
      PROVE  Learns
  BY <1>1, <1>5, <1>8
<1>9. ASSUME asking' = asking PROVE Learns
  BY <1>1, <1>5, <1>9
<1>10. ASSUME NEW n \in Node, EndQuestion(n) PROVE Learns
  <2>1. /\ \A k \in Node \ {n} : asking'[k] = asking[k]
        /\ ~asking'[n].on
    BY <1>10, <1>t DEF EndQuestion, NoQuestion
  <2> QED
    BY <2>1, <1>8
<1>11. ASSUME NEW n \in up, NEW tell, up \subseteq tell, Ask(n, tell), Coord \notin up \/ coord.pc = "killed",
              Knows(n) => "committed" \in Certainly(n)
       PROVE  Learns
  <2>1. /\ \A k \in Node \ {n} : asking'[k] = asking[k]
        /\ asking'[n].said = Certainly(n)
        /\ asking'[n].ask = IF Certainly(n) = {} THEN tell \ {n} ELSE {}
    BY <1>11, <1>t DEF Ask
  <2>2. CASE Certainly(n) = {"committed"}
    BY <2>1, <2>2, <1>8, <1>t
  <2>3. CASE Certainly(n) = {}
    <3>1. PICK k \in up : Knows(k)
      BY <1>4, <1>11
    <3>2. k \in asking'[n].ask
      BY <2>1, <2>3, <3>1, <1>11
    <3> QED
      BY <2>1, <3>1, <3>2, <1>8, <1>t
  <2> QED
    BY <2>2, <2>3, <1>6
<1>12. ASSUME NEW n \in Node, GetAnswer(n) PROVE Learns
  <2>1. PICK k \in asking[n].ask :
            /\ k \in up => ~Unread(k)
            /\ asking' = [asking EXCEPT ![n].ask = @ \ {k},
                             ![n].said = @ \cup (IF k \in up THEN Certainly(k) ELSE {})]
    BY <1>12 DEF GetAnswer, AskedOf
  <2>2. /\ \A j \in Node \ {n} : asking'[j] = asking[j]
        /\ asking'[n].on = asking[n].on
        /\ asking'[n].ask = asking[n].ask \ {k}
        /\ asking'[n].said = asking[n].said \cup (IF k \in up THEN Certainly(k) ELSE {})
    BY <2>1, <1>t DEF Question
  <2>3. ASSUME k \in up, Knows(k) PROVE "committed" \in Certainly(k)
    BY <2>1, <2>3, ReadKnows
  <2>4. asking'[n].on => \/ "committed" \in asking'[n].said
                         \/ \E j \in asking'[n].ask \cap up : Knows(j)
    BY <2>2, <2>3, <1>5
  <2> QED
    BY <2>2, <2>4, <1>8
<1> HIDE DEF Learns
<1>13. CASE CoordTmStep
  <2>1. CASE CoordinatorDied
    <3>1. Coord \in up /\ coord.pc = "killed" /\ Ask(Coord, Node)
      BY <2>1 DEF CoordinatorDied, TmFree
    <3>2. Knows(Coord) => "committed" \in Certainly(Coord)
      BY DEF Knows, Others, Certainly, Known
    <3> QED
      BY <3>1, <3>2, <1>11, <1>t
  <2>2. CASE RecoverCoordinator
    BY <2>2, <1>10, <1>t DEF RecoverCoordinator
  <2> QED
    BY <1>13, <2>1, <2>2, <1>9, <1>12, <1>t DEF CoordTmStep, ParticipantDown
<1>14. ASSUME NEW n \in Others, CoordinatorDown(n) PROVE Learns
  <2>1. CASE Ask(n, Others)
    <3>1. n \in up /\ Coord \notin up /\ ~Unread(n)
      BY <1>14 DEF CoordinatorDown, AskedOf, TmFree
    <3>2. Knows(n) => "committed" \in Certainly(n)
      BY <3>1, ReadKnows
    <3> QED
      BY <2>1, <3>1, <3>2, <1>11, <1>t
  <2> QED
    BY <1>14, <2>1, <1>9 DEF CoordinatorDown
<1>15. ASSUME NEW n \in Others, TellOutcome(n) PROVE Learns
  BY <1>15, <1>10, <1>t DEF TellOutcome
<1>16. GetReply \/ RecordCommit \/ MakeUpdates \/ ReleaseTid \/ DeleteTransaction => Learns
  BY <1>9 DEF GetReply, RecordCommit, MakeUpdates, ReleaseTid, DeleteTransaction
<1>17. ASSUME NEW n \in Others, TakeDoCommit(n) \/ Forget(n) \/ ParticipantCommit(n) PROVE Learns
  BY <1>17, <1>9 DEF TakeDoCommit, Forget, ParticipantCommit
<1>18. ASSUME NEW n \in Node, ImCertain(n) \/ LockerRelease(n) PROVE Learns
  BY <1>18, <1>9 DEF ImCertain, LockerRelease
<1> QED
  BY DecidedSteps, <1>12, <1>13, <1>14, <1>15, <1>16, <1>17, <1>18, <1>t

\* Nobody is told "committed" of a transaction that is not decided.
LEMMA NextToldTrue ==
    ASSUME CmTypeOK, MaxFailures \leq 1, Updating, Decided, Reachable, Askers, AfterDecision, SomebodyKnows,
           OnlyRead, Recorded, CmNext
    PROVE  ToldTrue'
<1> USE CommitAssumption
<1>t. /\ Coord \in Node /\ Others = Node \ {Coord} /\ asking \in [Node -> Question]
  BY DEF CmTypeOK, Others, Question
<1>1. ASSUME AllWell PROVE \A n \in Node : asking[n] = NoQuestion
  BY <1>1, <1>t, SilentAskers DEF AllWell, Died
<1>2. CASE Kill
  <2>1. \A n \in Node : asking[n] = NoQuestion
    BY <1>1, <1>2, MayFail DEF Kill
  <2>2. \A n \in Node : asking'[n].said = {}
    BY <1>2, <2>1 DEF Kill, NoQuestion
  <2> QED
    BY <2>2 DEF ToldTrue
<1>3. CASE \E n \in Node : Crash(n)
  <2>1. \A n \in Node : asking[n] = NoQuestion
    BY <1>1, <1>3, MayFail DEF Crash
  <2>2. \A n \in Node : asking'[n].said = {}
    BY <1>3, <1>t, <2>1, SMTT(60) DEF Crash, EndQuestion, NoQuestion
  <2> QED
    BY <2>2 DEF ToldTrue
<1> QED
  BY <1>2, <1>3, DecidedStays DEF ToldTrue

\* No node comes back.
LEMMA UpShrinks == CmNext => up' \subseteq up
BY ZenonT(60) DEF CmNext, CoordStep, ReadOnlyCommit, AskCommit, GetReply, AllVotedYes, SomebodyRefused, Kill,
      AllPreCommitted, RecordCommit, MakeUpdates, ReleaseTid, DeleteTransaction, ReturnAbort, CoordTmStep,
      ParticipantDown, CoordinatorDied, GetAnswer, RecoverCoordinator, TmStep, TakeAskCommit, TakeDoCommit,
      TakeDoAbort, TakeSimpleCommit, Forget, CoordinatorDown, TellOutcome,
      ParticipantStep, Vote, PreCommit, ParticipantCommit, ParticipantAbort, ImCertain, LockerRelease, Crash

\* The decision and the steps before and after it.
LEMMA NextDecisionInv ==
    ASSUME CmTypeOK, MaxFailures \leq 1, ~overtaken', Reachable, Askers, OnlyRead, Early, Voted,
           PreCommitted, DecisionInv, CmNext
    PROVE  DecisionInv'
<1> USE DEF DecisionInv
<1>1. CASE Updating /\ Decided
  BY <1>1, NextAfterDecision, NextUntroubled, NextSomebodyKnows, NextToldTrue, NextRecorded
<1>2. CASE Updating /\ ~Decided
  <2>1. CASE AllVotedYes /\ ~Asym
    BY <1>2, <2>1, SymDecision
  <2>2. CASE AllPreCommitted /\ coord.commit
    BY <1>2, <2>2, AsymDecision
  <2> QED
    BY <1>2, <2>1, <2>2, UndecidedInv, UpShrinks
<1>3. CASE ~Updating
  BY <1>3, ProtocolKept DEF Updating, AfterDecision, Untroubled, SomebodyKnows, ToldTrue, Recorded
<1> QED
  BY <1>1, <1>2, <1>3

-----------------------------------------------------------------------------
(* No preparation once somebody has made the updates.                      *)

NothingToPrepare == /\ \A m \in msgs : m.kind # "ask_commit"
                    /\ \A n \in Others \cap up : part[n] # "prepare"

\* Only the process asks nodes to prepare the commit.
LEMMA NextNothingToPrepare ==
    ASSUME CmTypeOK, NothingToPrepare, CmNext, ~AskCommit
    PROVE  NothingToPrepare'
<1> USE CommitAssumption
<1>t. Others \subseteq Node /\ part \in [Others -> PartPc] /\ up' \subseteq up
  BY UpShrinks DEF CmTypeOK, Others
<1>1. /\ \A n \in Node, outcome \in Decision : \A m \in Told(n, outcome) : m.kind # "ask_commit"
      /\ \A n \in Node : \A m \in Tell(n) \cup Ack(n) : m.kind # "ask_commit"
  BY DEF Told, Tell, Ack, ToAll, To
<1>2. ASSUME part' = part, NEW taken, NEW sent, \A m \in sent : m.kind # "ask_commit",
             Exchange(taken, sent)
      PROVE  NothingToPrepare'
  BY <1>2, <1>t DEF Exchange, NothingToPrepare
<1>3. ASSUME part' = part, msgs' = msgs PROVE NothingToPrepare'
  BY <1>3, <1>t DEF NothingToPrepare
<1>4. ASSUME NEW n \in Others, NEW pc, pc # "prepare", part' = part \/ Enter(n, pc),
             NEW taken, NEW sent, \A m \in sent : m.kind # "ask_commit", Exchange(taken, sent)
      PROVE  NothingToPrepare'
  BY <1>4, <1>t DEF Exchange, Enter, NothingToPrepare
<1>5. ASSUME part' = part, NEW taken, NEW ns, NEW kind, NEW next, kind # "ask_commit",
             TellAndGo(taken, ns, kind, next)
      PROVE  NothingToPrepare'
  BY <1>5, <1>t, TellAndGoNew DEF NothingToPrepare
<1>6. CASE CoordStep
  <2>1. CASE ReadOnlyCommit \/ AllVotedYes \/ SomebodyRefused \/ AllPreCommitted
    BY <2>1, <1>5 DEF ReadOnlyCommit, AllVotedYes, SomebodyRefused, AllPreCommitted
  <2>2. CASE GetReply
    BY <2>2, <1>2, <1>3 DEF GetReply, Hear, HearDown
  <2>3. CASE RecordCommit
    BY <2>3, <1>1, <1>2, <1>3 DEF RecordCommit, Decision
  <2>4. CASE ReturnAbort
    <3>1. \A m \in Told(Coord, "aborted") \cup ToAll(Others, Coord, "release_tid") : m.kind # "ask_commit"
      BY DEF Told, ToAll, To
    <3>2. \A m \in ToAll(Others, Coord, "release_tid") : m.kind # "ask_commit"
      BY <3>1
    <3> QED
      BY <2>4, <3>1, <3>2, <1>2 DEF ReturnAbort
  <2> QED
    BY <1>6, <2>1, <2>2, <2>3, <2>4, <1>3 DEF CoordStep, MakeUpdates, ReleaseTid, DeleteTransaction
<1>7. CASE CoordTmStep \/ Kill
  <2>1. CASE RecoverCoordinator
    <3>1. \A m \in Tell(Coord) \cup Told(Coord, Outcome(Coord)) : m.kind # "ask_commit"
      BY <1>1 DEF Outcome, Decision
    <3> QED
      BY <2>1, <3>1, <1>2 DEF RecoverCoordinator
  <2> QED
    BY <1>7, <2>1, <1>3 DEF CoordTmStep, ParticipantDown, CoordinatorDied, GetAnswer, Kill
<1>8. ASSUME NEW n \in Others, TmStep(n) PROVE NothingToPrepare'
  <2>1. ~TakeAskCommit(n)
    BY DEF NothingToPrepare, TakeAskCommit, Inbox
  <2>2. \A m \in ToAll({k \in {n} : Follows(k)}, n, "committed") \cup {To(n, n, "abort")} \cup Ack(n) : m.kind # "ask_commit"
    BY DEF ToAll, To, Ack
  <2>3. CASE TakeDoCommit(n)
    <3>1. part' = part \/ Enter(n, "none")
      BY <2>3 DEF TakeDoCommit
    <3>2. \E m \in msgs, sent \in {ToAll({k \in {n} : Follows(k)}, n, "committed"), Ack(n), {}} : Exchange({m}, sent)
      BY <2>3 DEF TakeDoCommit, Inbox
    <3> QED
      BY <3>1, <3>2, <2>2, <1>4
  <2>4. CASE TakeDoAbort(n)
    <3>1. part' = part \/ Enter(n, "none")
      BY <2>4 DEF TakeDoAbort
    <3>2. \E m \in msgs, sent \in {{To(n, n, "abort")}, Ack(n), {}} : Exchange({m}, sent)
      BY <2>4 DEF TakeDoAbort, Inbox
    <3> QED
      BY <3>1, <3>2, <2>2, <1>4
  <2>5. CASE TakeSimpleCommit(n)
    BY <2>5, <1>2 DEF TakeSimpleCommit
  <2>6. CASE Forget(n)
    BY <2>6, <1>t DEF Forget, Enter, NothingToPrepare
  <2>7. CASE TellOutcome(n)
    BY <2>7, <1>1, <1>2, <1>t DEF TellOutcome
  <2>8. CASE CoordinatorDown(n) \/ GetAnswer(n)
    BY <2>8, <1>3 DEF CoordinatorDown, GetAnswer
  <2> QED
    BY <1>8, <2>1, <2>3, <2>4, <2>5, <2>6, <2>7, <2>8 DEF TmStep
<1>9. ASSUME NEW n \in Others, ParticipantStep(n) PROVE NothingToPrepare'
  <2>1. CASE Vote(n)
    BY <2>1 DEF Vote, NothingToPrepare
  <2>2. CASE PreCommit(n)
    <3>1. \E m \in msgs : Exchange({m}, {To(Coord, n, "acc_pre_commit")})
      BY <2>2 DEF PreCommit, Inbox
    <3>2. Enter(n, "pre_commit")
      BY <2>2 DEF PreCommit
    <3> QED
      BY <3>1, <3>2, <1>4 DEF To
  <2>3. CASE ParticipantCommit(n)
    <3>1. \E m \in msgs : Exchange({m}, Told(n, "committed") \cup Ack(n))
      BY <2>3 DEF ParticipantCommit, Inbox
    <3>2. Enter(n, "ended") /\ \A m \in Told(n, "committed") \cup Ack(n) : m.kind # "ask_commit"
      BY <2>3, <1>1, <1>t DEF ParticipantCommit, Decision
    <3> QED
      BY <3>1, <3>2, <1>4
  <2>4. CASE ParticipantAbort(n)
    <3>1. \E m \in msgs, sent \in {{}, Told(n, "aborted")} : Exchange({m}, sent)
      BY <2>4 DEF ParticipantAbort, Inbox
    <3>2. Enter(n, "ended") /\ \A m \in Told(n, "aborted") : m.kind # "ask_commit"
      BY <2>4, <1>1, <1>t DEF ParticipantAbort, Decision
    <3> QED
      BY <3>1, <3>2, <1>4
  <2> QED
    BY <1>9, <2>1, <2>2, <2>3, <2>4 DEF ParticipantStep
<1>10. ASSUME NEW n \in Node, ImCertain(n) \/ LockerRelease(n) PROVE NothingToPrepare'
  BY <1>10 DEF ImCertain, LockerRelease, Exchange, NothingToPrepare
<1>11. ASSUME NEW n \in Node, Crash(n) PROVE NothingToPrepare'
  <2>1. msgs' \subseteq msgs /\ up' = up \ {n} /\ \A k \in Others \ {n} : part'[k] = part[k]
    BY <1>11, <1>t DEF Crash, Enter
  <2> QED
    BY <2>1 DEF NothingToPrepare
<1> QED
  BY <1>6, <1>7, <1>8, <1>9, <1>10, <1>11 DEF CmNext

\* Nobody is still to prepare the commit when the first node makes the updates.
LEMMA NextNobodyPrepares ==
    ASSUME CmTypeOK, Askers, OnlyRead, Starting, NobodyPrepares, AfterDecision, ToldTrue, Recorded, CmNext
    PROVE  NobodyPrepares'
<1> SUFFICES ASSUME \E n \in Node : applied'[n] > 0 PROVE NothingToPrepare'
  BY DEF NobodyPrepares, NothingToPrepare
<1>1. Updating
  <2>1. OnlyRead'
    BY NextOnlyRead
  <2> QED
    BY <2>1, ProtocolKept DEF OnlyRead, Updating
<1>2. CASE \E n \in Node : applied[n] > 0
  <2>1. NothingToPrepare
    BY <1>2 DEF NobodyPrepares, NothingToPrepare
  <2>2. ~AskCommit
    BY <1>1, <1>2 DEF Starting, AskCommit
  <2> QED
    BY <2>1, <2>2, NextNothingToPrepare
<1>3. CASE ~\E n \in Node : applied[n] > 0
  <2>1. applied' # applied
    BY <1>3
  <2>2. ~AskCommit /\ ~AllVotedYes /\ ~AllPreCommitted
    BY <2>1 DEF AskCommit, AllVotedYes, AllPreCommitted
  <2>3. Decided
    BY <1>1, <2>1, <2>2, NextUndecided
  <2>4. NothingToPrepare
    BY <1>1, <2>3, DecidedFacts DEF AfterDecision, NothingToPrepare
  <2> QED
    BY <2>2, <2>4, NextNothingToPrepare
<1> QED
  BY <1>2, <1>3

-----------------------------------------------------------------------------
(* All parts together.                                                     *)

\* The invariant holds at the start, and every step keeps it.
LEMMA CommitInvInit == CmInit => CommitInv
<1> SUFFICES ASSUME CmInit PROVE CommitInv
  OBVIOUS
<1> USE CommitAssumption
<1>1. CmTypeOK
  BY InitType
<1>2. /\ up = Node /\ msgs = {} /\ undone = {} /\ ~refused /\ coord.pc = "start" /\ coord.commit
      /\ \A n \in Node : decision[n] = "none" /\ applied[n] = 0 /\ asking[n] = NoQuestion
      /\ \A n \in Others : part[n] = "none"
  BY DEF CmInit, Waiting, Others
<1>3. ~Decided
  BY <1>2 DEF Decided, Telling
<1>4. \A n \in Node : ~asking[n].on /\ asking[n].said = {}
  BY <1>2 DEF NoQuestion
<1>5. OneFailure /\ Reachable /\ Askers /\ OnlyRead /\ Starting
  BY <1>2, <1>4 DEF OneFailure, Died, Reachable, Askers, OnlyRead, Starting
<1>6. Early /\ Voted /\ PreCommitted /\ NobodyPrepares
  BY <1>2 DEF Early, Voted, PreCommitted, NobodyPrepares, At
<1>7. AfterDecision /\ SomebodyKnows /\ ToldTrue
  BY <1>3, <1>4 DEF AfterDecision, SomebodyKnows, ToldTrue
<1>8. Untroubled /\ Recorded
  BY <1>1, <1>2 DEF Untroubled, Recorded, At, CmTypeOK
<1> QED
  BY <1>1, <1>5, <1>6, <1>7, <1>8 DEF CommitInv

LEMMA CommitInvNext ==
    ASSUME MaxFailures \leq 1, ~overtaken', CommitInv, [CmNext]_commitVars
    PROVE  CommitInv'
<1>1. CASE CmNext
  <2>1. CmTypeOK'
    BY NextType DEF CommitInv
  <2>2. OneFailure' /\ Reachable' /\ Askers' /\ OnlyRead'
    BY <1>1, NextOneFailure, NextReachable, NextAskers, NextOnlyRead DEF CommitInv
  <2>3. Starting' /\ Early' /\ Voted' /\ PreCommitted'
    BY <1>1, NextStarting, NextEarly, NextVoted, NextPreCommitted DEF CommitInv
  <2>4. NobodyPrepares'
    BY <1>1, NextNobodyPrepares DEF CommitInv
  <2>5. DecisionInv'
    BY <1>1, NextDecisionInv DEF CommitInv, DecisionInv
  <2> QED
    BY <2>1, <2>2, <2>3, <2>4, <2>5 DEF CommitInv, DecisionInv
<1>2. CASE UNCHANGED commitVars
  BY <1>2 DEF commitVars, CommitInv, CmTypeOK, OneFailure, Died, Reachable, Askers, OnlyRead, Updating,
     Starting, Early,
     Voted, VotesMatch, Refuser, PreCommitted, AllUncertain, NobodyPrepares, AfterDecision, Untroubled,
     AllWell,
     SomebodyKnows, Knows, ToldTrue, Recorded, Decided, Deciding, Aborting, Telling, At, Asym
<1> QED
  BY <1>1, <1>2

\* What has been overtaken stays so.
LEMMA OvertakenStays == [CmNext]_commitVars /\ overtaken => overtaken'
<1> SUFFICES ASSUME CmNext, overtaken PROVE overtaken'
  BY DEF commitVars
<1>1. CASE CoordStep \/ Kill
  BY <1>1 DEF CoordStep, ReadOnlyCommit, AskCommit, GetReply, AllVotedYes, SomebodyRefused, Kill,
      AllPreCommitted, RecordCommit, MakeUpdates, ReleaseTid, DeleteTransaction, ReturnAbort
<1>2. CASE CoordTmStep
  BY <1>2 DEF CoordTmStep, ParticipantDown, CoordinatorDied, GetAnswer, AskedOf, RecoverCoordinator
<1>3. CASE \E n \in Others : TmStep(n)
  BY <1>3 DEF TmStep, TakeAskCommit, TakeDoCommit, TakeDoAbort, TakeSimpleCommit, Forget, CoordinatorDown,
      GetAnswer, AskedOf, TellOutcome
<1>4. CASE \E n \in Others : ParticipantStep(n)
  BY <1>4 DEF ParticipantStep, Vote, PreCommit, ParticipantCommit, ParticipantAbort
<1>5. CASE \E n \in Node : ImCertain(n) \/ LockerRelease(n) \/ Crash(n)
  BY <1>5 DEF ImCertain, LockerRelease, Crash
<1> QED
  BY <1>1, <1>2, <1>3, <1>4, <1>5 DEF CmNext

\* For any set of nodes, any protocol and any places where the process may be killed:
\* with one failure, no node that is up has a trace of an abort once the process has told
\* anybody to commit, and the decision is found by whoever asks, unless a question has
\* overtaken the word of the process (multi_commit, tell_outcome, mnesia_recover).
THEOREM CommitInvariant ==
    ASSUME MaxFailures \leq 1
    PROVE  CmSpec => [](overtaken \/ CommitInv)
<1>1. (overtaken \/ CommitInv) /\ [CmNext]_commitVars => (overtaken \/ CommitInv)'
  BY CommitInvNext, OvertakenStays
<1> QED
  BY CommitInvInit, <1>1, PTL DEF CmSpec

\* Updates made mean that the decision was to commit, and nobody has given up.
LEMMA CommitInvAgrees ==
    ASSUME CommitInv
    PROVE  Agreement
<1> SUFFICES ASSUME NEW m \in up, NEW n \in up, applied[m] > 0, n \in undone
             PROVE  FALSE
  BY DEF Agreement
<1>1. m \in Node
  BY DEF CommitInv, CmTypeOK
<1>2. Updating
  BY <1>1 DEF CommitInv, OnlyRead, CmTypeOK
<1>3. decision[m] = "committed"
  BY <1>2 DEF CommitInv, Recorded
<1>4. Decided
  BY <1>3 DEF Decided
<1> QED
  BY <1>2, <1>4 DEF CommitInv, AfterDecision

\* "If somebody knows the outcome the others will follow": with one failure no two nodes
\* that are up end the transaction differently, unless a question has overtaken the word of
\* the process (multi_commit of sym_trans and asym_trans, tell_outcome, recover_coordinator).
THEOREM CommitAgreement ==
    ASSUME MaxFailures \leq 1
    PROVE  CmSpec => [](overtaken \/ Agreement)
<1>1. CommitInv => Agreement
  BY CommitInvAgrees
<1> QED
  BY CommitInvariant, <1>1, PTL

\* The process and its node live.
Alive == Coord \in up /\ ~Died

\* Whatever fails, what is dead stays dead.
LEMMA DeadStaysDead ==
    ASSUME CmTypeOK, CmNext, ~Alive
    PROVE  ~Alive'
<1>1. CASE Coord \notin up
  BY <1>1, UpShrinks DEF Alive
<1>2. CASE Coord \in up /\ Died
  <2>1. ~CoordStep /\ ~Kill
    <3>1. /\ \A pc \in CoordPc \ {"killed", "recovered"} : ~At(pc) /\ ~Heeded(pc)
          /\ coord.pc \notin {"votes", "acc", "acks"}
      BY <1>2 DEF Died, At, Heeded
    <3>2. \A n \in Others : /\ ~HearDown(n)
                           /\ \A pc \in {"votes", "acc", "acks"}, kind \in ToCoord : ~Hear(pc, n, kind)
      BY <3>1 DEF Hear, HearDown, CoordPc
    <3>3. ~GetReply
      BY <3>2 DEF GetReply, ToCoord
    <3> QED
      BY <1>2, <3>1, <3>3 DEF Died, CoordPc, CoordStep, ReadOnlyCommit, AskCommit, AllVotedYes, SomebodyRefused,
         Kill, AllPreCommitted, RecordCommit, MakeUpdates, ReleaseTid, DeleteTransaction, ReturnAbort
  <2>2. CASE CoordTmStep
    BY <1>2, <2>2 DEF Alive, Died, CoordTmStep, ParticipantDown, CoordinatorDied, GetAnswer, RecoverCoordinator,
      Goto, CmTypeOK
  <2>3. CASE coord' = coord
    BY <1>2, <2>3 DEF Alive, Died
  <2>4. \A n \in Others : TmStep(n) \/ ParticipantStep(n) => coord' = coord
    BY DEF TmStep, TakeAskCommit, TakeDoCommit, TakeDoAbort, TakeSimpleCommit, Forget, CoordinatorDown,
      GetAnswer, TellOutcome, ParticipantStep, Vote, PreCommit, ParticipantCommit, ParticipantAbort
  <2>5. \A n \in Node : ImCertain(n) \/ LockerRelease(n) \/ Crash(n) => coord' = coord
    BY DEF ImCertain, LockerRelease, Crash
  <2> QED
    BY <2>1, <2>2, <2>3, <2>4, <2>5 DEF CmNext
<1> QED
  BY <1>1, <1>2 DEF Alive

\* Nobody asks while the process lives.
LEMMA AliveNotOvertaken ==
    ASSUME CommitInv, CmNext, ~overtaken, Alive
    PROVE  ~overtaken'
<1>t. /\ Coord \in Node /\ Others \subseteq Node /\ Askers
  BY CommitAssumption DEF CommitInv, Others
<1>1. \A n \in Node : ~GetAnswer(n)
  <2>1. \A n \in Node : asking[n] = NoQuestion
    BY <1>t DEF Askers, Alive, Died
  <2>2. \A n \in Node : asking[n].ask = {}
    BY <2>1 DEF NoQuestion
  <2> QED
    BY <2>2 DEF GetAnswer
<1>2. \A n \in Others : ~CoordinatorDown(n)
  BY DEF CoordinatorDown, Alive
<1>3. CoordStep \/ Kill \/ CoordTmStep => ~overtaken'
  BY <1>1, <1>t DEF CoordStep, ReadOnlyCommit, AskCommit, GetReply, AllVotedYes, SomebodyRefused, Kill,
      AllPreCommitted, RecordCommit, MakeUpdates, ReleaseTid, DeleteTransaction, ReturnAbort,
      CoordTmStep, ParticipantDown, CoordinatorDied, RecoverCoordinator
<1>4. \A n \in Others : TmStep(n) \/ ParticipantStep(n) => ~overtaken'
  BY <1>1, <1>2, <1>t DEF TmStep, TakeAskCommit, TakeDoCommit, TakeDoAbort, TakeSimpleCommit, Forget,
      TellOutcome, ParticipantStep, Vote, PreCommit, ParticipantCommit, ParticipantAbort
<1>5. \A n \in Node : ImCertain(n) \/ LockerRelease(n) \/ Crash(n) => ~overtaken'
  BY DEF ImCertain, LockerRelease, Crash
<1> QED
  BY <1>3, <1>4, <1>5 DEF CmNext

\* As long as the process and its node live, no two nodes that are up end the transaction
\* differently, in whatever order messages and questions are handled: of any other node
\* that fails the process hears, and nobody else decides (multi_commit, mnesia_down).
THEOREM CommitAgreementAlive ==
    ASSUME MaxFailures \leq 1
    PROVE  CmSpec => [](Alive => ~overtaken /\ Agreement)
<1> DEFINE Calm == CmTypeOK /\ (Alive => ~overtaken /\ CommitInv)
<1>1. CmInit => Calm
  BY CommitInvInit, InitType DEF CmInit
<1>2. Calm /\ [CmNext]_commitVars => Calm'
  <2> SUFFICES ASSUME Calm, [CmNext]_commitVars PROVE Calm'
    OBVIOUS
  <2>1. CmTypeOK'
    BY NextType
  <2>2. CASE UNCHANGED commitVars
    <3>1. Alive' => Alive
      BY <2>2 DEF commitVars, Alive, Died
    <3>2. overtaken' = overtaken
      BY <2>2 DEF commitVars
    <3> QED
      BY <2>1, <3>1, <3>2, CommitInvNext
  <2>3. CASE CmNext
    <3>1. Alive' => Alive
      BY <2>3, DeadStaysDead
    <3>2. Alive => ~overtaken'
      BY <2>3, AliveNotOvertaken
    <3> QED
      BY <2>1, <3>1, <3>2, CommitInvNext
  <2> QED
    BY <2>2, <2>3
<1>3. Calm => (Alive => ~overtaken /\ Agreement)
  BY CommitInvAgrees
<1> QED
  BY <1>1, <1>2, <1>3, PTL DEF CmSpec

-----------------------------------------------------------------------------
(* The refinement.                                                         *)

\* Updates are made when nobody has refused or given up.
LEMMA ApplyIsAtomic ==
    ASSUME CommitInv, Updating, Decided, NEW n \in up, Apply(n), UNCHANGED <<up, refused>>
    PROVE  Atomic!ACNext
<1>1. ~refused /\ undone \cap up = {} /\ undone' = undone
  BY DecidedFacts DEF CommitInv, Apply
<1>2. {k \in Node : applied'[k] > 0} = {k \in Node : applied[k] > 0} \cup {n}
  <2>1. n \in Node /\ applied \in [Node -> 0 .. 2]
    BY DEF CommitInv, CmTypeOK
  <2>2. applied'[n] > 0 /\ \A k \in Node \ {n} : applied'[k] = applied[k]
    BY <2>1 DEF Apply
  <2> QED
    BY <2>1, <2>2
<1>3. Atomic!MakeUpdates(n)
  BY <1>1, <1>2 DEF Atomic!MakeUpdates
<1> QED
  BY <1>3 DEF Atomic!ACNext

\* Updates are given up when nobody that is up has made them.
LEMMA GiveUpIsAtomic ==
    ASSUME CommitInv, ~(Updating /\ Decided), NEW n \in up, GiveUp(n), UNCHANGED <<up, refused>>
    PROVE  Atomic!ACNext
<1>1. \A k \in up : applied[k] = 0
  <2>1. CASE Updating
    BY <2>1, UndecidedFacts DEF CommitInv
  <2>2. CASE ~Updating
    BY <2>2 DEF CommitInv, OnlyRead, CmTypeOK
  <2> QED
    BY <2>1, <2>2
<1>2. {k \in Node : applied[k] > 0} \cap up = {}
  BY <1>1
<1>3. Atomic!GoWithout(n)
  BY <1>2 DEF Atomic!GoWithout, GiveUp
<1> QED
  BY <1>3 DEF Atomic!ACNext

\* Every step of the protocols is one of the abstract commit, or does not concern it.
LEMMA StepIsAtomic ==
    ASSUME CommitInv, CmNext
    PROVE  [Atomic!ACNext]_Atomic!acVars
<1> USE CommitAssumption
<1>t. /\ Coord \in Node /\ Others \subseteq Node
      /\ CmTypeOK /\ Askers /\ OnlyRead /\ Starting /\ NobodyPrepares /\ AfterDecision /\ SomebodyKnows /\ ToldTrue
  BY DEF CommitInv, CmTypeOK, Others
<1>1. ASSUME UNCHANGED <<up, refused, applied, undone>> PROVE [Atomic!ACNext]_Atomic!acVars
  BY <1>1 DEF Atomic!acVars
<1>2. ASSUME NEW n \in up, Apply(n), UNCHANGED <<up, refused>>, Updating /\ Decided
      PROVE  Atomic!ACNext
  BY <1>2, ApplyIsAtomic
<1>3. ASSUME NEW n \in up, GiveUp(n), UNCHANGED <<up, refused>>, ~(Updating /\ Decided)
      PROVE  Atomic!ACNext
  BY <1>3, GiveUpIsAtomic
<1>4. ASSUME Updating, Decided
      PROVE  /\ \A m \in msgs : m.kind \notin Aborting
             /\ Coord \in up => coord.pc \notin {"refusing", "giving_up"}
  BY <1>4, <1>t, DecidedFacts DEF Telling
<1>5. CASE AskCommit
  <2>1. /\ ~refused /\ \A n \in Node : applied[n] = 0
        /\ UNCHANGED <<up, applied, undone>> /\ Coord \in up
    BY <1>5, <1>t DEF AskCommit, Starting, Updating, At
  <2>2. CASE ~refused'
    <3>1. refused' = refused
      BY <1>5, <2>1, <2>2, <1>t DEF AskCommit, CmTypeOK
    <3> QED
      BY <2>1, <3>1, <1>1
  <2>3. CASE refused'
    <3>1. {n \in Node : applied[n] > 0} = {}
      BY <2>1
    <3>2. refused' = TRUE
      BY <1>5, <2>3 DEF AskCommit
    <3>3. Atomic!Refuse(Coord)
      BY <2>1, <3>1, <3>2 DEF Atomic!Refuse
    <3> QED
      BY <2>1, <3>3 DEF Atomic!ACNext
  <2> QED
    BY <2>2, <2>3
<1>6. CASE MakeUpdates
  <2>1. Coord \in up /\ coord.pc = "noted"
    BY <1>6 DEF MakeUpdates, At
  <2>2. Updating /\ Decided
    BY <2>1, <1>t DEF OnlyRead, Decided, Telling
  <2> QED
    BY <1>6, <2>1, <2>2, <1>2 DEF MakeUpdates
<1>7. CASE ReturnAbort
  BY <1>7, <1>3, <1>4 DEF ReturnAbort, At
<1>8. CASE RecoverCoordinator
  <2>1. Coord \in up /\ Answered(Coord) /\ UNCHANGED <<up, refused>>
    BY <1>8 DEF RecoverCoordinator, Answered
  <2>2. CASE Outcome(Coord) = "committed"
    <3>1. CASE Updating
      <4>1. Decided
        BY <2>2, <3>1, <1>t DEF Outcome, ToldTrue
      <4>2. Apply(Coord)
        BY <1>8, <2>2, <3>1 DEF RecoverCoordinator, Updating
      <4> QED
        BY <2>1, <3>1, <4>1, <4>2, <1>2
    <3>2. CASE ~Updating
      BY <1>8, <2>1, <2>2, <3>2, <1>1 DEF RecoverCoordinator, Updating
    <3> QED
      BY <3>1, <3>2
  <2>3. CASE Outcome(Coord) # "committed"
    <3>1. GiveUp(Coord)
      BY <1>8, <2>3 DEF RecoverCoordinator, Outcome
    <3>2. ~(Updating /\ Decided)
      BY <2>1, <2>3, <1>t, DecidedOutcome
    <3> QED
      BY <2>1, <3>1, <3>2, <1>3
  <2> QED
    BY <2>2, <2>3
<1>9. CASE CoordStep \/ CoordTmStep \/ Kill
  BY <1>1, <1>5, <1>6, <1>7, <1>8, <1>9
     DEF CoordStep, ReadOnlyCommit, GetReply, AllVotedYes, SomebodyRefused, AllPreCommitted, RecordCommit,
         ReleaseTid, DeleteTransaction, CoordTmStep, ParticipantDown, CoordinatorDied, GetAnswer, Kill
<1>10. ASSUME NEW n \in Others, TakeDoCommit(n) PROVE [Atomic!ACNext]_Atomic!acVars
  <2>1. n \in up /\ UNCHANGED <<up, refused>>
    BY <1>10 DEF TakeDoCommit, TmFree
  <2>2. Decided
    BY <1>10 DEF TakeDoCommit, Inbox, Decided, Deciding
  <2>3. CASE UNCHANGED <<applied, undone>>
    BY <2>1, <2>3, <1>1
  <2>4. CASE Follows(n) /\ Apply(n)
    <3>1. Updating
      BY <2>4, <1>t DEF OnlyRead, Follows
    <3> QED
      BY <2>1, <2>2, <2>4, <3>1, <1>2
  <2> QED
    BY <1>10, <2>3, <2>4 DEF TakeDoCommit
<1>11. ASSUME NEW n \in Others, TakeDoAbort(n) PROVE [Atomic!ACNext]_Atomic!acVars
  <2>1. n \in up /\ UNCHANGED <<up, refused>>
    BY <1>11 DEF TakeDoAbort, TmFree
  <2>2. ~(Updating /\ Decided)
    BY <1>11, <1>4 DEF TakeDoAbort, Inbox, Aborting
  <2>3. UNCHANGED <<applied, undone>> \/ GiveUp(n)
    BY <1>11 DEF TakeDoAbort
  <2> QED
    BY <2>1, <2>2, <2>3, <1>1, <1>3
<1>12. ASSUME NEW n \in Others, Vote(n) PROVE [Atomic!ACNext]_Atomic!acVars
  <2>1. n \in up /\ UNCHANGED <<up, applied>> /\ part[n] = "prepare"
    BY <1>12 DEF Vote
  <2>2. CASE UNCHANGED <<undone, refused>>
    BY <2>1, <2>2, <1>1
  <2>3. CASE refused' = TRUE /\ undone' = undone \cup {n}
    <3>1. ~\E k \in Node : applied[k] > 0
      BY <2>1, <1>t DEF NobodyPrepares
    <3>2. {k \in Node : applied[k] > 0} = {}
      BY <3>1
    <3>3. Atomic!Refuse(n)
      BY <2>1, <2>3, <3>2 DEF Atomic!Refuse
    <3> QED
      BY <2>1, <3>3 DEF Atomic!ACNext
  <2> QED
    BY <1>12, <2>2, <2>3 DEF Vote
<1>13. ASSUME NEW n \in Others, ParticipantCommit(n) PROVE [Atomic!ACNext]_Atomic!acVars
  <2>1. n \in up /\ Apply(n) /\ UNCHANGED <<up, refused>> /\ part[n] = "pre_commit"
    BY <1>13 DEF ParticipantCommit
  <2>2. Decided
    BY <1>13 DEF ParticipantCommit, Inbox, Decided, Deciding
  <2>3. Updating
    BY <2>1, <1>t DEF OnlyRead
  <2> QED
    BY <2>1, <2>2, <2>3, <1>2
<1>14. ASSUME NEW n \in Others, ParticipantAbort(n) PROVE [Atomic!ACNext]_Atomic!acVars
  <2>1. n \in up /\ GiveUp(n) /\ UNCHANGED <<up, refused>>
    BY <1>14 DEF ParticipantAbort
  <2>2. ~(Updating /\ Decided)
    BY <1>14, <1>4 DEF ParticipantAbort, Inbox, Aborting
  <2> QED
    BY <2>1, <2>2, <1>3
<1>15. ASSUME NEW n \in Others, TmStep(n) \/ ParticipantStep(n) PROVE [Atomic!ACNext]_Atomic!acVars
  BY <1>1, <1>10, <1>11, <1>12, <1>13, <1>14, <1>15
     DEF TmStep, TakeAskCommit, TakeSimpleCommit, Forget, CoordinatorDown, GetAnswer, TellOutcome,
         ParticipantStep, PreCommit
<1>16. ASSUME NEW n \in Node, Crash(n) PROVE [Atomic!ACNext]_Atomic!acVars
  <2>1. n \in up /\ up' = up \ {n} /\ UNCHANGED <<refused, applied, undone>>
    BY <1>16 DEF Crash
  <2>2. Atomic!Fail(n)
    BY <2>1 DEF Atomic!Fail
  <2> QED
    BY <2>1, <2>2 DEF Atomic!ACNext
<1>17. ASSUME NEW n \in Node, ImCertain(n) \/ LockerRelease(n) PROVE [Atomic!ACNext]_Atomic!acVars
  BY <1>1, <1>17 DEF ImCertain, LockerRelease
<1> QED
  BY <1>9, <1>15, <1>16, <1>17 DEF CmNext

\* With one failure the protocols implement the atomic commit: all or nothing on the nodes
\* that stay up, and nothing if one of them could not prepare, in every behaviour in which no
\* question overtakes the word of the process (multi_commit, mnesia_tm and the participants).
THEOREM CommitImplementsAtomic ==
    ASSUME MaxFailures \leq 1
    PROVE  CmSpec /\ []~overtaken => CommitIsAtomic
<1>1. CmInit => Atomic!ACInit
  <2> SUFFICES ASSUME CmInit PROVE Atomic!ACInit
    OBVIOUS
  <2>1. {n \in Node : applied[n] > 0} = {}
    BY DEF CmInit
  <2> QED
    BY <2>1 DEF CmInit, Atomic!ACInit
<1>2. CommitInv /\ [CmNext]_commitVars => [Atomic!ACNext]_Atomic!acVars
  <2>1. CommitInv /\ CmNext => [Atomic!ACNext]_Atomic!acVars
    BY StepIsAtomic
  <2>2. UNCHANGED commitVars => UNCHANGED Atomic!acVars
    BY DEF commitVars, Atomic!acVars
  <2> QED
    BY <2>1, <2>2
<1> QED
  BY CommitInvariant, <1>1, <1>2, PTL DEF CmSpec, CommitIsAtomic, Atomic!ACSpec

-----------------------------------------------------------------------------
(* Decisions are kept.                                                     *)

\* Where the transaction has only read, nothing is certain but what the process has
\* noted, and its recovery finds that.
ReadDecision ==
    ~Updating =>
        /\ \A m \in msgs : m.kind \notin Certain
        /\ \A n \in Others : decision[n] \in {"none", "committed"}
        /\ decision[Coord] = "aborted" => coord.pc = "recovered"
        /\ decision[Coord] = "committed" /\ asking[Coord].on
              => asking[Coord].said = {"committed"} /\ asking[Coord].ask = {}

\* The steps of a transaction that has only read.
LEMMA ReadSteps ==
    ASSUME CmTypeOK, OnlyRead, ReadDecision, ~Updating, CmNext
    PROVE  \/ ReadOnlyCommit \/ RecordCommit \/ ReleaseTid \/ DeleteTransaction \/ CoordTmStep \/ Kill
           \/ \E n \in Others : \/ TakeDoCommit(n) /\ ~Follows(n)
                                \/ TakeDoAbort(n) /\ ~Follows(n)
                                \/ TakeSimpleCommit(n) \/ CoordinatorDown(n) \/ GetAnswer(n) \/ TellOutcome(n)
           \/ \E n \in Node : LockerRelease(n) \/ Crash(n)
<1>1. /\ protocol = "read_only"
      /\ \A n \in Others : part[n] = "none"
      /\ coord.pc \notin {"votes", "acc", "refusing", "giving_up", "noted", "acks"}
      /\ \A m \in msgs : m.kind # "ask_commit" /\ m.kind \notin Certain
  BY DEF OnlyRead, Updating, ReadDecision
<1>2. CoordStep => ReadOnlyCommit \/ RecordCommit \/ ReleaseTid \/ DeleteTransaction
  BY <1>1 DEF CoordStep, AskCommit, GetReply, Hear, HearDown, AllVotedYes, SomebodyRefused,
     AllPreCommitted, MakeUpdates,
     ReturnAbort, Heeded, At
<1>3. ASSUME NEW n \in Others
      PROVE  ~TakeAskCommit(n) /\ ~Forget(n) /\ ~ParticipantStep(n) /\ ~Follows(n)
  BY <1>1 DEF TakeAskCommit, Forget, ParticipantStep, Vote, PreCommit, ParticipantCommit,
     ParticipantAbort, Inbox, Follows
<1>4. ASSUME NEW n \in Node PROVE ~ImCertain(n)
  BY <1>1 DEF ImCertain, Inbox
<1> QED
  BY <1>2, <1>3, <1>4 DEF CmNext, TmStep

\* Nobody turns the decision of a transaction that has only read.
LEMMA NextReadDecision ==
    ASSUME CmTypeOK, Askers, OnlyRead, ReadDecision, ~Updating, CmNext
    PROVE  /\ ReadDecision'
           /\ \A n \in up : /\ decision[n] = "committed" => decision'[n] = "committed"
                            /\ decision[n] = "aborted" => decision'[n] # "committed"
<1> USE CommitAssumption
<1>t. /\ Coord \in Node /\ up \subseteq Node /\ Others = Node \ {Coord} /\ coord \in Process
      /\ asking \in [Node -> Question] /\ decision \in [Node -> Decision]
  BY DEF CmTypeOK, Others, Process, Question
<1>r. /\ \A m \in msgs : m.kind \notin Certain
      /\ \A n \in Others : decision[n] \in {"none", "committed"}
      /\ decision[Coord] = "aborted" => coord.pc = "recovered"
      /\ decision[Coord] = "committed" /\ asking[Coord].on
              => asking[Coord].said = {"committed"} /\ asking[Coord].ask = {}
      /\ asking[Coord].on => coord.pc = "killed"
      /\ ~Asym /\ protocol = "read_only"
  BY <1>t DEF ReadDecision, Askers, NoQuestion, Asym, Updating
<1> DEFINE Mail == \A m \in msgs' : m.kind \notin Certain
           Kept == \A n \in up : /\ decision[n] = "committed" => decision'[n] = "committed"
                                 /\ decision[n] = "aborted" => decision'[n] # "committed"
           Theirs == \A n \in Others : decision'[n] \in {"none", "committed"}
           Own == decision'[Coord] = "aborted" => coord'.pc = "recovered"
           Asked == decision'[Coord] = "committed" /\ asking'[Coord].on
                       => asking'[Coord].said = {"committed"} /\ asking'[Coord].ask = {}
<1> SUFFICES Mail /\ Kept /\ Theirs /\ Own /\ Asked
  BY DEF ReadDecision
<1>1. \A n \in Node : \A m \in Tell(n) \cup Ack(n) : m.kind \notin Certain
  BY DEF Tell, Ack, ToAll, To, Certain
<1>2. ASSUME decision' = decision PROVE Kept /\ Theirs
  BY <1>2, <1>r
<1>3. ASSUME decision' = decision, coord'.pc = coord.pc PROVE Own
  BY <1>3, <1>r
<1>4. ASSUME decision' = decision, asking' = asking PROVE Asked
  BY <1>4, <1>r
<1>5. ASSUME NEW taken, NEW sent, \A m \in sent : m.kind \notin Certain, Exchange(taken, sent) PROVE Mail
  BY <1>5, <1>r DEF Exchange
<1>6. CASE ReadOnlyCommit
  <2>1. Mail
    BY <1>6, <1>r, TellAndGoNew DEF ReadOnlyCommit, Certain
  <2>2. decision' = decision /\ asking' = asking /\ coord.pc = "start"
    BY <1>6 DEF ReadOnlyCommit, At
  <2>3. Own
    BY <2>2, <1>r
  <2> QED
    BY <2>1, <2>2, <2>3, <1>2, <1>4
<1>7. CASE RecordCommit
  <2>1. /\ NoteDecision(Coord, "committed") /\ UNCHANGED <<msgs, asking>> /\ coord.pc = "told"
    BY <1>7, <1>r DEF RecordCommit, At
  <2>2. decision'[Coord] = "committed" /\ \A n \in Node \ {Coord} : decision'[n] = decision[n]
    BY <2>1, <1>t DEF NoteDecision
  <2>3. Mail /\ Own /\ Asked
    BY <2>1, <2>2, <1>r
  <2>4. Kept /\ Theirs
    BY <2>1, <2>2, <1>r, <1>t
  <2> QED
    BY <2>3, <2>4
<1>8. CASE ReleaseTid \/ DeleteTransaction \/ Kill
  <2>1. UNCHANGED <<msgs, decision, asking>> /\ coord.pc # "recovered"
    BY <1>8 DEF ReleaseTid, DeleteTransaction, Kill, Heeded, At
  <2> QED
    BY <2>1, <1>2, <1>4, <1>r
<1>9. CASE \E n \in Others : ParticipantDown(n)
  <2>1. UNCHANGED <<msgs, decision, asking>> /\ coord'.pc = coord.pc
    BY <1>9, <1>t DEF ParticipantDown, Process
  <2> QED
    BY <2>1, <1>2, <1>3, <1>4, <1>r
<1>10. CASE CoordinatorDied
  <2>1. UNCHANGED <<msgs, decision, coord>> /\ Ask(Coord, Node)
    BY <1>10 DEF CoordinatorDied
  <2>2. decision[Coord] = "committed" => Certainly(Coord) = {"committed"}
    BY DEF Certainly, Known
  <2>3. Asked
    BY <2>1, <2>2, <1>t DEF Ask
  <2> QED
    BY <2>1, <2>3, <1>2, <1>3, <1>r
<1>11. ASSUME NEW n \in Node, GetAnswer(n) PROVE Mail /\ Kept /\ Theirs /\ Own /\ Asked
  <2>1. UNCHANGED <<msgs, decision, coord>> /\ asking[n].ask # {}
    BY <1>11 DEF GetAnswer
  <2>2. Asked
    <3>1. CASE n = Coord
      <4>1. asking'[Coord].on = asking[Coord].on
        BY <1>11, <3>1, <1>t DEF GetAnswer, Question
      <4> QED
        BY <2>1, <3>1, <4>1, <1>r
    <3>2. CASE n # Coord
      <4>1. asking'[Coord] = asking[Coord]
        BY <1>11, <3>2, <1>t DEF GetAnswer
      <4> QED
        BY <2>1, <4>1, <1>r
    <3> QED
      BY <3>1, <3>2
  <2> QED
    BY <2>1, <2>2, <1>2, <1>3, <1>r
<1>12. CASE RecoverCoordinator
  <2>1. /\ Answered(Coord) /\ NoteDecision(Coord, Outcome(Coord)) /\ Exchange({}, Tell(Coord))
        /\ EndQuestion(Coord) /\ coord'.pc = "recovered"
    BY <1>12, <1>r, <1>t DEF RecoverCoordinator, Goto, Process
  <2>2. /\ decision'[Coord] = Outcome(Coord) /\ \A n \in Node \ {Coord} : decision'[n] = decision[n]
        /\ ~asking'[Coord].on
    BY <2>1, <1>t DEF NoteDecision, EndQuestion, NoQuestion
  <2>3. decision[Coord] # "aborted" /\ (decision[Coord] = "committed" => Outcome(Coord) = "committed")
    BY <2>1, <1>r DEF Answered, Outcome
  <2>4. Kept /\ Theirs
    BY <2>2, <2>3, <1>r, <1>t
  <2> QED
    BY <2>1, <2>2, <2>4, <1>1, <1>5, <1>t
<1>13. ASSUME NEW n \in Others, ~Follows(n), TakeDoCommit(n) \/ TakeDoAbort(n)
       PROVE  Mail /\ Kept /\ Theirs /\ Own /\ Asked
  <2>1. UNCHANGED <<decision, coord, asking>> /\ \E m \in msgs : Exchange({m}, {})
    BY <1>13, <1>r DEF TakeDoCommit, TakeDoAbort, Inbox
  <2> QED
    BY <2>1, <1>2, <1>3, <1>4, <1>5
<1>14. ASSUME NEW n \in Others, TakeSimpleCommit(n) PROVE Mail /\ Kept /\ Theirs /\ Own /\ Asked
  <2>1. UNCHANGED <<coord, asking>> /\ NoteDecision(n, "committed") /\ \E m \in msgs : Exchange({m}, {})
    BY <1>14 DEF TakeSimpleCommit, Inbox
  <2>2. decision'[n] = "committed" /\ \A k \in Node \ {n} : decision'[k] = decision[k]
    BY <2>1, <1>t DEF NoteDecision
  <2>3. Kept /\ Theirs /\ Own /\ Asked
    BY <2>1, <2>2, <1>r, <1>t
  <2> QED
    BY <2>1, <2>3, <1>5
<1>15. ASSUME NEW n \in Others, CoordinatorDown(n) \/ TellOutcome(n)
       PROVE  Mail /\ Kept /\ Theirs /\ Own /\ Asked
  <2>1. UNCHANGED <<decision, coord>> /\ asking'[Coord] = asking[Coord]
    BY <1>15, <1>t DEF CoordinatorDown, TellOutcome, Ask, EndQuestion
  <2>2. Mail
    BY <1>15, <1>1, <1>5, <1>r, <1>t DEF CoordinatorDown, TellOutcome
  <2> QED
    BY <2>1, <2>2, <1>2, <1>3, <1>r
<1>16. ASSUME NEW n \in Node, LockerRelease(n) PROVE Mail /\ Kept /\ Theirs /\ Own /\ Asked
  BY <1>16, <1>2, <1>3, <1>4, <1>r DEF LockerRelease, Exchange
<1>17. ASSUME NEW n \in Node, Crash(n) PROVE Mail /\ Kept /\ Theirs /\ Own /\ Asked
  <2>1. UNCHANGED <<decision, coord>> /\ msgs' \subseteq msgs /\ EndQuestion(n)
    BY <1>17 DEF Crash
  <2>2. asking'[Coord] = asking[Coord] \/ ~asking'[Coord].on
    BY <2>1, <1>t DEF EndQuestion, NoQuestion
  <2> QED
    BY <2>1, <2>2, <1>2, <1>3, <1>r
<1>18. CASE CoordTmStep
  BY <1>18, <1>9, <1>10, <1>11, <1>12, <1>t DEF CoordTmStep
<1> QED
  BY ReadSteps, <1>6, <1>7, <1>8, <1>11, <1>13, <1>14, <1>15, <1>16, <1>17, <1>18, <1>t

\* Nor that of a transaction with updates.
LEMMA UpdatingKept ==
    ASSUME MaxFailures \leq 1, ~overtaken', CommitInv, Updating, CmNext
    PROVE  \A n \in up : /\ decision[n] = "committed" => decision'[n] = "committed"
                         /\ decision[n] = "aborted" => decision'[n] # "committed"
<1>t. /\ CmTypeOK /\ Askers /\ OnlyRead /\ AfterDecision /\ SomebodyKnows /\ ToldTrue /\ Recorded
  BY DEF CommitInv
<1>1. CASE \E n \in Node : Crash(n)
  BY <1>1 DEF Crash
<1>2. CASE Decided /\ ~\E n \in Node : Crash(n)
  BY <1>2, <1>t, KnowsStays, DecidedFacts
<1>3. CASE ~Decided /\ ~\E n \in Node : Crash(n)
  <2>1. \A n \in up : decision[n] # "committed"
    BY <1>3, <1>t, UndecidedFacts
  <2>2. CASE (AllVotedYes /\ ~Asym) \/ AllPreCommitted
    BY <2>1, <2>2 DEF AllVotedYes, AllPreCommitted
  <2>3. CASE ~(AllVotedYes /\ ~Asym) /\ ~AllPreCommitted
    <3>1. ~Decided' /\ up' = up
      <4>1. ~Decided'
        BY <1>3, <1>t, <2>3, NextUndecided, SMTT(60)
      <4>2. up' = up
        BY <1>3, ZenonT(60) DEF CmNext, CoordStep, ReadOnlyCommit, AskCommit, GetReply, AllVotedYes, SomebodyRefused,
           Kill,
           AllPreCommitted, RecordCommit, MakeUpdates, ReleaseTid, DeleteTransaction, ReturnAbort,
           CoordTmStep,
           ParticipantDown, CoordinatorDied, GetAnswer, RecoverCoordinator, TmStep, TakeAskCommit,
           TakeDoCommit,
           TakeDoAbort, TakeSimpleCommit, Forget, CoordinatorDown, TellOutcome,
           ParticipantStep, Vote, PreCommit, ParticipantCommit, ParticipantAbort, ImCertain, LockerRelease
      <4> QED
        BY <4>1, <4>2
    <3> QED
      BY <2>1, <3>1 DEF Decided
  <2> QED
    BY <2>2, <2>3
<1> QED
  BY <1>1, <1>2, <1>3

\* With one failure no node that is up turns a decision round: a commit stays on record
\* and an abort never becomes a commit, although both mnesia_tm and the mnesia_recover of
\* other nodes write it, in every behaviour in which no question overtakes the word of the
\* process (note_decision, log_decision, im_certain).
THEOREM CommitDecisionKept ==
    ASSUME MaxFailures \leq 1
    PROVE  CmSpec /\ []~overtaken => DecisionKept
<1>1. CmInit => ReadDecision
  <2> SUFFICES ASSUME CmInit PROVE ReadDecision
    OBVIOUS
  <2>1. msgs = {} /\ \A n \in Node : decision[n] = "none"
    BY DEF CmInit
  <2> QED
    BY <2>1, CommitAssumption DEF ReadDecision, Others
<1>2. CommitInv /\ ReadDecision /\ [CmNext]_commitVars => ReadDecision'
  <2> SUFFICES ASSUME CommitInv, ReadDecision, [CmNext]_commitVars PROVE ReadDecision'
    OBVIOUS
  <2>1. CASE CmNext /\ ~Updating
    BY <2>1, NextReadDecision DEF CommitInv
  <2>2. CASE CmNext /\ Updating
    BY <2>2, ProtocolKept DEF ReadDecision, Updating
  <2>3. CASE UNCHANGED commitVars
    BY <2>3 DEF commitVars, ReadDecision, Updating
  <2> QED
    BY <2>1, <2>2, <2>3
<1>3. CommitInv /\ ~overtaken' /\ ReadDecision /\ [CmNext]_commitVars
         => [\A n \in up : /\ decision[n] = "committed" => decision'[n] = "committed"
                           /\ decision[n] = "aborted" => decision'[n] # "committed"]_commitVars
  BY UpdatingKept, NextReadDecision DEF CommitInv
<1> QED
  BY CommitInvariant, <1>1, <1>2, <1>3, PTL DEF CmSpec, DecisionKept

-----------------------------------------------------------------------------
(* Updates are made under the locks.                                       *)

\* The process has not decided.
Undecided == At("start") \/ At("votes") \/ At("acc")

\* Who has given the locks away before the decision goes without the updates; who does
\* so after the decision has made them.
LocksHeld ==
    Updating =>
        /\ Undecided => up \ locked \subseteq undone
        /\ Undecided \/ Decided => \A m \in msgs : m.kind # "release_tid"
        /\ \A m \in msgs : m.kind = "release_tid" => m.to \in Others
        /\ Decided => \A k \in (Others \cap up) \ locked :
                         decision[k] = "committed" /\ part[k] \in {"none", "ended"}
        /\ Coord \in up \ locked => coord.pc \in {"released", "ended", "recovered"}

\* Only the process that gives up tells the others to release the locks.
LEMMA ReleaseSent ==
    ASSUME CmTypeOK, CmNext, NEW m \in msgs', m \notin msgs, m.kind = "release_tid"
    PROVE  ReturnAbort /\ m.to \in Others
<1>1. /\ \A n \in Node, outcome \in Decision : \A x \in Told(n, outcome) : x.kind # "release_tid"
      /\ \A n \in Node : \A x \in Tell(n) \cup Ack(n) : x.kind # "release_tid"
  BY DEF Told, Tell, Ack, ToAll, To
<1>t. Coord \in Node /\ Others \subseteq Node
  BY CommitAssumption DEF Others
<1>2. CoordStep => ReturnAbort /\ m.to \in Others
  <2>1. ~ReadOnlyCommit /\ ~AskCommit /\ ~AllVotedYes /\ ~SomebodyRefused /\ ~AllPreCommitted
    BY TellAndGoNew DEF ReadOnlyCommit, AskCommit, AllVotedYes, SomebodyRefused, AllPreCommitted
  <2>2. ~GetReply /\ ~MakeUpdates /\ ~ReleaseTid /\ ~DeleteTransaction
    BY DEF GetReply, Hear, HearDown, MakeUpdates, ReleaseTid, DeleteTransaction, Exchange
  <2>3. ~RecordCommit
    BY <1>1, <1>t DEF RecordCommit, Exchange, Decision
  <2>4. ReturnAbort => m.to \in Others
    <3>1. ReturnAbort => m \in Told(Coord, "aborted") \cup ToAll(Others, Coord, "release_tid")
      BY DEF ReturnAbort, Exchange
    <3>2. m \notin Told(Coord, "aborted")
      BY <1>1, <1>t DEF Decision
    <3> QED
      BY <3>1, <3>2 DEF ToAll, To
  <2> QED
    BY <2>1, <2>2, <2>3, <2>4 DEF CoordStep
<1>3. ~CoordTmStep /\ ~Kill
  <2>1. ~RecoverCoordinator
    BY <1>1, <1>t DEF RecoverCoordinator, Exchange, Outcome, Decision
  <2> QED
    BY <2>1 DEF CoordTmStep, Kill, ParticipantDown, CoordinatorDied, GetAnswer
<1>4. ASSUME NEW n \in Others PROVE ~TmStep(n)
  <2>1. ~TakeDoCommit(n)
    BY <1>1, <1>t DEF TakeDoCommit, Exchange, ToAll, To
  <2>2. ~TakeDoAbort(n)
    BY <1>1, <1>t DEF TakeDoAbort, Exchange, To
  <2>3. ~TellOutcome(n)
    BY <1>1, <1>t DEF TellOutcome, Exchange
  <2> QED
    BY <2>1, <2>2, <2>3 DEF TmStep, TakeAskCommit, TakeSimpleCommit, Forget, CoordinatorDown, GetAnswer,
       Exchange, To
<1>5. ASSUME NEW n \in Others PROVE ~ParticipantStep(n)
  <2>1. ~Vote(n) /\ ~PreCommit(n)
    BY DEF Vote, PreCommit, Exchange, To
  <2>2. ~ParticipantCommit(n) /\ ~ParticipantAbort(n)
    BY <1>1, <1>t DEF ParticipantCommit, ParticipantAbort, Exchange, Decision
  <2> QED
    BY <2>1, <2>2 DEF ParticipantStep
<1>6. ASSUME NEW n \in Node PROVE ~ImCertain(n) /\ ~LockerRelease(n) /\ ~Crash(n)
  BY DEF ImCertain, LockerRelease, Crash, Exchange
<1> QED
  BY <1>2, <1>3, <1>4, <1>5, <1>6 DEF CmNext

\* Before the decision only refusal and failure take a node's locks.
LEMMA EarlyLocks ==
    ASSUME CommitInv, LocksHeld, Updating, CmNext, Undecided'
    PROVE  /\ Undecided
           /\ up' \ locked' \subseteq undone'
           /\ \A m \in msgs' : m.kind # "release_tid"
<1>1. Undecided
  BY EarlyBefore DEF Undecided, CommitInv, Updating
<1>2. up \ locked \subseteq undone /\ \A m \in msgs : m.kind # "release_tid"
  BY <1>1 DEF LocksHeld
<1>3. ~ReturnAbort
  BY <1>1 DEF Undecided, ReturnAbort, At
<1>4. \A m \in msgs' : m.kind # "release_tid"
  BY <1>2, <1>3, ReleaseSent DEF CommitInv
<1>5. ASSUME UNCHANGED <<up, locked, undone>> PROVE up' \ locked' \subseteq undone'
  BY <1>2, <1>5
<1>6. ASSUME NEW n \in Others, Vote(n) PROVE up' \ locked' \subseteq undone'
  BY <1>2, <1>6 DEF Vote, Unlock
<1>7. ASSUME NEW n \in Node, Crash(n) PROVE up' \ locked' \subseteq undone'
  BY <1>2, <1>7 DEF Crash, Unlock
<1>8. \A n \in Node : ~LockerRelease(n)
  BY <1>2 DEF LockerRelease, Inbox
<1>9. \/ AskCommit \/ GetReply \/ AllVotedYes \/ SomebodyRefused \/ AllPreCommitted \/ Kill
      \/ \E n \in Others : ParticipantDown(n)
      \/ \E n \in Others : TakeAskCommit(n) \/ Forget(n) \/ Vote(n) \/ PreCommit(n)
      \/ \E n \in Node : LockerRelease(n) \/ Crash(n)
  BY <1>1, EarlySteps DEF CommitInv, Undecided
<1>10. up' \ locked' \subseteq undone'
  BY <1>5, <1>6, <1>7, <1>8, <1>9
     DEF AskCommit, GetReply, AllVotedYes, SomebodyRefused, AllPreCommitted, Kill, ParticipantDown,
        TakeAskCommit,
         Forget, PreCommit
<1> QED
  BY <1>1, <1>4, <1>10

\* After the decision a node gives the locks away when it has made the updates.
LEMMA DecidedLocks ==
    ASSUME CommitInv, LocksHeld, Updating, Decided, CmNext, NEW k \in (Others \cap up') \ locked'
    PROVE  decision'[k] = "committed" /\ part'[k] \in {"none", "ended"}
<1>t. /\ CmTypeOK /\ Askers /\ OnlyRead /\ AfterDecision /\ SomebodyKnows
      /\ Coord \in Node /\ Others = Node \ {Coord} /\ decision \in [Node -> Decision] /\ part \in [Others -> PartPc]
  BY CommitAssumption DEF CommitInv, CmTypeOK, Others
<1>1. \A j \in (Others \cap up) \ locked : decision[j] = "committed" /\ part[j] \in {"none", "ended"}
  BY DEF LocksHeld
<1>2. \A m \in msgs : m.kind # "release_tid"
  BY DEF LocksHeld
<1>3. k \in Others /\ k \in up
  BY UpShrinks
<1>4. ASSUME UNCHANGED <<decision, part>>, k \notin locked
      PROVE  decision'[k] = "committed" /\ part'[k] \in {"none", "ended"}
  BY <1>1, <1>3, <1>4
<1>5. CASE \E n \in Node : Crash(n)
  <2>1. PICK n \in Node : Crash(n)
    BY <1>5
  <2>2. k # n /\ k \notin locked /\ part'[k] = part[k] /\ decision' = decision
    BY <2>1, <1>3, <1>t DEF Crash, Unlock, Enter
  <2> QED
    BY <2>2, <1>1, <1>3
<1>6. CASE ~\E n \in Node : Crash(n)
  <2>1. decision[k] = "committed" => decision'[k] = "committed"
    BY <1>3, <1>6, <1>t, KnowsStays
  <2>2. ASSUME part'[k] = part[k] \/ part'[k] \in {"none", "ended"}, k \notin locked
        PROVE  decision'[k] = "committed" /\ part'[k] \in {"none", "ended"}
    BY <2>1, <2>2, <1>1, <1>3
  <2>3. GetReply \/ RecordCommit \/ MakeUpdates \/ ReleaseTid \/ DeleteTransaction \/ CoordTmStep \/ Kill
           => part' = part /\ k \notin locked
    BY <1>t DEF GetReply, RecordCommit, MakeUpdates, ReleaseTid, DeleteTransaction, CoordTmStep,
       ParticipantDown,
       CoordinatorDied, GetAnswer, RecoverCoordinator, Kill, Unlock
  <2>4. ASSUME NEW n \in Others, n # k, \/ TakeDoCommit(n) \/ Forget(n) \/ CoordinatorDown(n)
                                        \/ GetAnswer(n) \/ TellOutcome(n) \/ ParticipantCommit(n)
        PROVE  part'[k] = part[k] /\ k \notin locked
    BY <2>4, <1>t DEF TakeDoCommit, Forget, CoordinatorDown, GetAnswer, TellOutcome, ParticipantCommit,
       Enter, Unlock
  <2>5. CASE TakeDoCommit(k)
    <3>1. CASE UNCHANGED <<decision, part, locked>>
      BY <3>1, <1>4
    <3>2. CASE NoteDecision(k, "committed") /\ Enter(k, "none")
      BY <3>2, <1>3, <1>t DEF NoteDecision, Enter
    <3> QED
      BY <2>5, <3>1, <3>2 DEF TakeDoCommit
  <2>6. CASE Forget(k)
    BY <2>2, <2>6, <1>3, <1>t DEF Forget, Enter
  <2>7. CASE CoordinatorDown(k)
    <3>1. CASE Follows(k)
      BY <2>7, <3>1, <1>4 DEF CoordinatorDown
    <3>2. CASE ~Follows(k)
      <4>1. part[k] = "none" /\ UNCHANGED <<decision, part>>
        BY <2>7, <3>2 DEF CoordinatorDown, Follows
      <4>2. decision[k] = "committed"
        BY <4>1, <1>3, <1>t DEF AfterDecision
      <4> QED
        BY <4>1, <4>2
    <3> QED
      BY <3>1, <3>2
  <2>8. CASE GetAnswer(k) \/ TellOutcome(k)
    BY <2>8, <1>4 DEF GetAnswer, TellOutcome
  <2>9. CASE ParticipantCommit(k)
    <3>1. decision[k] # "aborted"
      BY <1>3, <1>t, DecidedFacts
    <3> QED
      BY <2>9, <3>1, <1>3, <1>t DEF ParticipantCommit, LogDecision, Merge, Enter
  <2>10. ASSUME NEW n \in Node, ImCertain(n) \/ LockerRelease(n)
         PROVE  part' = part /\ k \notin locked
    BY <2>10, <1>2 DEF ImCertain, LockerRelease, Inbox
  <2> QED
    BY <1>6, <1>t, DecidedSteps, <2>2, <2>3, <2>4, <2>5, <2>6, <2>7, <2>8, <2>9, <2>10
<1> QED
  BY <1>5, <1>6

\* The process gives its own locks away when it has made the updates or given up.
LEMMA OwnLocks ==
    ASSUME CommitInv, LocksHeld, Updating, CmNext, "released" \notin KillAt, Coord \in up' \ locked'
    PROVE  coord'.pc \in {"released", "ended", "recovered"}
<1>t. Coord \in Node /\ Others = Node \ {Coord} /\ coord \in Process /\ Askers
  BY CommitAssumption DEF CommitInv, CmTypeOK, Others, Process
<1>1. Coord \in up
  BY UpShrinks
<1>2. Coord \notin locked => coord.pc \in {"released", "ended", "recovered"}
  BY <1>1 DEF LocksHeld
<1>3. CASE ReleaseTid \/ ReturnAbort \/ RecoverCoordinator \/ DeleteTransaction
  BY <1>3, <1>t DEF ReleaseTid, ReturnAbort, RecoverCoordinator, DeleteTransaction, Goto, Process
<1>4. ASSUME coord' = coord \/ coord'.pc = coord.pc, locked' = locked
      PROVE  coord'.pc \in {"released", "ended", "recovered"}
  BY <1>2, <1>4
<1>5. CASE ReadOnlyCommit \/ AskCommit \/ GetReply \/ AllVotedYes \/ SomebodyRefused \/ AllPreCommitted
           \/ RecordCommit \/ MakeUpdates \/ Kill
  <2>1. locked' = locked
    BY <1>5 DEF ReadOnlyCommit, AskCommit, GetReply, AllVotedYes, SomebodyRefused, AllPreCommitted,
       RecordCommit,
       MakeUpdates, Kill
  <2>2. coord.pc \notin {"released", "ended", "recovered"}
    BY <1>5 DEF ReadOnlyCommit, AskCommit, GetReply, Hear, HearDown, AllVotedYes, SomebodyRefused,
       AllPreCommitted,
       RecordCommit, MakeUpdates, Kill, Heeded, At
  <2> QED
    BY <2>1, <2>2, <1>2
<1>6. CASE \E n \in Others : ParticipantDown(n)
  BY <1>4, <1>6, <1>t DEF ParticipantDown, Process
<1>7. CASE CoordinatorDied \/ \E n \in Node : GetAnswer(n)
  BY <1>4, <1>7 DEF CoordinatorDied, GetAnswer
<1>8. ASSUME NEW n \in Others, TmStep(n) \/ ParticipantStep(n) PROVE coord' = coord /\ Coord \notin locked
  BY <1>8, <1>t
     DEF TmStep, TakeAskCommit, TakeDoCommit, TakeDoAbort, TakeSimpleCommit, Forget, CoordinatorDown,
        GetAnswer,
         TellOutcome, ParticipantStep, Vote, PreCommit, ParticipantCommit, ParticipantAbort, Unlock
<1>9. ASSUME NEW n \in Node, ImCertain(n) \/ LockerRelease(n) \/ Crash(n)
      PROVE  coord' = coord /\ Coord \notin locked
  <2>1. CASE ImCertain(n)
    BY <2>1 DEF ImCertain
  <2>2. CASE LockerRelease(n)
    <3>1. n \in Others
      BY <2>2 DEF LockerRelease, Inbox, LocksHeld
    <3> QED
      BY <2>2, <3>1, <1>t DEF LockerRelease, Unlock
  <2>3. CASE Crash(n)
    BY <2>3 DEF Crash, Unlock
  <2> QED
    BY <1>9, <2>1, <2>2, <2>3
<1> QED
  BY <1>2, <1>3, <1>5, <1>6, <1>7, <1>8, <1>9, <1>t DEF CmNext, CoordStep, CoordTmStep

\* No step gives the locks away too early.
LEMMA NextLocksHeld ==
    ASSUME MaxFailures \leq 1, ~overtaken', "released" \notin KillAt, CommitInv, LocksHeld, CmNext
    PROVE  LocksHeld'
<1> SUFFICES ASSUME Updating PROVE LocksHeld'
  BY ProtocolKept DEF LocksHeld, Updating
<1>t. /\ CmTypeOK /\ Askers /\ OnlyRead /\ AfterDecision /\ ToldTrue /\ Recorded /\ Others \subseteq Node
  BY DEF CommitInv, Others
<1>1. CommitInv'
  BY CommitInvNext
<1>2. \A m \in msgs' : m.kind = "release_tid" => m.to \in Others
  BY <1>t, ReleaseSent DEF LocksHeld
<1>3. Coord \in up' \ locked' => coord'.pc \in {"released", "ended", "recovered"}
  BY OwnLocks
<1>4. Undecided' => up' \ locked' \subseteq undone' /\ \A m \in msgs' : m.kind # "release_tid"
  BY EarlyLocks
<1>5. CASE Decided
  <2>1. ~ReturnAbort
    BY <1>5, <1>t, DecidedFacts DEF ReturnAbort, At, Telling
  <2>2. \A m \in msgs' : m.kind # "release_tid"
    BY <1>5, <2>1, <1>t, ReleaseSent DEF LocksHeld
  <2>3. \A k \in (Others \cap up') \ locked' : decision'[k] = "committed" /\ part'[k] \in {"none", "ended"}
    BY <1>5, DecidedLocks
  <2> QED
    BY <1>2, <1>3, <1>4, <2>2, <2>3 DEF LocksHeld
<1>6. CASE ~Decided /\ Decided'
  <2>1. (AllVotedYes /\ ~Asym) \/ (AllPreCommitted /\ coord.commit)
    BY <1>6, <1>t, NextUndecided
  <2>2. Undecided /\ UNCHANGED <<up, locked, undone>> /\ ~ReturnAbort
    BY <2>1 DEF AllVotedYes, AllPreCommitted, Heeded, Undecided, At, ReturnAbort
  <2>3. \A m \in msgs' : m.kind # "release_tid"
    BY <2>2, <1>t, ReleaseSent DEF LocksHeld
  <2>4. undone' \cap up' = {}
    BY <1>1, <1>6, ProtocolKept DEF CommitInv, AfterDecision, Updating
  <2>5. (Others \cap up') \ locked' = {}
    BY <2>2, <2>4 DEF LocksHeld
  <2> QED
    BY <1>2, <1>3, <1>4, <2>3, <2>5 DEF LocksHeld
<1>7. CASE ~Decided /\ ~Decided'
  BY <1>2, <1>3, <1>4, <1>7 DEF LocksHeld
<1> QED
  BY <1>5, <1>6, <1>7

\* Every node that makes the updates holds the locks.
LEMMA StepUnderLock ==
    ASSUME CommitInv, LocksHeld, CmNext, NEW n \in Node, applied'[n] # applied[n]
    PROVE  n \in locked
<1>t. /\ CmTypeOK /\ Askers /\ OnlyRead /\ AfterDecision /\ ToldTrue /\ Recorded /\ SomebodyKnows
      /\ Coord \in Node /\ Others = Node \ {Coord} /\ applied \in [Node -> 0 .. 2]
  BY CommitAssumption DEF CommitInv, CmTypeOK, Others
<1>1. Updating
  <2>1. OnlyRead'
    BY <1>t, NextOnlyRead
  <2> QED
    BY <2>1, <1>t, ProtocolKept DEF OnlyRead, Updating
<1>2. Decided
  <2>1. ~AllVotedYes /\ ~AllPreCommitted
    BY DEF AllVotedYes, AllPreCommitted
  <2> QED
    BY <1>1, <1>t, <2>1, NextUndecided
<1>3. ASSUME NEW k \in Node, Apply(k) PROVE n = k
  BY <1>3, <1>t DEF Apply
<1>4. Coord \in up \ locked => coord.pc \in {"released", "ended", "recovered"}
  BY <1>1 DEF LocksHeld
<1>5. \A k \in (Others \cap up) \ locked : part[k] \in {"none", "ended"}
  BY <1>1, <1>2 DEF LocksHeld
<1>6. CASE MakeUpdates
  <2>1. n = Coord /\ Coord \in up /\ coord.pc = "noted"
    BY <1>3, <1>6, <1>t DEF MakeUpdates, At
  <2> QED
    BY <2>1, <1>4
<1>7. CASE RecoverCoordinator
  <2>1. Coord \in up /\ coord.pc = "killed"
    BY <1>7, <1>t DEF RecoverCoordinator, Answered, Askers
  <2>2. n = Coord
    BY <1>3, <1>7, <1>t DEF RecoverCoordinator, GiveUp
  <2> QED
    BY <2>1, <2>2, <1>4
<1>8. ASSUME NEW k \in Others, TakeDoCommit(k) PROVE n \in locked
  <2>1. n = k /\ k \in up /\ Follows(k) /\ ~Asym
    BY <1>3, <1>8, <1>t DEF TakeDoCommit, TmFree
  <2>2. part[k] = "voted"
    BY <2>1, <1>1, <1>2, <1>t DEF AfterDecision, Follows
  <2> QED
    BY <2>1, <2>2, <1>5
<1>9. ASSUME NEW k \in Others, ParticipantCommit(k) PROVE n \in locked
  BY <1>3, <1>5, <1>9, <1>t DEF ParticipantCommit
<1>10. /\ ~GetReply /\ ~RecordCommit /\ ~ReleaseTid /\ ~DeleteTransaction /\ ~Kill
       /\ \A k \in Node : ~ImCertain(k) /\ ~LockerRelease(k) /\ ~Crash(k) /\ ~GetAnswer(k)
       /\ \A k \in Others : ~Forget(k) /\ ~CoordinatorDown(k) /\ ~TellOutcome(k) /\ ~ParticipantDown(k)
       /\ ~CoordinatorDied
  BY DEF GetReply, RecordCommit, ReleaseTid, DeleteTransaction, Kill, ImCertain, LockerRelease, Crash,
     GetAnswer,
     Forget, CoordinatorDown, TellOutcome, ParticipantDown, CoordinatorDied
<1> QED
  BY <1>1, <1>2, <1>t, DecidedSteps, <1>6, <1>7, <1>8, <1>9, <1>10 DEF CoordTmStep

\* With one failure no node makes the updates after it has given the locks away, when the
\* process is not killed between release_tid and delete_transaction, in every behaviour in
\* which no question overtakes the word of the process (mnesia_tm, mnesia_monitor and the
\* participants).
THEOREM CommitUnderLock ==
    ASSUME MaxFailures \leq 1, "released" \notin KillAt
    PROVE  CmSpec /\ []~overtaken => AppliedUnderLock
<1>1. CmInit => LocksHeld
  <2> SUFFICES ASSUME CmInit PROVE LocksHeld
    OBVIOUS
  <2>1. msgs = {} /\ up = locked /\ coord.pc = "start" /\ \A n \in Node : decision[n] = "none"
    BY DEF CmInit, Waiting
  <2>2. \A k \in (Others \cap up) \ locked : FALSE
    BY <2>1
  <2> QED
    BY <2>1, <2>2 DEF LocksHeld
<1>2. CommitInv /\ ~overtaken' /\ LocksHeld /\ [CmNext]_commitVars => LocksHeld'
  <2> SUFFICES ASSUME CommitInv, ~overtaken', LocksHeld, [CmNext]_commitVars PROVE LocksHeld'
    OBVIOUS
  <2>1. CASE CmNext
    BY <2>1, NextLocksHeld
  <2>2. CASE UNCHANGED commitVars
    BY <2>2 DEF commitVars, LocksHeld, Updating, Undecided, Decided, Deciding, Telling, At
  <2> QED
    BY <2>1, <2>2
<1>3. CommitInv /\ LocksHeld /\ [CmNext]_commitVars
         => [\A n \in Node : applied'[n] # applied[n] => n \in locked]_commitVars
  BY StepUnderLock
<1> QED
  BY CommitInvariant, <1>1, <1>2, <1>3, PTL DEF CmSpec, AppliedUnderLock

=============================================================================
