---------------------------- MODULE MnesiaCommit ----------------------------
(* The commit of one transaction: multi_commit in the process that runs it, *)
(* mnesia_tm and the participants on the other nodes, and the decisions     *)
(* kept by mnesia_recover.  The transaction holds its locks on every node   *)
(* when the commit starts.  Nodes fail and do not come back; the process    *)
(* may be killed.  What a node would do when it restarts is left out.       *)
(*                                                                          *)
(* A message is in msgs from the moment it is sent until it is taken out of *)
(* a mailbox.  Messages of different senders come in any order; a mailbox   *)
(* never holds two messages of one sender whose order matters.  What a      *)
(* process tells its own mnesia_recover is recorded at once: whoever asks   *)
(* later is behind it in the mailbox of mnesia_recover.                     *)
EXTENDS Naturals, FiniteSets

CONSTANTS
    Node,         \* the nodes with a copy of the updated tables
    Coord,        \* the node of the process that commits
    Protocols,    \* the commit protocols that are tried
    MaxFailures,  \* bound on the failures: nodes that fail, the process killed
    KillAt,       \* the places where the process may be killed
    Prompt        \* TRUE: no question overtakes the word of the process

Others == Node \ {Coord}

\* "schema_trans" is an asym_trans that changes table definitions.
Protocol == {"read_only", "sym_trans", "sync_sym_trans", "asym_trans", "schema_trans"}

ASSUME CommitAssumption ==
    /\ Coord \in Node /\ IsFiniteSet(Node)
    /\ Protocols \subseteq Protocol
    /\ MaxFailures \in Nat /\ Prompt \in BOOLEAN

VARIABLES
    protocol,   \* the protocol that arrange has chosen
    up,         \* the nodes that run
    msgs,       \* the messages on their way or in a mailbox
    coord,      \* the process that commits
    part,       \* the participant on a node, as mnesia_tm there has it
    asking,     \* mnesia_tm of a node that asks the others what happened
    decision,   \* the decision a node's mnesia_recover has on record
    applied,    \* how often a node has made the updates
    undone,     \* the nodes that have ended the transaction without them
    locked,     \* the nodes on which the transaction has its locks
    refused,    \* some node could not prepare the commit
    noticed,    \* the nodes whose mnesia_tm knows that Coord is down
    overtaken   \* history: a question has overtaken the word of the process

commitVars == <<protocol, up, msgs, coord, part, asking, decision, applied,
                undone, locked, refused, noticed, overtaken>>

-----------------------------------------------------------------------------
(* Data.                                                                   *)

Asym == protocol \in {"asym_trans", "schema_trans"}
Acknowledged == protocol \in {"sync_sym_trans", "schema_trans"}

Decision == {"none", "unclear", "aborted", "committed"}

ToTm == {"ask_commit", "do_commit", "do_abort", "simple_commit"}
ToCoord == {"vote_yes", "vote_no", "acc_pre_commit", "ack"}
ToParticipant == {"pre_commit", "committed", "abort"}
Certain == {"certain_committed", "certain_aborted"}
Message == [kind : ToTm \cup ToCoord \cup ToParticipant \cup Certain \cup {"release_tid"},
            from : Node, to : Node]

CoordPc == {"start", "votes", "acc", "told", "refusing", "giving_up", "noted", "acks",
            "applied", "released", "ended", "killed", "recovered"}

PartPc == {"none", "prepare", "voted", "pre_commit", "ended"}

Waiting(pc, nodes, yes) ==
    [pc |-> pc, wait |-> nodes, yes |-> {}, commit |-> yes, down |-> {}]

\* A question that mnesia_tm asks: who is still to answer, whom to tell the
\* outcome, and the answers so far.
NoQuestion == [on |-> FALSE, ask |-> {}, tell |-> {}, said |-> {}]

CmTypeOK ==
    /\ protocol \in Protocols
    /\ up \subseteq Node
    /\ msgs \subseteq Message
    /\ coord \in [pc : CoordPc, wait : SUBSET Others, yes : SUBSET Others,
                  commit : BOOLEAN, down : SUBSET Others]
    /\ part \in [Others -> PartPc]
    /\ asking \in [Node -> [on : BOOLEAN, ask : SUBSET Node, tell : SUBSET Node,
                            said : SUBSET Decision]]
    /\ decision \in [Node -> Decision]
    /\ applied \in [Node -> 0 .. 2]
    /\ undone \subseteq Node
    /\ locked \subseteq Node
    /\ refused \in BOOLEAN
    /\ noticed \subseteq Others
    /\ overtaken \in BOOLEAN

CmInit ==
    /\ protocol \in Protocols
    /\ up = Node
    /\ msgs = {}
    /\ coord = Waiting("start", {}, TRUE)
    /\ part = [n \in Others |-> "none"]
    /\ asking = [n \in Node |-> NoQuestion]
    /\ decision = [n \in Node |-> "none"]
    /\ applied = [n \in Node |-> 0]
    /\ undone = {}
    /\ locked = Node
    /\ refused = FALSE
    /\ noticed = {}
    /\ overtaken = FALSE

-----------------------------------------------------------------------------
(* Messages and decisions.                                                 *)

To(n, from, kind) == [kind |-> kind, from |-> from, to |-> n]
ToAll(ns, from, kind) == {To(n, from, kind) : n \in ns}

\* Messages to a node that is down disappear.
Exchange(taken, sent) == msgs' = (msgs \ taken) \cup {m \in sent : m.to \in up}

Inbox(n, kinds) == {m \in msgs : m.to = n /\ m.kind \in kinds}

\* merge_decisions: aborted overrides anything, committed overrides unclear.
Merge(old, new) ==
    IF "aborted" \in {old, new} THEN "aborted"
    ELSE IF "committed" \in {old, new} THEN "committed" ELSE new

\* do_log_decision: a certain outcome is merged and told to all the others.
LogDecision(n, outcome) ==
    decision' = [decision EXCEPT ![n] = IF outcome = "unclear" THEN outcome
                                        ELSE Merge(@, outcome)]
Told(n, outcome) ==
    ToAll(Node \ {n}, n, IF Merge(decision[n], outcome) = "committed"
                         THEN "certain_committed" ELSE "certain_aborted")

NoteDecision(n, outcome) == decision' = [decision EXCEPT ![n] = outcome]

\* do_commit and do_abort: the updates are made or given up.
Apply(n) == /\ applied' = [applied EXCEPT ![n] = IF @ < 2 THEN @ + 1 ELSE @]
            /\ UNCHANGED undone
GiveUp(n) == undone' = undone \cup {n} /\ UNCHANGED applied

Unlock(n) == locked' = locked \ {n}

ImCertain(n) ==
    \E m \in Inbox(n, Certain) :
        /\ decision' = [decision EXCEPT ![n] =
              Merge(@, IF m.kind = "certain_committed" THEN "committed" ELSE "aborted")]
        /\ Exchange({m}, {})
        /\ UNCHANGED <<overtaken, protocol, up, noticed, coord, part, asking, applied, undone, locked, refused>>

-----------------------------------------------------------------------------
(* The process that commits: multi_commit.                                 *)

\* The failures so far.
Failures == Cardinality(Node \ up) + (IF coord.pc \in {"killed", "recovered"} THEN 1 ELSE 0)

Goto(pc) == coord' = [coord EXCEPT !.pc = pc]

At(pc) == Coord \in up /\ coord.pc = pc

\* The process sends one message after the other and goes on to `next`; it
\* may be killed when it has sent some of them.
TellAndGo(taken, ns, kind, next) ==
    \/ Exchange(taken, ToAll(ns, Coord, kind)) /\ coord' = next
    \/ /\ (IF kind = "simple_commit" THEN "telling_readers" ELSE "telling") \in KillAt
       /\ Failures < MaxFailures
       /\ \E s \in SUBSET ns : s # ns /\ Exchange(taken, ToAll(s, Coord, kind))
       /\ Goto("killed")

ReadOnlyCommit ==
    /\ At("start") /\ protocol = "read_only"
    /\ TellAndGo({}, Others, "simple_commit", [coord EXCEPT !.pc = "told"])
    /\ UNCHANGED <<overtaken, protocol, up, noticed, part, asking, decision, applied, undone, locked, refused>>

\* Mutated form: the process asks and awaits its own node, too.
AskEverybody ==
    /\ At("start") /\ protocol # "read_only"
    /\ \E prepared \in BOOLEAN :
          /\ prepared \/ protocol = "schema_trans"
          /\ TellAndGo({}, Node, "ask_commit", Waiting("votes", Node, prepared))
          /\ refused' = ~prepared
    /\ UNCHANGED <<overtaken, protocol, up, noticed, part, asking, decision, applied, undone, locked>>

\* The local preparation fails only for changes of table definitions.
AskCommit ==
    /\ At("start") /\ protocol # "read_only"
    /\ \E prepared \in BOOLEAN :
          /\ prepared \/ protocol = "schema_trans"
          /\ TellAndGo({}, Others, "ask_commit", Waiting("votes", Others, prepared))
          /\ refused' = ~prepared
    /\ UNCHANGED <<overtaken, protocol, up, noticed, part, asking, decision, applied, undone, locked>>

\* Mutated form: the last answer decides.
HeardLast(n, yes) == [coord EXCEPT !.wait = @ \ {n}, !.commit = yes,
                                   !.yes = IF yes THEN @ \cup {n} ELSE @]

Heard(n, yes) == [coord EXCEPT !.wait = @ \ {n}, !.commit = @ /\ yes,
                               !.yes = IF yes THEN @ \cup {n} ELSE @]

\* rec_all, rec_acc_pre_commit, sync_schema_commit: the next expected message.
Hear(pc, n, kind) ==
    /\ At(pc) /\ n \in coord.wait
    /\ To(Coord, n, kind) \in msgs
    /\ coord' = Heard(n, kind # "vote_no")
    /\ Exchange({To(Coord, n, kind)}, {})

\* What a node sent before it failed comes before the news of its failure.
HearDown(n) ==
    /\ Coord \in up /\ coord.pc \in {"votes", "acc", "acks"}
    /\ n \in coord.wait \cap coord.down
    /\ ~\E m \in Inbox(Coord, ToCoord) : m.from = n
    /\ coord' = Heard(n, coord.pc = "acks")
    /\ UNCHANGED msgs

GetReply ==
    /\ \E n \in Others : \/ \E vote \in {"vote_yes", "vote_no"} : Hear("votes", n, vote)
                         \/ Hear("acc", n, "acc_pre_commit")
                         \/ Hear("acks", n, "ack")
                         \/ HearDown(n)
    /\ UNCHANGED <<overtaken, protocol, up, noticed, part, asking, decision, applied, undone, locked, refused>>

Heeded(pc) == At(pc) /\ coord.wait = {}

\* Everybody has voted yes: sym_trans tells everybody to commit, asym_trans
\* first puts an unclear decision in the log and tells everybody to do so.
AllVotedYes ==
    /\ Heeded("votes") /\ coord.commit
    /\ IF Asym
       THEN /\ TellAndGo({}, coord.yes, "pre_commit",
                         [coord EXCEPT !.pc = "acc", !.wait = coord.yes, !.yes = {}])
            /\ LogDecision(Coord, "unclear")
       ELSE /\ TellAndGo({}, Others, "do_commit", [coord EXCEPT !.pc = "told", !.wait = Others])
            /\ UNCHANGED decision
    /\ UNCHANGED <<overtaken, protocol, up, noticed, part, asking, applied, undone, locked, refused>>

\* Somebody has voted no or died.
SomebodyRefused ==
    /\ Heeded("votes") /\ ~coord.commit
    /\ IF Asym
       THEN /\ TellAndGo({}, coord.yes, "abort", [coord EXCEPT !.pc = "refusing"])
            /\ NoteDecision(Coord, "aborted")
       ELSE /\ TellAndGo({}, Others, "do_abort", [coord EXCEPT !.pc = "refusing"])
            /\ UNCHANGED decision
    /\ UNCHANGED <<overtaken, protocol, up, noticed, part, asking, applied, undone, locked, refused>>

\* asym_trans: everybody is uncertain, or somebody has died since.
AllPreCommitted ==
    /\ Heeded("acc")
    /\ IF coord.commit
       THEN TellAndGo({}, coord.yes, "committed", [coord EXCEPT !.pc = "told", !.wait = coord.yes])
       ELSE TellAndGo({}, coord.yes, "abort", [coord EXCEPT !.pc = "giving_up"])
    /\ UNCHANGED <<overtaken, protocol, up, noticed, part, asking, decision, applied, undone, locked, refused>>

\* The decision is put on record before the updates are made.
RecordCommit ==
    /\ At("told")
    /\ IF Asym THEN /\ LogDecision(Coord, "committed")
                    /\ Exchange({}, Told(Coord, "committed"))
               ELSE /\ NoteDecision(Coord, "committed")
                    /\ UNCHANGED msgs
    /\ Goto(IF protocol = "read_only" THEN "applied" ELSE "noted")
    /\ UNCHANGED <<overtaken, protocol, up, noticed, part, asking, applied, undone, locked, refused>>

MakeUpdates ==
    /\ At("noted")
    /\ Apply(Coord)
    /\ Goto(IF Acknowledged THEN "acks" ELSE "applied")
    /\ UNCHANGED <<overtaken, protocol, up, noticed, msgs, part, asking, decision, locked, refused>>

ReleaseTid ==
    /\ At("applied") \/ Heeded("acks")
    /\ Unlock(Coord)
    /\ Goto("released")
    /\ UNCHANGED <<overtaken, protocol, up, noticed, msgs, part, asking, decision, applied, undone, refused>>

DeleteTransaction ==
    /\ At("released")
    /\ Goto("ended")
    /\ UNCHANGED <<overtaken, protocol, up, noticed, msgs, part, asking, decision, applied, undone, locked, refused>>

\* The transaction is aborted: return_abort releases the locks everywhere.
ReturnAbort ==
    /\ At("refusing") \/ At("giving_up")
    /\ IF coord.pc = "giving_up"
       THEN /\ LogDecision(Coord, "aborted")
            /\ Exchange({}, Told(Coord, "aborted") \cup ToAll(Others, Coord, "release_tid"))
       ELSE /\ NoteDecision(Coord, "aborted")
            /\ Exchange({}, ToAll(Others, Coord, "release_tid"))
    /\ GiveUp(Coord)
    /\ Unlock(Coord)
    /\ Goto("ended")
    /\ UNCHANGED <<overtaken, protocol, up, noticed, part, asking, refused>>

LockerRelease(n) ==
    \E m \in Inbox(n, {"release_tid"}) :
        /\ Unlock(n)
        /\ Exchange({m}, {})
        /\ UNCHANGED <<overtaken, protocol, up, noticed, coord, part, asking, decision, applied, undone, refused>>

-----------------------------------------------------------------------------
(* mnesia_tm and the participants on the other nodes.                      *)

\* mnesia_tm takes no message while it waits for answers of mnesia_recover.
TmFree(n) == n \in up /\ ~asking[n].on

Enter(n, pc) == part' = [part EXCEPT ![n] = pc]

\* sym_trans: mnesia_tm votes itself; asym_trans: a process is spawned.
TakeAskCommit(n) ==
    /\ TmFree(n)
    /\ \E m \in Inbox(n, {"ask_commit"}) :
          IF Asym THEN Enter(n, "prepare") /\ Exchange({m}, {})
                  ELSE Enter(n, "voted") /\ Exchange({m}, {To(Coord, n, "vote_yes")})
    /\ UNCHANGED <<overtaken, protocol, up, noticed, coord, asking, decision, applied, undone, locked, refused>>

\* Only schema transactions have something to acknowledge or to refuse.
Ack(n) == IF Acknowledged THEN {To(Coord, n, "ack")} ELSE {}

Follows(n) == part[n] # "none"

TakeDoCommit(n) ==
    /\ TmFree(n)
    /\ \E m \in Inbox(n, {"do_commit"}) :
          IF Asym
          THEN /\ Exchange({m}, ToAll({k \in {n} : Follows(k)}, n, "committed"))
               /\ UNCHANGED <<part, decision, applied, undone, locked>>
          ELSE IF Follows(n)
          THEN /\ NoteDecision(n, "committed")
               /\ Apply(n)
               /\ Unlock(n)
               /\ Enter(n, "none")
               /\ Exchange({m}, Ack(n))
          ELSE /\ Exchange({m}, {})
               /\ UNCHANGED <<part, decision, applied, undone, locked>>
    /\ UNCHANGED <<overtaken, protocol, up, noticed, coord, asking, refused>>

TakeDoAbort(n) ==
    /\ TmFree(n)
    /\ \E m \in Inbox(n, {"do_abort"}) :
          IF ~Follows(n)
          THEN /\ Unlock(n)
               /\ Exchange({m}, {})
               /\ UNCHANGED <<part, decision, applied, undone>>
          ELSE IF Asym
          THEN /\ Exchange({m}, {To(n, n, "abort")})
               /\ UNCHANGED <<part, decision, applied, undone, locked>>
          ELSE /\ NoteDecision(n, "aborted")
               /\ GiveUp(n)
               /\ Unlock(n)
               /\ Enter(n, "none")
               /\ Exchange({m}, Ack(n))
    /\ UNCHANGED <<overtaken, protocol, up, noticed, coord, asking, refused>>

TakeSimpleCommit(n) ==
    /\ TmFree(n)
    /\ \E m \in Inbox(n, {"simple_commit"}) : Exchange({m}, {})
    /\ NoteDecision(n, "committed")
    /\ Unlock(n)
    /\ UNCHANGED <<overtaken, protocol, up, noticed, coord, part, asking, applied, undone, refused>>

\* commit_participant of asym_trans: prepare the commit and vote.
Vote(n) ==
    /\ n \in up /\ part[n] = "prepare"
    /\ \/ /\ Enter(n, "voted")
          /\ Exchange({}, {To(Coord, n, "vote_yes")})
          /\ UNCHANGED <<undone, locked, refused>>
       \/ /\ protocol = "schema_trans"
          /\ Enter(n, "ended")
          /\ Exchange({}, {To(Coord, n, "vote_no")})
          /\ undone' = undone \cup {n}
          /\ Unlock(n)
          /\ refused' = TRUE
    /\ UNCHANGED <<overtaken, protocol, up, noticed, coord, asking, decision, applied>>

\* The participant is uncertain from now on.
PreCommit(n) ==
    /\ n \in up /\ part[n] = "voted"
    /\ \E m \in Inbox(n, {"pre_commit"}) : Exchange({m}, {To(Coord, n, "acc_pre_commit")})
    /\ LogDecision(n, "unclear")
    /\ Enter(n, "pre_commit")
    /\ UNCHANGED <<overtaken, protocol, up, noticed, coord, asking, applied, undone, locked, refused>>

ParticipantCommit(n) ==
    /\ n \in up /\ part[n] = "pre_commit"
    /\ \E m \in Inbox(n, {"committed"}) : Exchange({m}, Told(n, "committed") \cup Ack(n))
    /\ LogDecision(n, "committed")
    /\ Apply(n)
    /\ Unlock(n)
    /\ Enter(n, "ended")
    /\ UNCHANGED <<overtaken, protocol, up, noticed, coord, asking, refused>>

\* Only an uncertain participant puts the abort on record.
ParticipantAbort(n) ==
    /\ n \in up /\ Asym /\ part[n] \in {"voted", "pre_commit"}
    /\ \E m \in Inbox(n, {"abort"}) :
          IF part[n] = "voted"
          THEN Exchange({m}, {}) /\ UNCHANGED decision
          ELSE Exchange({m}, Told(n, "aborted")) /\ LogDecision(n, "aborted")
    /\ GiveUp(n)
    /\ Unlock(n)
    /\ Enter(n, "ended")
    /\ UNCHANGED <<overtaken, protocol, up, noticed, coord, asking, refused>>

\* mnesia_tm takes the participant's delete_transaction.
Forget(n) ==
    /\ TmFree(n) /\ part[n] = "ended"
    /\ Enter(n, "none")
    /\ UNCHANGED <<overtaken, protocol, up, noticed, msgs, coord, asking, decision, applied, undone, locked, refused>>

-----------------------------------------------------------------------------
(* Failures.                                                               *)

\* outcome/2 with the default of the protocol, as filter_outcome shows it.
Known(n) == IF decision[n] # "none" THEN decision[n]
            ELSE IF Asym THEN "aborted" ELSE "unclear"

Certainly(n) == {Known(n)} \ {"unclear"}

\* Mutated form: only the own mnesia_recover is asked.
AskOnlyItself(n, tell) ==
    asking' = [asking EXCEPT ![n] = [on |-> TRUE, ask |-> {}, tell |-> tell,
                                     said |-> Certainly(n)]]

\* what_happened: ask the own mnesia_recover, and the others if it is uncertain.
Ask(n, tell) ==
    asking' = [asking EXCEPT ![n] =
                  [on |-> TRUE, ask |-> IF Certainly(n) = {} THEN tell \ {n} ELSE {},
                   tell |-> tell, said |-> Certainly(n)]]

\* The process has told the node to commit, and the node has yet to read it.
Unread(k) == /\ k \in up /\ decision[k] # "committed"
             /\ \E m \in Inbox(k, {"do_commit", "committed"}) : m.from = Coord

\* The node's mnesia_recover is asked and answers as it is.
AskedOf(k) == /\ overtaken' = (overtaken \/ Unread(k))
              /\ Prompt => ~overtaken'

\* Mutated form: an answer replaces those before it.
GetLastAnswer(n) ==
    /\ n \in up
    /\ \E k \in asking[n].ask :
          /\ AskedOf(k)
          /\ asking' = [asking EXCEPT ![n].ask = @ \ {k},
                             ![n].said = IF k \in up THEN Certainly(k) ELSE {}]
    /\ UNCHANGED <<protocol, up, noticed, msgs, coord, part, decision, applied, undone, locked, refused>>

\* A node's mnesia_recover answers; a node that is down does not.
GetAnswer(n) ==
    /\ n \in up
    /\ \E k \in asking[n].ask :
          /\ AskedOf(k)
          /\ asking' = [asking EXCEPT ![n].ask = @ \ {k},
                             ![n].said = @ \cup (IF k \in up THEN Certainly(k) ELSE {})]
    /\ UNCHANGED <<protocol, up, noticed, msgs, coord, part, decision, applied, undone, locked, refused>>

\* check_what_happened: one abort is enough, and so is that nobody knows.
Outcome(n) == IF asking[n].said = {"committed"} THEN "committed" ELSE "aborted"

Answered(n) == n \in up /\ asking[n].on /\ asking[n].ask = {}

Tell(n) == ToAll(asking[n].tell \ {Coord}, n,
                 IF Outcome(n) = "committed" THEN "do_commit" ELSE "do_abort")

EndQuestion(n) == asking' = [asking EXCEPT ![n] = NoQuestion]

TellOutcome(n) ==
    /\ n # Coord /\ Answered(n)
    /\ Exchange({}, Tell(n))
    /\ EndQuestion(n)
    /\ UNCHANGED <<overtaken, protocol, up, noticed, coord, part, decision, applied, undone, locked, refused>>

\* Mutated form: the lock manager is told before the outcome is known.
CoordinatorDownUnlocks(n) ==
    /\ TmFree(n) /\ Coord \notin up /\ n \notin noticed
    /\ ~\E m \in Inbox(n, ToTm) : m.from = Coord
    /\ AskedOf(n)
    /\ noticed' = noticed \cup {n}
    /\ IF Follows(n) THEN Ask(n, Others) ELSE UNCHANGED asking
    /\ Unlock(n)
    /\ UNCHANGED <<protocol, up, msgs, coord, part, decision, applied, undone, refused>>

\* mnesia_down of the coordinator's node: a participant finds out what has
\* happened; the locks of a transaction that has none here are released.
CoordinatorDown(n) ==
    /\ TmFree(n) /\ Coord \notin up /\ n \notin noticed
    /\ ~\E m \in Inbox(n, ToTm) : m.from = Coord
    /\ AskedOf(n)
    /\ noticed' = noticed \cup {n}
    /\ IF Follows(n) THEN Ask(n, Others) /\ UNCHANGED locked
                     ELSE Unlock(n) /\ UNCHANGED asking
    /\ UNCHANGED <<protocol, up, msgs, coord, part, decision, applied, undone, refused>>

\* mnesia_down of another node: the process is told if it may wait for it.
ParticipantDown(n) ==
    /\ TmFree(Coord) /\ coord.pc \notin {"ended", "killed", "recovered"}
    /\ n \notin up \cup coord.down
    /\ \/ decision[Coord] \in {"none", "unclear"}
       \/ decision[Coord] = "committed" /\ Acknowledged
    /\ coord' = [coord EXCEPT !.down = @ \cup {n}]
    /\ UNCHANGED <<overtaken, protocol, up, noticed, msgs, part, asking, decision, applied, undone, locked, refused>>

Kill ==
    /\ Coord \in up /\ coord.pc \in KillAt \ {"ended", "killed", "recovered"}
    /\ Failures < MaxFailures
    /\ Goto("killed")
    /\ UNCHANGED <<overtaken, protocol, up, noticed, msgs, part, asking, decision, applied, undone, locked, refused>>

\* handle_exit: the process has died, its mnesia_tm finds out what happened.
CoordinatorDied ==
    /\ TmFree(Coord) /\ coord.pc = "killed"
    /\ Ask(Coord, Node)
    /\ UNCHANGED <<overtaken, protocol, up, noticed, msgs, coord, part, decision, applied, undone, locked, refused>>

\* Mutated form: the others are not told the outcome.
RecoverAlone ==
    /\ Answered(Coord)
    /\ LET outcome == Outcome(Coord)
       IN  /\ NoteDecision(Coord, outcome)
           /\ IF outcome = "aborted" THEN GiveUp(Coord)
              ELSE IF protocol = "read_only" THEN UNCHANGED <<applied, undone>>
              ELSE Apply(Coord)
    /\ Unlock(Coord)
    /\ Goto("recovered")
    /\ EndQuestion(Coord)
    /\ UNCHANGED <<overtaken, protocol, up, noticed, msgs, part, refused>>

\* recover_coordinator: the outcome is told to the others and carried out.
RecoverCoordinator ==
    /\ Answered(Coord)
    /\ LET outcome == Outcome(Coord)
       IN  /\ IF Asym
              THEN LogDecision(Coord, outcome) /\ Exchange({}, Tell(Coord) \cup Told(Coord, outcome))
              ELSE NoteDecision(Coord, outcome) /\ Exchange({}, Tell(Coord))
           /\ IF outcome = "aborted" THEN GiveUp(Coord)
              ELSE IF protocol = "read_only" THEN UNCHANGED <<applied, undone>>
              ELSE Apply(Coord)
    /\ Unlock(Coord)
    /\ Goto("recovered")
    /\ EndQuestion(Coord)
    /\ UNCHANGED <<overtaken, protocol, up, noticed, part, refused>>

\* What a node has sent last may be lost when it fails: the messages to
\* mnesia_recover and to the lock manager follow those to mnesia_tm.
Lost(n, ms) ==
    LET Late == Certain \cup {"release_tid"}
    IN  \A m \in ms, k \in {j \in msgs : j.from = n} \ ms :
            m.to = k.to /\ k.kind \in Late => m.kind \in Late

Crash(n) ==
    /\ n \in up /\ Failures < MaxFailures
    /\ up' = up \ {n}
    /\ \E ms \in SUBSET {m \in msgs : m.from = n /\ m.to # n} :
          /\ Lost(n, ms)
          /\ msgs' = {m \in msgs \ ms : m.to # n}
    /\ IF n = Coord THEN UNCHANGED part ELSE Enter(n, "none")
    /\ EndQuestion(n)
    /\ Unlock(n)
    /\ UNCHANGED <<overtaken, protocol, coord, decision, applied, undone, refused, noticed>>

-----------------------------------------------------------------------------
(* The specification.                                                      *)

CoordStep ==
    \/ ReadOnlyCommit \/ AskCommit \/ GetReply \/ AllVotedYes \/ SomebodyRefused
    \/ AllPreCommitted \/ RecordCommit \/ MakeUpdates \/ ReleaseTid
    \/ DeleteTransaction \/ ReturnAbort

TmStep(n) ==
    \/ TakeAskCommit(n) \/ TakeDoCommit(n) \/ TakeDoAbort(n) \/ TakeSimpleCommit(n)
    \/ Forget(n) \/ CoordinatorDown(n) \/ GetAnswer(n) \/ TellOutcome(n)

CoordTmStep ==
    \/ \E n \in Others : ParticipantDown(n)
    \/ CoordinatorDied \/ GetAnswer(Coord) \/ RecoverCoordinator

ParticipantStep(n) == Vote(n) \/ PreCommit(n) \/ ParticipantCommit(n) \/ ParticipantAbort(n)

CmNext ==
    \/ CoordStep \/ CoordTmStep \/ Kill
    \/ \E n \in Others : TmStep(n) \/ ParticipantStep(n)
    \/ \E n \in Node : ImCertain(n) \/ LockerRelease(n) \/ Crash(n)

CmFairness ==
    /\ WF_commitVars(CoordStep) /\ WF_commitVars(CoordTmStep)
    /\ \A n \in Others : /\ WF_commitVars(TmStep(n))
                         /\ WF_commitVars(ParticipantStep(n))
    /\ \A n \in Node : WF_commitVars(ImCertain(n)) /\ WF_commitVars(LockerRelease(n))

CmSpec == CmInit /\ [][CmNext]_commitVars /\ CmFairness

-----------------------------------------------------------------------------
(* Properties.                                                             *)

\* No two nodes that are up have ended the transaction differently: when the
\* process or its node has died, "if somebody knows the outcome the others
\* will follow" (multi_commit of sym_trans, tell_outcome).
Agreement == ~ \E m, n \in up : applied[m] > 0 /\ n \in undone

\* "If we have a committed marker in the log we may safely commit since we
\* know that everybody else also will come to this conclusion": the decisions
\* of two nodes never contradict each other, not even those of a node that
\* is down (multi_commit of asym_trans, recovery).
MarkersAgree == ~ \E m, n \in Node : decision[m] = "committed" /\ decision[n] = "aborted"

\* A node that is up never turns a decision round, although both mnesia_tm and
\* the mnesia_recover of other nodes write its table: a commit stays on record,
\* and an abort never becomes a commit (note_decision, log_decision, im_certain).
DecisionKept ==
    [][\A n \in up : /\ decision[n] = "committed" => decision'[n] = "committed"
                     /\ decision[n] = "aborted" => decision'[n] # "committed"]_commitVars

\* No node makes the updates once its lock manager has given away the locks:
\* neither at the mnesia_down of a node (mnesia_monitor tells mnesia_tm before
\* mnesia_locker) nor when mnesia_tm makes them in place of a dead process.
AppliedUnderLock ==
    [][\A n \in Node : applied'[n] # applied[n] => n \in locked]_commitVars

\* Whoever dies, the locks of the transaction are released in the end on every
\* node: no participant waits for ever for a decision, and the process not
\* for an answer (release_tid in multi_commit, mnesia_tm and the participants).
LocksAreReleased == <>(locked = {})

\* Updates that one node has made reach all the others that stay up, from the
\* process or from whoever takes over (tell_outcome, recover_coordinator).
UpdatesSpread == <>[](\A m, n \in up : applied[m] > 0 => applied[n] > 0)

\* Every transaction comes to an end, and to the same one on all nodes that stay up.
CommitEnds == LocksAreReleased /\ UpdatesSpread

\* The commit implements what AtomicCommit promises: all or nothing on the
\* nodes that stay up, and nothing if one of them could not prepare.
Atomic == INSTANCE AtomicCommit
             WITH alive <- up, applied <- {n \in Node : applied[n] > 0}
CommitIsAtomic == Atomic!ACSpec

=============================================================================
