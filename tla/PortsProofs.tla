---------------------------- MODULE PortsProofs ----------------------------
(***************************************************************************)
(* Theorems about two programs behind ports.                               *)
(*                                                                         *)
(* What the control process of an odbc connection promises its owner, for  *)
(* any requests, outcomes, limits and numbers of calls: an answer of the   *)
(* port program goes to the call whose request it answers.                 *)
(*                                                                         *)
(* The names and ports of uds_drv.c, for any number of nodes, ports and    *)
(* names, and any number of crashes.                                       *)
(***************************************************************************)
EXTENDS UdsPorts, OdbcControl, SequenceTheorems, TLAPS

(***************************************************************************)
(* The control process of odbc.                                            *)
(***************************************************************************)

-----------------------------------------------------------------------------
(* The invariant.                                                          *)

IsSeq(s) == s \in Seq({s[i] : i \in DOMAIN s})

CtlFields == {"state", "reply_to", "pending", "timeouts", "timer", "auto", "scroll", "able",
              "result", "active", "told"}

\* The fields of the records, and the types of those that the proof is about.
Shapes ==
    /\ DOMAIN ctl = CtlFields /\ ctl.reply_to \in Int
    /\ DOMAIN cl = {"pc", "id", "call", "ret", "got"}
    /\ cl.id \in Nat /\ cl.pc \in {"idle", "waiting", "dead"}
    /\ DOMAIN threads = {"main", "sup", "exit"}
    /\ menu \in DOMAIN Menus
    /\ IsSeq(box) /\ IsSeq(toC) /\ (Alive => IsSeq(fromC))

\* The port program answers what it has been asked.
Asked == threads.main \in {"handle", "send"} => toC # <<>>

\* One request is under way at a time: with the port program, ...
UnderWay ==
    /\ Len(toC) <= 1 /\ Len(fromC) <= 1
    /\ toC # <<>> => fromC = <<>>
    /\ \A i, j \in DOMAIN box : box[i].kind = "tcp" /\ box[j].kind = "tcp" => i = j
    /\ (\E i \in DOMAIN box : box[i].kind = "tcp") => toC = <<>> /\ fromC = <<>>

\* ... and it is that of the call that waits for the answer, or the answer will be
\* thrown away.
IsDue(id) == ctl.reply_to # UNDEFINED /\ ctl.reply_to \in {SKIP, id}

Due ==
    /\ toC # <<>> => IsDue(toC[1].id)
    /\ fromC # <<>> => IsDue(fromC[1].id)
    /\ \A i \in DOMAIN box : box[i].kind = "tcp" => IsDue(box[i].msg.id)

\* Until the port program has connected nothing has been asked of it.
Accepts ==
    ctl.state = "accepting" =>
        /\ toC = <<>> /\ fromC = <<>> /\ \A i \in DOMAIN box : box[i].kind # "tcp"
        /\ ctl.reply_to = cl.id /\ cl.id > 0

\* The owner has one call: in the mailbox, set aside, or the one to be answered.
ItsCall ==
    /\ cl.id > 0 => cl.call.id = cl.id
    /\ ctl.reply_to \notin {UNDEFINED, SKIP} =>
         ctl.reply_to = cl.id /\ cl.pc # "idle" /\ ctl.pending = NULL
    /\ ctl.pending # NULL => ctl.pending = cl.call /\ cl.pc # "idle" /\ cl.id > 0 /\ ctl.reply_to = SKIP
    /\ ctl.reply_to = SKIP => ctl.state = "connected"

IsCall(m) == m.kind = "call" /\ m.call.id # 0
IsStrange(m) == m.kind = "call" /\ m.call.id = 0

InBox ==
    /\ \A i \in DOMAIN box : IsCall(box[i]) =>
         /\ box[i].call = cl.call /\ cl.pc # "idle" /\ cl.id > 0
         /\ ctl.pending = NULL /\ ctl.reply_to \in {UNDEFINED, SKIP}
    /\ \A i, j \in DOMAIN box : IsCall(box[i]) /\ IsCall(box[j]) => i = j
    /\ \A i, j \in DOMAIN box : IsStrange(box[i]) /\ IsCall(box[j]) => i < j
    /\ \A i \in DOMAIN box : IsStrange(box[i]) => ctl.reply_to = UNDEFINED

OwnInv ==
    /\ AnswersOwn /\ Shapes /\ Asked
    /\ Alive => UnderWay /\ Due /\ Accepts /\ ItsCall /\ InBox

-----------------------------------------------------------------------------
(* Sequences.                                                              *)

\* The positions of a sequence.
LEMMA SeqFacts ==
    ASSUME NEW s, IsSeq(s)
    PROVE  /\ Len(s) \in Nat /\ DOMAIN s = 1..Len(s)
           /\ s = <<>> <=> Len(s) = 0
           /\ s # <<>> => Head(s) = s[1] /\ 1 \in DOMAIN s
  <1> DEFINE S == {s[i] : i \in DOMAIN s}
  <1>0. s \in Seq(S)
    BY DEF IsSeq
  <1> HIDE DEF S
  <1>1. Len(s) \in Nat /\ DOMAIN s = 1..Len(s)
    BY <1>0, LenProperties
  <1>2. s = <<>> <=> Len(s) = 0
    BY <1>0, EmptySeq
  <1>3. s # <<>> => Head(s) = s[1]
    BY <1>0
  <1> QED
    BY <1>1, <1>2, <1>3

\* A set of elements is as good as that of all elements.
LEMMA SeqOver ==
    ASSUME NEW S, NEW s \in Seq(S)
    PROVE  IsSeq(s)
  <1>1. Len(s) \in Nat /\ s \in [1..Len(s) -> S] /\ DOMAIN s = 1..Len(s)
    BY LenProperties
  <1> DEFINE T == {s[i] : i \in DOMAIN s}
  <1>2. s \in [1..Len(s) -> T]
    BY <1>1
  <1>3. s \in Seq(T)
    BY <1>1, <1>2, SMTT(60) DEF Seq
  <1> QED
    BY <1>3 DEF IsSeq

LEMMA NoElements == IsSeq(<<>>) /\ Len(<<>>) = 0 /\ DOMAIN <<>> = {}
  <1>1. <<>> \in Seq({})
    BY EmptySeq
  <1>2. IsSeq(<<>>)
    BY <1>1, SeqOver
  <1> QED
    BY <1>2, SeqFacts

\* A message comes last, ...
LEMMA Appended ==
    ASSUME NEW s, IsSeq(s), NEW e
    PROVE  /\ IsSeq(Append(s, e)) /\ Append(s, e) # <<>> /\ Len(Append(s, e)) = Len(s) + 1
           /\ \A i \in DOMAIN Append(s, e) :
                \/ i \in DOMAIN s /\ Append(s, e)[i] = s[i]
                \/ i = Len(s) + 1 /\ Append(s, e)[i] = e
           /\ \A i \in DOMAIN s : i < Len(s) + 1
           /\ s = <<>> => Append(s, e)[1] = e
  <1> DEFINE S == {s[i] : i \in DOMAIN s} \cup {e}
             a == Append(s, e)
  <1>0. Len(s) \in Nat /\ DOMAIN s = 1..Len(s) /\ (s = <<>> <=> Len(s) = 0)
    BY SeqFacts
  <1>1. s \in Seq({s[i] : i \in DOMAIN s})
    BY DEF IsSeq
  <1>2. s \in Seq(S)
    BY <1>1, SeqMonotonic
  <1>3. e \in S
    OBVIOUS
  <1> HIDE DEF S
  <1>4. /\ a \in Seq(S) /\ a # <<>> /\ Len(a) = Len(s) + 1
        /\ \A i \in 1..Len(s) : a[i] = s[i]
        /\ a[Len(s) + 1] = e
    BY <1>2, <1>3, AppendProperties
  <1>5. IsSeq(a)
    BY <1>4, SeqOver
  <1> HIDE DEF a
  <1>6. DOMAIN a = 1..(Len(s) + 1)
    BY <1>4, <1>5, SeqFacts
  <1>7. \A i \in DOMAIN a : (i \in DOMAIN s /\ a[i] = s[i]) \/ (i = Len(s) + 1 /\ a[i] = e)
    BY <1>0, <1>4, <1>6
  <1>8. \A i \in DOMAIN s : i < Len(s) + 1
    BY <1>0
  <1>9. s = <<>> => a[1] = e
    BY <1>0, <1>4
  <1> QED
    BY <1>4, <1>5, <1>7, <1>8, <1>9 DEF a

\* ... and the first one is taken.
LEMMA Taken ==
    ASSUME NEW s, IsSeq(s), s # <<>>
    PROVE  /\ IsSeq(Tail(s)) /\ Len(Tail(s)) = Len(s) - 1
           /\ \A i \in DOMAIN Tail(s) : i + 1 \in DOMAIN s /\ i + 1 # 1 /\ Tail(s)[i] = s[i + 1]
           /\ \A i \in DOMAIN Tail(s) : i \in Nat
           /\ Len(s) <= 1 => Tail(s) = <<>>
  <1> DEFINE S == {s[i] : i \in DOMAIN s}
             t == Tail(s)
  <1>1. s \in Seq(S)
    BY DEF IsSeq
  <1>0. Len(s) \in Nat /\ DOMAIN s = 1..Len(s) /\ Len(s) # 0
    BY SeqFacts
  <1> HIDE DEF S
  <1>2. t \in Seq(S) /\ Len(t) = Len(s) - 1 /\ \A i \in 1..Len(t) : t[i] = s[i + 1]
    BY <1>1, HeadTailProperties
  <1>3. IsSeq(t)
    BY <1>2, SeqOver
  <1> HIDE DEF t
  <1>4. DOMAIN t = 1..Len(t) /\ (t = <<>> <=> Len(t) = 0)
    BY <1>3, SeqFacts
  <1>5. \A i \in DOMAIN t : i + 1 \in DOMAIN s /\ i + 1 # 1 /\ t[i] = s[i + 1] /\ i \in Nat
    BY <1>0, <1>2, <1>4
  <1>6. Len(s) <= 1 => t = <<>>
    BY <1>0, <1>2, <1>4
  <1> QED
    BY <1>2, <1>3, <1>5, <1>6 DEF t

-----------------------------------------------------------------------------
(* What the parts of a step do.                                            *)

ClFields == {"pc", "id", "call", "ret", "got"}
Pcs == {"idle", "waiting", "dead"}

\* A reply ends a call, and gives an answer only to the call that it is for.
LEMMA Replies ==
    ASSUME DOMAIN cl = ClFields, cl.pc \in Pcs, NEW id, NEW what, NEW got,
           NEW r, r = reply(cl, id, what, got)
    PROVE  /\ DOMAIN r = ClFields /\ r.id = cl.id /\ r.call = cl.call /\ r.pc \in Pcs
           /\ r.got = cl.got \/ (cl.id = id /\ r.got = got)
  BY DEF reply, ClFields, Pcs

LEMMA TerminatedFacts ==
    ASSUME DOMAIN cl = ClFields, cl.pc \in Pcs, NEW r, r = Terminated(cl)
    PROVE  /\ DOMAIN r = ClFields /\ r.id = cl.id /\ r.call = cl.call /\ r.pc \in Pcs
           /\ r.got \in {cl.got, NULL}
  BY DEF Terminated, ClFields, Pcs

\* Of a process that has stopped little is asked.
LEMMA Stopped ==
    ASSUME OwnInv, ctl'.state \in {"stopped", "bad_return"}, DOMAIN ctl' = CtlFields, ctl'.reply_to \in Int,
           DOMAIN cl' = ClFields, cl'.id = cl.id, cl'.pc \in Pcs, AnswersOwn',
           IsSeq(box'), UNCHANGED <<threads, toC, menu>>
    PROVE  OwnInv'
  <1>1. ~Alive'
    BY DEF Alive
  <1>2. Shapes'
    BY <1>1 DEF OwnInv, Shapes, ClFields, Pcs
  <1>3. Asked'
    BY DEF OwnInv, Asked
  <1> QED
    BY <1>1, <1>2, <1>3 DEF OwnInv

LEMMA Terminates ==
    ASSUME OwnInv, NEW how, NEW next \in {"stopped", "bad_return"}, terminate(how, next),
           IsSeq(box'), UNCHANGED <<threads, menu>>
    PROVE  OwnInv'
  <1>1. DOMAIN ctl = CtlFields /\ DOMAIN cl = ClFields /\ cl.pc \in Pcs
    BY DEF OwnInv, Shapes, ClFields, Pcs
  <1>2. ctl' = [ctl EXCEPT !.state = next, !.timer = FALSE, !.reply_to = UNDEFINED, !.pending = NULL]
    BY DEF terminate
  <1>3. DOMAIN ctl' = CtlFields /\ ctl'.state = next /\ ctl'.reply_to = 0
    BY <1>1, <1>2 DEF CtlFields, UNDEFINED
  <1>4. /\ DOMAIN cl' = ClFields /\ cl'.id = cl.id /\ cl'.pc \in Pcs
        /\ cl'.got \in {cl.got, NULL}
    <2>1. cl' = Terminated(cl)
      BY DEF terminate
    <2> QED
      BY <1>1, <2>1, TerminatedFacts
  <1>5. AnswersOwn'
    BY <1>4 DEF OwnInv, AnswersOwn
  <1>6. toC' = toC
    BY DEF terminate
  <1>7. ctl'.reply_to \in Int
    BY <1>3
  <1>8. ctl'.state \in {"stopped", "bad_return"}
    BY <1>3
  <1> QED
    BY <1>3, <1>4, <1>5, <1>6, <1>7, <1>8, Stopped

LEMMA StopsWith ==
    ASSUME OwnInv, NEW id, NEW what, NEW got, Stops(id, what, got), got = NULL \/ got = id,
           IsSeq(box'), UNCHANGED <<threads, menu>>
    PROVE  OwnInv'
  <1>1. DOMAIN ctl = CtlFields /\ DOMAIN cl = ClFields /\ cl.pc \in Pcs
    BY DEF OwnInv, Shapes, ClFields, Pcs
  <1>2. ctl' = [ctl EXCEPT !.state = "stopped", !.pending = NULL, !.reply_to = UNDEFINED, !.timer = FALSE]
    BY DEF Stops
  <1>3. DOMAIN ctl' = CtlFields /\ ctl'.state = "stopped" /\ ctl'.reply_to = 0
    BY <1>1, <1>2 DEF CtlFields, UNDEFINED
  <1>4. /\ DOMAIN cl' = ClFields /\ cl'.id = cl.id /\ cl'.pc \in Pcs
        /\ cl'.got = cl.got \/ (cl.id = id /\ cl'.got = got)
    <2>1. cl' = reply(cl, id, what, got)
      BY DEF Stops
    <2> QED
      BY <1>1, <2>1, Replies
  <1>5. AnswersOwn'
    BY <1>4 DEF OwnInv, AnswersOwn
  <1>6. toC' = toC
    BY DEF Stops
  <1>7. ctl'.reply_to \in Int
    BY <1>3
  <1>8. ctl'.state \in {"stopped", "bad_return"}
    BY <1>3
  <1> QED
    BY <1>3, <1>4, <1>5, <1>6, <1>7, <1>8, Stopped

\* A request is sent, or waits for the port program to connect, or is answered at
\* once; where it had to wait, an answer at once ends the process.
LEMMA Handled ==
    ASSUME Shapes, NEW call, NEW info \in BOOLEAN, NEW c, DOMAIN c = CtlFields, handle_msg(call, c, info)
    PROVE  \/ /\ cl' = cl /\ fromC' = fromC /\ DOMAIN ctl' = CtlFields
              /\ ctl'.reply_to = c.reply_to /\ ctl'.pending = c.pending
              /\ \/ toC' = toC /\ ctl'.state = "accepting"
                 \/ toC' = Append(toC, call) /\ ctl'.state \in {c.state, "disconnecting"}
           \/ terminate("bad_return", "bad_return")
           \/ /\ fromC' = fromC /\ toC' = toC /\ cl' = reply(cl, call.id, "error", NULL)
              /\ DOMAIN ctl' = CtlFields /\ ctl'.state = c.state
              /\ ctl'.reply_to = UNDEFINED /\ ctl'.pending = c.pending
  <1> DEFINE Out(d) == /\ cl' = cl /\ fromC' = fromC /\ toC' = Append(toC, call)
                       /\ ctl' = [d EXCEPT !.timer = call.timed, !.active = TRUE]
             Refused == Answers(call, c, "error", info)
             Goal == \/ /\ cl' = cl /\ fromC' = fromC /\ DOMAIN ctl' = CtlFields
                        /\ ctl'.reply_to = c.reply_to /\ ctl'.pending = c.pending
                        /\ \/ toC' = toC /\ ctl'.state = "accepting"
                           \/ toC' = Append(toC, call) /\ ctl'.state \in {c.state, "disconnecting"}
                     \/ terminate("bad_return", "bad_return")
                     \/ /\ fromC' = fromC /\ toC' = toC /\ cl' = reply(cl, call.id, "error", NULL)
                        /\ DOMAIN ctl' = CtlFields /\ ctl'.state = c.state
                        /\ ctl'.reply_to = UNDEFINED /\ ctl'.pending = c.pending
  <1> SUFFICES Goal
    OBVIOUS
  <1>1. ASSUME NEW d, Out(d), DOMAIN d = CtlFields, d.reply_to = c.reply_to, d.pending = c.pending,
               d.state \in {c.state, "disconnecting"}
        PROVE  Goal
    <2>1. cl' = cl /\ fromC' = fromC /\ toC' = Append(toC, call)
      BY <1>1
    <2>2. ctl' = [d EXCEPT !.timer = call.timed, !.active = TRUE]
      BY <1>1
    <2>3. /\ DOMAIN ctl' = CtlFields /\ ctl'.reply_to = d.reply_to /\ ctl'.pending = d.pending
          /\ ctl'.state = d.state
      BY <1>1, <2>2 DEF CtlFields
    <2> QED
      BY <1>1, <2>1, <2>3
  <1>2. ASSUME Refused PROVE Goal
    <2>1. CASE info
      BY <1>2, <2>1 DEF Answers
    <2>2. CASE ~info
      <3>1. cl' = reply(cl, call.id, "error", NULL) /\ fromC' = fromC /\ toC' = toC
        BY <1>2, <2>2 DEF Answers
      <3>2. ctl' = [c EXCEPT !.reply_to = UNDEFINED, !.timer = FALSE]
        BY <1>2, <2>2 DEF Answers
      <3>3. /\ DOMAIN ctl' = CtlFields /\ ctl'.state = c.state
            /\ ctl'.reply_to = UNDEFINED /\ ctl'.pending = c.pending
        BY <3>2 DEF CtlFields
      <3> QED
        BY <3>1, <3>3
    <2> QED
      BY <2>1, <2>2
  <1>3. CASE call.op = "connect"
    <2>1. cl' = cl /\ fromC' = fromC /\ toC' = toC
      BY <1>3 DEF handle_msg
    <2>2. ctl' = [c EXCEPT !.state = "accepting", !.auto = call.auto = ON, !.scroll = call.scroll = ON]
      BY <1>3 DEF handle_msg
    <2>3. /\ DOMAIN ctl' = CtlFields /\ ctl'.reply_to = c.reply_to /\ ctl'.pending = c.pending
          /\ ctl'.state = "accepting"
      BY <2>2 DEF CtlFields
    <2> QED
      BY <2>1, <2>3
  <1>4. CASE call.op = "close"
    <2> DEFINE d == [c EXCEPT !.state = "disconnecting"]
    <2>1. Out(d)
      BY <1>4 DEF handle_msg, odbc_send
    <2>2. DOMAIN d = CtlFields /\ d.reply_to = c.reply_to /\ d.pending = c.pending /\ d.state = "disconnecting"
      BY DEF CtlFields
    <2> HIDE DEF d, Goal
    <2> QED
      BY <2>1, <2>2, <1>1
  <1>5. CASE call.op = "commit"
    <2>1. Refused \/ Out(c)
      BY <1>5 DEF handle_msg, odbc_send
    <2> HIDE DEF Refused, Goal
    <2> QED
      BY <2>1, <1>1, <1>2
  <1>6. CASE call.op \in {"query", "param", "describe", "count"}
    <2>1. Out([c EXCEPT !.result = FALSE]) \/ Out([c EXCEPT !.result = TRUE])
      BY <1>6 DEF handle_msg, odbc_send
    <2>2. \A b : LET d == [c EXCEPT !.result = b]
                 IN  /\ DOMAIN d = CtlFields /\ d.reply_to = c.reply_to /\ d.pending = c.pending
                     /\ d.state = c.state
      BY DEF CtlFields
    <2> HIDE DEF Goal
    <2> QED
      BY <2>1, <2>2, <1>1, ZenonT(60)
  <1>7. CASE call.op \notin {"connect", "close", "commit", "query", "param", "describe", "count"}
    <2>1. Refused \/ Out(c)
      BY <1>7 DEF handle_msg, odbc_send
    <2> HIDE DEF Refused, Goal
    <2> QED
      BY <2>1, <1>1, <1>2
  <1> QED
    BY <1>3, <1>4, <1>5, <1>6, <1>7

Quiet(m) == m.kind \notin {"tcp", "call"}

\* To handle the call of the owner, when nothing else is under way, keeps the
\* invariant.
LEMMA HandledKeeps ==
    ASSUME OwnInv, Alive, NEW call, NEW info \in BOOLEAN, NEW c, DOMAIN c = CtlFields,
           handle_msg(call, c, info), call.id = cl.id, cl.id > 0, cl.pc # "idle",
           c.reply_to = cl.id, c.pending = NULL, c.state = ctl.state, ctl.state # "accepting",
           toC = <<>>, fromC = <<>>, IsSeq(box'), \A i \in DOMAIN box' : Quiet(box'[i]),
           UNCHANGED <<threads, menu>>
    PROVE  OwnInv'
  <1>0. Shapes /\ AnswersOwn /\ Asked /\ ItsCall
    BY DEF OwnInv
  <1>1. DOMAIN cl = ClFields /\ cl.pc \in Pcs /\ cl.id \in Nat /\ cl.call.id = cl.id
    BY <1>0 DEF Shapes, ItsCall, ClFields, Pcs
  <1>2. InBox'
    BY DEF InBox, Quiet, IsCall, IsStrange
  <1>3. \A i \in DOMAIN box' : box'[i].kind # "tcp"
    BY DEF Quiet
  <1>4. ctl.state \notin {"stopped", "bad_return"}
    BY DEF Alive
  <1>5. CASE terminate("bad_return", "bad_return")
    BY <1>5, Terminates
  <1>6. CASE /\ cl' = cl /\ fromC' = fromC /\ DOMAIN ctl' = CtlFields
             /\ ctl'.reply_to = c.reply_to /\ ctl'.pending = c.pending
             /\ \/ toC' = toC /\ ctl'.state = "accepting"
                \/ toC' = Append(toC, call) /\ ctl'.state \in {c.state, "disconnecting"}
    <2>1. IsSeq(toC) /\ IsSeq(fromC') /\ Len(fromC') = 0 /\ fromC' = <<>> /\ Len(toC) = 0
      BY <1>6, NoElements
    <2>2. /\ IsSeq(toC') /\ Len(toC') <= 1
          /\ toC' # <<>> => toC'[1] = call
          /\ ctl'.state = "accepting" => toC' = <<>>
      <3>1. CASE toC' = toC
        BY <2>1, <3>1
      <3>2. CASE toC' = Append(toC, call) /\ ctl'.state \in {c.state, "disconnecting"}
        <4>1. IsSeq(toC') /\ Len(toC') = Len(toC) + 1 /\ toC'[1] = call
          <5>1. /\ IsSeq(Append(toC, call)) /\ Len(Append(toC, call)) = Len(toC) + 1
                /\ Append(toC, call)[1] = call
            BY <2>1, Appended, ZenonT(60)
          <5> QED
            BY <3>2, <5>1
        <4>2. ctl'.state # "accepting"
          BY <3>2
        <4> QED
          BY <2>1, <4>1, <4>2
      <3> QED
        BY <1>6, <3>1, <3>2
    <2>3. Shapes'
      BY <1>0, <1>1, <1>6, <2>1, <2>2 DEF Shapes
    <2>4. Asked'
      BY <1>0 DEF Asked
    <2>5. UnderWay'
      BY <1>3, <2>1, <2>2 DEF UnderWay
    <2>6. Due'
      BY <1>1, <1>3, <1>6, <2>1, <2>2 DEF Due, IsDue, UNDEFINED, SKIP
    <2>7. Accepts'
      BY <1>3, <1>6, <2>1, <2>2 DEF Accepts
    <2>8. ItsCall'
      BY <1>0, <1>1, <1>6 DEF ItsCall, UNDEFINED, SKIP
    <2>9. AnswersOwn'
      BY <1>0, <1>6 DEF AnswersOwn
    <2> QED
      BY <1>2, <2>3, <2>4, <2>5, <2>6, <2>7, <2>8, <2>9 DEF OwnInv
  <1>7. CASE /\ fromC' = fromC /\ toC' = toC /\ cl' = reply(cl, call.id, "error", NULL)
             /\ DOMAIN ctl' = CtlFields /\ ctl'.state = c.state
             /\ ctl'.reply_to = UNDEFINED /\ ctl'.pending = c.pending
    <2>1. /\ IsSeq(toC') /\ Len(toC') = 0 /\ toC' = <<>>
          /\ IsSeq(fromC') /\ Len(fromC') = 0 /\ fromC' = <<>>
      BY <1>7, NoElements
    <2>2. /\ DOMAIN cl' = ClFields /\ cl'.id = cl.id /\ cl'.call = cl.call /\ cl'.pc \in Pcs
          /\ cl'.got \in {cl.got, NULL}
      BY <1>1, <1>7, Replies
    <2>3. Shapes'
      BY <1>0, <1>1, <1>7, <2>1, <2>2 DEF Shapes, ClFields, Pcs, UNDEFINED
    <2>4. Asked'
      BY <1>0, <1>7 DEF Asked
    <2>5. UnderWay'
      BY <1>3, <2>1 DEF UnderWay
    <2>6. Due'
      BY <1>3, <2>1 DEF Due
    <2>7. Accepts'
      BY <1>7 DEF Accepts
    <2>8. ItsCall'
      BY <1>1, <1>7, <2>2 DEF ItsCall, UNDEFINED, SKIP
    <2>9. AnswersOwn'
      BY <1>0, <2>2 DEF AnswersOwn
    <2> QED
      BY <1>2, <2>3, <2>4, <2>5, <2>6, <2>7, <2>8, <2>9 DEF OwnInv
  <1> QED
    <2> HIDE DEF OwnInv
    <2> QED
      BY <1>0, <1>5, <1>6, <1>7, Handled

-----------------------------------------------------------------------------
(* The control process takes the messages of its mailbox.                  *)

LEMMA FirstMessage ==
    ASSUME OwnInv, NEW kind, Receive(kind)
    PROVE  /\ Alive /\ ctl.state # "accepting" /\ 1 \in DOMAIN box
           /\ Head(box) = box[1] /\ box[1].kind = kind
           /\ IsSeq(box') /\ box # <<>> /\ box' = Tail(box)
           /\ \A i \in DOMAIN box' : i + 1 \in DOMAIN box /\ i + 1 # 1 /\ box'[i] = box[i + 1] /\ i \in Nat
  <1>1. Alive /\ ctl.state # "accepting" /\ box # <<>> /\ Head(box).kind = kind /\ box' = Tail(box)
    BY DEF Receive
  <1>2. IsSeq(box)
    BY DEF OwnInv, Shapes
  <1>3. Head(box) = box[1] /\ 1 \in DOMAIN box
    BY <1>1, <1>2, SeqFacts
  <1>4. /\ IsSeq(Tail(box))
        /\ \A i \in DOMAIN Tail(box) :
             i + 1 \in DOMAIN box /\ i + 1 # 1 /\ Tail(box)[i] = box[i + 1] /\ i \in Nat
    BY <1>1, <1>2, Taken
  <1> QED
    BY <1>1, <1>3, <1>4

\* A message that changes nothing but the limit.
LEMMA Drops ==
    ASSUME OwnInv, NEW kind, Receive(kind), UNCHANGED <<threads, toC, fromC, cl, menu>>,
           DOMAIN ctl' = CtlFields, ctl'.state = ctl.state, ctl'.reply_to = ctl.reply_to,
           ctl'.pending = ctl.pending
    PROVE  OwnInv'
  <1>0. AnswersOwn /\ Shapes /\ Asked /\ UnderWay /\ Due /\ Accepts /\ ItsCall /\ InBox
    BY FirstMessage DEF OwnInv
  <1>1. IsSeq(box') /\ Alive
    BY FirstMessage
  <1>2. \A i \in DOMAIN box' : i + 1 \in DOMAIN box /\ box'[i] = box[i + 1] /\ i \in Nat
    BY FirstMessage
  <1>3. AnswersOwn' /\ Asked'
    BY <1>0 DEF AnswersOwn, Asked
  <1>4. Shapes'
    BY <1>0, <1>1 DEF Shapes, Alive
  <1>5. UnderWay'
    <2>1. \A i \in DOMAIN box' : box'[i].kind = "tcp" => box[i + 1].kind = "tcp" /\ i + 1 \in DOMAIN box
      BY <1>2
    <2>2. \A i, j \in DOMAIN box' : box'[i].kind = "tcp" /\ box'[j].kind = "tcp" => i = j
      <3>1. \A i, j \in DOMAIN box : box[i].kind = "tcp" /\ box[j].kind = "tcp" => i = j
        BY <1>0 DEF UnderWay
      <3> QED
        BY <1>2, <2>1, <3>1
    <2> QED
      BY <1>0, <2>1, <2>2 DEF UnderWay
  <1>6. Due'
    BY <1>0, <1>2 DEF Due, IsDue
  <1>7. Accepts'
    BY <1>0, <1>2 DEF Accepts
  <1>8. ItsCall'
    BY <1>0 DEF ItsCall
  <1>9. InBox'
    BY <1>0, <1>2 DEF InBox, IsCall, IsStrange
  <1> QED
    BY <1>3, <1>4, <1>5, <1>6, <1>7, <1>8, <1>9 DEF OwnInv

\* When nobody waits, nothing is under way.
LEMMA NothingDue ==
    ASSUME OwnInv, Alive, ctl.reply_to = UNDEFINED
    PROVE  toC = <<>> /\ fromC = <<>> /\ \A i \in DOMAIN box : box[i].kind # "tcp"
  BY DEF OwnInv, Due, IsDue

LEMMA CallKeeps ==
    ASSUME OwnInv, handle_call
    PROVE  OwnInv'
  <1>0. Receive("call") /\ UNCHANGED <<threads, menu>>
    BY DEF handle_call
  <1>1. /\ Alive /\ ctl.state # "accepting" /\ 1 \in DOMAIN box /\ Head(box) = box[1]
        /\ box[1].kind = "call" /\ IsSeq(box')
        /\ \A i \in DOMAIN box' : i + 1 \in DOMAIN box /\ i + 1 # 1 /\ box'[i] = box[i + 1] /\ i \in Nat
    BY <1>0, FirstMessage
  <1>2. AnswersOwn /\ Shapes /\ Asked /\ UnderWay /\ Due /\ Accepts /\ ItsCall /\ InBox
    BY <1>1 DEF OwnInv
  <1>3. DOMAIN ctl = CtlFields /\ cl.id \in Nat
    BY <1>2 DEF Shapes
  <1> DEFINE call == box[1].call
  <1>4. CASE call.id = 0
    <2>1. ctl.reply_to = UNDEFINED
      BY <1>1, <1>2, <1>4 DEF InBox, IsStrange
    <2>2. ctl' = [ctl EXCEPT !.reply_to = UNDEFINED, !.timer = FALSE] /\ UNCHANGED <<cl, toC, fromC>>
      BY <1>1, <1>4 DEF handle_call
    <2>3. /\ DOMAIN ctl' = CtlFields /\ ctl'.state = ctl.state /\ ctl'.reply_to = ctl.reply_to
          /\ ctl'.pending = ctl.pending
      BY <1>3, <2>1, <2>2 DEF CtlFields
    <2> QED
      BY <1>0, <2>2, <2>3, Drops
  <1>5. CASE call.id # 0
    <2>1. /\ call = cl.call /\ cl.pc # "idle" /\ cl.id > 0 /\ call.id = cl.id
          /\ ctl.pending = NULL /\ ctl.reply_to \in {UNDEFINED, SKIP}
      BY <1>1, <1>2, <1>5 DEF InBox, IsCall, ItsCall
    <2>2. \A i \in DOMAIN box' : ~IsCall(box'[i])
      BY <1>1, <1>2, <1>5 DEF InBox, IsCall
    <2>3. \A i \in DOMAIN box' : ~IsStrange(box'[i])
      <3>1. \A i \in DOMAIN box : IsStrange(box[i]) => i < 1
        BY <1>1, <1>2, <1>5 DEF InBox, IsCall
      <3>2. \A i \in DOMAIN box' : IsStrange(box'[i]) => IsStrange(box[i + 1])
        BY <1>1
      <3> QED
        BY <1>1, <3>1, <3>2
    <2>4. CASE ctl.reply_to = UNDEFINED
      <3>1. PICK c : c = [ctl EXCEPT !.reply_to = call.id]
        OBVIOUS
      <3>2. PICK k : k = call
        OBVIOUS
      <3>3. handle_msg(k, c, FALSE)
        BY <1>1, <1>5, <2>4, <3>1, <3>2 DEF handle_call
      <3>4. DOMAIN c = CtlFields /\ c.reply_to = cl.id /\ c.pending = NULL /\ c.state = ctl.state
        BY <1>3, <2>1, <3>1 DEF CtlFields
      <3>5. toC = <<>> /\ fromC = <<>> /\ \A i \in DOMAIN box : box[i].kind # "tcp"
        BY <1>1, <2>4, NothingDue
      <3>6. \A i \in DOMAIN box' : Quiet(box'[i])
        BY <1>1, <2>2, <2>3, <3>5 DEF Quiet, IsCall, IsStrange
      <3> HIDE DEF call
      <3>7. k.id = cl.id
        BY <2>1, <3>2
      <3> QED
        BY <1>0, <1>1, <2>1, <3>3, <3>4, <3>5, <3>6, <3>7, HandledKeeps
    <2>5. CASE ctl.reply_to # UNDEFINED /\ ctl.timeouts < MAX_SEQ_TIMEOUTS
      <3>0. ctl.reply_to = SKIP /\ ctl.state = "connected"
        BY <1>2, <2>1, <2>5 DEF ItsCall
      <3>1. ctl' = [ctl EXCEPT !.pending = call, !.timer = call.timed] /\ UNCHANGED <<cl, toC, fromC>>
        BY <1>1, <1>5, <2>5 DEF handle_call
      <3>2. /\ DOMAIN ctl' = CtlFields /\ ctl'.state = ctl.state /\ ctl'.reply_to = ctl.reply_to
            /\ ctl'.pending = call
        BY <1>3, <3>1 DEF CtlFields
      <3>3. AnswersOwn' /\ Asked'
        BY <1>0, <1>2, <3>1 DEF AnswersOwn, Asked
      <3>4. Shapes'
        BY <1>0, <1>1, <1>2, <3>1, <3>2 DEF Shapes, Alive
      <3>5. UnderWay'
        <4>1. \A i, j \in DOMAIN box : box[i].kind = "tcp" /\ box[j].kind = "tcp" => i = j
          BY <1>2 DEF UnderWay
        <4>2. \A i, j \in DOMAIN box' : box'[i].kind = "tcp" /\ box'[j].kind = "tcp" => i = j
          BY <1>1, <4>1
        <4> QED
          BY <1>1, <1>2, <3>1, <4>2 DEF UnderWay
      <3>6. Due'
        BY <1>1, <1>2, <3>1, <3>2 DEF Due, IsDue
      <3>7. Accepts'
        BY <3>0, <3>2 DEF Accepts
      <3>8. ItsCall'
        BY <1>2, <2>1, <3>0, <3>1, <3>2 DEF ItsCall
      <3>9. InBox'
        BY <2>2, <2>3 DEF InBox
      <3> QED
        BY <3>3, <3>4, <3>5, <3>6, <3>7, <3>8, <3>9 DEF OwnInv
    <2>6. CASE ctl.reply_to # UNDEFINED /\ ~(ctl.timeouts < MAX_SEQ_TIMEOUTS)
      <3>1. terminate("too_many_sequential_timeouts", "stopped")
        BY <1>1, <1>5, <2>6 DEF handle_call
      <3> QED
        BY <1>0, <1>1, <3>1, Terminates
    <2> QED
      BY <2>4, <2>5, <2>6
  <1> QED
    BY <1>4, <1>5

\* With the answer that came in, or was thrown away, nothing is under way.
LEMMA Settles ==
    ASSUME OwnInv, Alive, toC = <<>>, fromC = <<>>, UNCHANGED <<threads, menu, toC, fromC>>,
           IsSeq(box'), \A i \in DOMAIN box' : box'[i].kind # "tcp", InBox', AnswersOwn',
           DOMAIN ctl' = CtlFields, ctl'.reply_to = UNDEFINED, ctl'.pending = NULL,
           ctl'.state = "connected",
           DOMAIN cl' = ClFields, cl'.id = cl.id, cl'.call = cl.call, cl'.pc \in Pcs
    PROVE  OwnInv'
  <1>0. Shapes /\ Asked
    BY DEF OwnInv
  <1>1. /\ IsSeq(toC') /\ Len(toC') = 0 /\ toC' = <<>>
        /\ IsSeq(fromC') /\ Len(fromC') = 0 /\ fromC' = <<>>
    BY NoElements
  <1>2. Shapes'
    BY <1>0, <1>1 DEF Shapes, ClFields, Pcs, UNDEFINED
  <1>3. Asked'
    BY <1>0 DEF Asked
  <1>4. UnderWay'
    BY <1>1 DEF UnderWay
  <1>5. Due' /\ Accepts'
    BY <1>1 DEF Due, Accepts
  <1>6. cl.id > 0 => cl.call.id = cl.id
    BY DEF OwnInv, ItsCall
  <1>7. ItsCall'
    BY <1>6 DEF ItsCall, UNDEFINED, SKIP
  <1> QED
    BY <1>2, <1>3, <1>4, <1>5, <1>7 DEF OwnInv

LEMMA TcpKeeps ==
    ASSUME OwnInv, handle_tcp
    PROVE  OwnInv'
  <1>0. Receive("tcp") /\ UNCHANGED <<threads, menu>>
    BY DEF handle_tcp
  <1>1. /\ Alive /\ ctl.state # "accepting" /\ 1 \in DOMAIN box /\ Head(box) = box[1]
        /\ box[1].kind = "tcp" /\ IsSeq(box')
        /\ \A i \in DOMAIN box' : i + 1 \in DOMAIN box /\ i + 1 # 1 /\ box'[i] = box[i + 1] /\ i \in Nat
    BY <1>0, FirstMessage
  <1>2. AnswersOwn /\ Shapes /\ Asked /\ UnderWay /\ Due /\ Accepts /\ ItsCall /\ InBox
    BY <1>1 DEF OwnInv
  <1>3. DOMAIN ctl = CtlFields /\ DOMAIN cl = ClFields /\ cl.pc \in Pcs /\ cl.id \in Nat
    BY <1>2 DEF Shapes, ClFields, Pcs
  <1> DEFINE m == box[1].msg
  <1>4. ctl.reply_to # UNDEFINED /\ ctl.reply_to \in {SKIP, m.id}
    BY <1>1, <1>2 DEF Due, IsDue
  <1>5. toC = <<>> /\ fromC = <<>> /\ \A i \in DOMAIN box' : box'[i].kind # "tcp"
    <2>1. toC = <<>> /\ fromC = <<>>
      BY <1>1, <1>2 DEF UnderWay
    <2>2. \A i \in DOMAIN box : box[i].kind = "tcp" => i = 1
      BY <1>1, <1>2 DEF UnderWay
    <2> QED
      BY <1>1, <2>1, <2>2
  <1>6. ASSUME ctl.reply_to # SKIP
        PROVE  /\ ctl.reply_to = m.id /\ m.id = cl.id /\ ctl.pending = NULL
               /\ \A i \in DOMAIN box' : Quiet(box'[i])
    <2>1. ctl.reply_to = m.id /\ m.id = cl.id /\ ctl.pending = NULL
      BY <1>2, <1>4, <1>6 DEF ItsCall
    <2>2. \A i \in DOMAIN box : ~IsCall(box[i]) /\ ~IsStrange(box[i])
      BY <1>2, <1>4, <1>6 DEF InBox
    <2>3. \A i \in DOMAIN box' : Quiet(box'[i])
      BY <1>1, <1>5, <2>2 DEF Quiet, IsCall, IsStrange
    <2> QED
      BY <2>1, <2>3
  <1>7. ASSUME NEW what, cl' = reply(cl, ctl.reply_to, what, m.id), ctl.reply_to # SKIP
        PROVE  /\ DOMAIN cl' = ClFields /\ cl'.id = cl.id /\ cl'.call = cl.call /\ cl'.pc \in Pcs
               /\ AnswersOwn' /\ InBox'
    <2>1. /\ DOMAIN cl' = ClFields /\ cl'.id = cl.id /\ cl'.call = cl.call /\ cl'.pc \in Pcs
          /\ cl'.got = cl.got \/ (cl.id = ctl.reply_to /\ cl'.got = m.id)
      BY <1>3, <1>7, Replies
    <2>2. AnswersOwn'
      BY <1>2, <1>6, <1>7, <2>1 DEF AnswersOwn
    <2>3. InBox'
      BY <1>6, <1>7 DEF InBox, Quiet, IsCall, IsStrange
    <2> QED
      BY <2>1, <2>2, <2>3
  <1>8. CASE ctl.state = "connecting"
    <2>0. ctl.reply_to # SKIP
      BY <1>2, <1>8 DEF ItsCall
    <2>1. CASE m.tag = "connected"
      <3>1. /\ cl' = reply(cl, ctl.reply_to, "ok", m.id)
            /\ ctl' = [ctl EXCEPT !.state = "connected", !.able = m.rows = <<1>>,
                                  !.reply_to = UNDEFINED, !.timer = FALSE]
            /\ UNCHANGED <<toC, fromC>>
        BY <1>1, <1>8, <2>1 DEF handle_tcp
      <3>2. /\ DOMAIN ctl' = CtlFields /\ ctl'.reply_to = UNDEFINED /\ ctl'.pending = ctl.pending
            /\ ctl'.state = "connected"
        BY <1>3, <3>1 DEF CtlFields
      <3> QED
        BY <1>0, <1>1, <1>5, <1>6, <1>7, <2>0, <3>1, <3>2, Settles
    <2>2. CASE m.tag # "connected"
      <3>1. Stops(ctl.reply_to, m.tag, m.id)
        BY <1>1, <1>8, <2>2 DEF handle_tcp
      <3>2. PICK id : id = ctl.reply_to
        OBVIOUS
      <3>3. PICK what : what = m.tag
        OBVIOUS
      <3>4. Stops(id, what, id)
        BY <1>6, <2>0, <3>1, <3>2, <3>3
      <3> QED
        BY <1>0, <1>1, <3>4, StopsWith
    <2> QED
      BY <2>1, <2>2
  <1>9. CASE ctl.state = "connected"
    <2>0. Tcp(m)
      BY <1>1, <1>9 DEF handle_tcp
    <2>1. CASE ctl.reply_to = SKIP /\ ctl.pending = NULL
      <3>1. /\ ctl' = [ctl EXCEPT !.reply_to = UNDEFINED, !.timer = FALSE]
            /\ UNCHANGED <<cl, toC, fromC>>
        BY <2>0, <2>1 DEF Tcp
      <3>2. /\ DOMAIN ctl' = CtlFields /\ ctl'.reply_to = UNDEFINED /\ ctl'.pending = NULL
            /\ ctl'.state = "connected"
        BY <1>3, <1>9, <2>1, <3>1 DEF CtlFields
      <3>3. InBox'
        <4>1. \A i, j \in DOMAIN box : IsCall(box[i]) /\ IsCall(box[j]) => i = j
          BY <1>2 DEF InBox
        <4>2. \A i \in DOMAIN box : ~IsStrange(box[i])
          BY <1>2, <2>1 DEF InBox, UNDEFINED, SKIP
        <4>3. \A i \in DOMAIN box : IsCall(box[i]) =>
                /\ box[i].call = cl.call /\ cl.pc # "idle" /\ cl.id > 0
          BY <1>2 DEF InBox
        <4>4. \A i, j \in DOMAIN box' : IsCall(box'[i]) /\ IsCall(box'[j]) => i = j
          BY <1>1, <4>1
        <4>5. \A i \in DOMAIN box' : ~IsStrange(box'[i])
          BY <1>1, <4>2
        <4>6. \A i \in DOMAIN box' : IsCall(box'[i]) =>
                /\ box'[i].call = cl'.call /\ cl'.pc # "idle" /\ cl'.id > 0
          BY <1>1, <3>1, <4>3
        <4> QED
          BY <3>2, <4>4, <4>5, <4>6 DEF InBox
      <3>4. AnswersOwn'
        BY <1>2, <3>1 DEF AnswersOwn
      <3> QED
        BY <1>0, <1>1, <1>3, <1>5, <3>1, <3>2, <3>3, <3>4, Settles
    <2>2. CASE ctl.reply_to = SKIP /\ ctl.pending # NULL
      <3>1. PICK k : k = ctl.pending
        OBVIOUS
      <3>2. PICK c : c = [ctl EXCEPT !.pending = NULL, !.reply_to = ctl.pending.id]
        OBVIOUS
      <3>3. handle_msg(k, c, TRUE)
        BY <2>0, <2>2, <3>1, <3>2 DEF Tcp
      <3>4. k = cl.call /\ cl.pc # "idle" /\ cl.id > 0 /\ k.id = cl.id
        BY <1>2, <2>2, <3>1 DEF ItsCall
      <3>5. DOMAIN c = CtlFields /\ c.reply_to = cl.id /\ c.pending = NULL /\ c.state = ctl.state
        BY <1>3, <3>1, <3>2, <3>4 DEF CtlFields
      <3>6. \A i \in DOMAIN box : ~IsCall(box[i]) /\ ~IsStrange(box[i])
        BY <1>2, <2>2 DEF InBox, UNDEFINED, SKIP
      <3>7. \A i \in DOMAIN box' : Quiet(box'[i])
        BY <1>1, <1>5, <3>6 DEF Quiet, IsCall, IsStrange
      <3> QED
        BY <1>0, <1>1, <1>5, <3>3, <3>4, <3>5, <3>7, HandledKeeps
    <2>3. CASE ctl.reply_to # SKIP
      <3>1. /\ cl' = reply(cl, ctl.reply_to, m.tag, m.id)
            /\ ctl' = [ctl EXCEPT !.reply_to = UNDEFINED, !.timeouts = 0, !.timer = FALSE]
            /\ UNCHANGED <<toC, fromC>>
        BY <1>4, <2>0, <2>3 DEF Tcp
      <3>2. /\ DOMAIN ctl' = CtlFields /\ ctl'.reply_to = UNDEFINED /\ ctl'.pending = ctl.pending
            /\ ctl'.state = "connected"
        BY <1>3, <1>9, <3>1 DEF CtlFields
      <3>3. PICK what : what = m.tag
        OBVIOUS
      <3>4. cl' = reply(cl, ctl.reply_to, what, m.id)
        BY <3>1, <3>3
      <3> QED
        BY <1>0, <1>1, <1>5, <1>6, <1>7, <2>3, <3>1, <3>2, <3>4, Settles
    <2> QED
      BY <2>1, <2>2, <2>3
  <1>10. CASE ctl.state \notin {"connecting", "connected"}
    <2>1. Stops(ctl.reply_to, "ok", NULL)
      BY <1>1, <1>10 DEF handle_tcp
    <2>2. PICK id : id = ctl.reply_to
      OBVIOUS
    <2>3. Stops(id, "ok", NULL)
      BY <2>1, <2>2
    <2> QED
      BY <1>0, <1>1, <2>3, StopsWith
  <1> QED
    BY <1>8, <1>9, <1>10

LEMMA TimeoutKeeps ==
    ASSUME OwnInv, handle_timeout
    PROVE  OwnInv'
  <1>0. Alive /\ box = <<>> /\ UNCHANGED <<threads, box, menu>>
    BY DEF handle_timeout
  <1>1. AnswersOwn /\ Shapes /\ Asked /\ UnderWay /\ Due /\ Accepts /\ ItsCall
    BY <1>0 DEF OwnInv
  <1>2. DOMAIN ctl = CtlFields /\ DOMAIN cl = ClFields /\ cl.pc \in Pcs /\ cl.id \in Nat /\ IsSeq(box')
    BY <1>0, <1>1 DEF Shapes, ClFields, Pcs
  <1>3. DOMAIN box' = {}
    BY <1>0, NoElements
  <1>4. ASSUME NEW id, NEW what, Stops(id, what, NULL) PROVE OwnInv'
    BY <1>0, <1>2, <1>4, StopsWith
  \* The answer that is still to come will be thrown away.
  <1>5. ASSUME NEW id, cl' = reply(cl, id, "timeout", NULL), UNCHANGED <<toC, fromC>>,
               ctl.state = "connected", ctl.reply_to # UNDEFINED,
               DOMAIN ctl' = CtlFields, ctl'.state = "connected", ctl'.reply_to = SKIP, ctl'.pending = NULL
        PROVE  OwnInv'
    <2>1. /\ DOMAIN cl' = ClFields /\ cl'.id = cl.id /\ cl'.call = cl.call /\ cl'.pc \in Pcs
          /\ cl'.got \in {cl.got, NULL}
      BY <1>2, <1>5, Replies
    <2>2. Shapes'
      BY <1>0, <1>1, <1>5, <2>1 DEF Shapes, Alive, ClFields, Pcs, SKIP
    <2>3. AnswersOwn' /\ Asked'
      BY <1>0, <1>1, <1>5, <2>1 DEF AnswersOwn, Asked
    <2>4. UnderWay'
      BY <1>1, <1>3, <1>5 DEF UnderWay
    <2>5. Due'
      BY <1>3, <1>5 DEF Due, IsDue, UNDEFINED, SKIP
    <2>6. Accepts' /\ InBox'
      BY <1>3, <1>5 DEF Accepts, InBox
    <2>7. ItsCall'
      BY <1>1, <1>5, <2>1 DEF ItsCall
    <2> QED
      BY <2>2, <2>3, <2>4, <2>5, <2>6, <2>7 DEF OwnInv
  <1>6. CASE /\ ctl.state \in {"connecting", "disconnecting"} /\ ctl.reply_to # UNDEFINED
             /\ Stops(ctl.reply_to, IF ctl.state = "connecting" THEN "timeout" ELSE "ok", NULL)
    <2>1. PICK id : id = ctl.reply_to
      OBVIOUS
    <2>2. PICK what : what = IF ctl.state = "connecting" THEN "timeout" ELSE "ok"
      OBVIOUS
    <2>3. Stops(id, what, NULL)
      BY <1>6, <2>1, <2>2
    <2> QED
      BY <2>3, <1>4
  <1>7. CASE /\ ctl.state = "connected" /\ ctl.pending = NULL /\ ctl.reply_to # UNDEFINED
             /\ cl' = reply(cl, ctl.reply_to, "timeout", NULL)
             /\ ctl' = [ctl EXCEPT !.reply_to = SKIP, !.timeouts = @ + 1, !.timer = FALSE]
             /\ UNCHANGED <<toC, fromC, toSup, ports>>
    <2>1. /\ DOMAIN ctl' = CtlFields /\ ctl'.state = "connected" /\ ctl'.reply_to = SKIP
          /\ ctl'.pending = NULL
      BY <1>2, <1>7 DEF CtlFields
    <2>2. PICK id : id = ctl.reply_to
      OBVIOUS
    <2> QED
      BY <1>5, <1>7, <2>1, <2>2
  <1>8. CASE ctl.state = "connected" /\ ctl.pending # NULL /\ ctl.pending.op = "close"
             /\ Stops(ctl.pending.id, "ok", NULL)
    <2>1. PICK id : id = ctl.pending.id
      OBVIOUS
    <2> QED
      BY <1>4, <1>8, <2>1
  <1>9. CASE /\ ctl.state = "connected" /\ ctl.pending # NULL
             /\ cl' = reply(cl, ctl.pending.id, "timeout", NULL)
             /\ ctl' = [ctl EXCEPT !.pending = NULL, !.timeouts = @ + 1, !.timer = FALSE]
             /\ UNCHANGED <<toC, fromC, toSup, ports>>
    <2>0. ctl.reply_to = SKIP
      BY <1>1, <1>9 DEF ItsCall
    <2>1. /\ DOMAIN ctl' = CtlFields /\ ctl'.state = "connected" /\ ctl'.reply_to = SKIP
          /\ ctl'.pending = NULL
      BY <1>2, <1>9, <2>0 DEF CtlFields
    <2>2. PICK id : id = ctl.pending.id
      OBVIOUS
    <2>3. ctl.reply_to # UNDEFINED
      BY <2>0 DEF UNDEFINED, SKIP
    <2> QED
      BY <1>5, <1>9, <2>1, <2>2, <2>3
  <1> QED
    BY <1>6, <1>7, <1>8, <1>9 DEF handle_timeout

LEMMA ExitKeeps ==
    ASSUME OwnInv, handle_exit
    PROVE  OwnInv'
  <1>0. Receive("exit") /\ UNCHANGED <<threads, menu>>
    BY DEF handle_exit
  <1>1. IsSeq(box') /\ DOMAIN ctl = CtlFields
    BY <1>0, FirstMessage DEF OwnInv, Shapes
  <1>2. CASE ctl' = [ctl EXCEPT !.timer = FALSE] /\ UNCHANGED <<cl, toC, fromC, toSup, ports>>
    <2>1. /\ DOMAIN ctl' = CtlFields /\ ctl'.state = ctl.state /\ ctl'.reply_to = ctl.reply_to
          /\ ctl'.pending = ctl.pending
      BY <1>1, <1>2 DEF CtlFields
    <2> QED
      BY <1>0, <1>2, <2>1, Drops
  <1>3. CASE terminate("port_exit", "stopped")
    BY <1>0, <1>1, <1>3, Terminates
  <1> QED
    BY <1>2, <1>3 DEF handle_exit

LEMMA DownKeeps ==
    ASSUME OwnInv, handle_down
    PROVE  OwnInv'
  <1>0. Receive("down") /\ terminate("down", "stopped") /\ UNCHANGED <<threads, menu>>
    BY DEF handle_down
  <1>1. IsSeq(box')
    BY <1>0, FirstMessage
  <1> QED
    BY <1>0, <1>1, Terminates

LEMMA InfoKeeps ==
    ASSUME OwnInv, handle_info
    PROVE  OwnInv'
  <1>0. Receive("tcp_closed") /\ UNCHANGED <<threads, toC, fromC, cl, menu>>
    BY DEF handle_info, pvars
  <1>1. ctl' = [ctl EXCEPT !.timer = FALSE] /\ DOMAIN ctl = CtlFields
    BY DEF handle_info, OwnInv, Shapes
  <1>2. /\ DOMAIN ctl' = CtlFields /\ ctl'.state = ctl.state /\ ctl'.reply_to = ctl.reply_to
        /\ ctl'.pending = ctl.pending
    BY <1>1 DEF CtlFields
  <1> QED
    BY <1>0, <1>2, Drops

\* The request to connect is sent when the port program has connected.
LEMMA AcceptKeeps ==
    ASSUME OwnInv, Accept
    PROVE  OwnInv'
  <1>0. ctl.state = "accepting" /\ UNCHANGED <<threads, box, menu>>
    BY DEF Accept
  <1>1. AnswersOwn /\ Shapes /\ Asked /\ UnderWay /\ Due /\ Accepts /\ ItsCall /\ InBox
    BY <1>0 DEF OwnInv, Alive
  <1>2. DOMAIN ctl = CtlFields /\ DOMAIN cl = ClFields /\ cl.id \in Nat /\ IsSeq(box')
    BY <1>0, <1>1 DEF Shapes, ClFields
  <1>3. /\ toC = <<>> /\ fromC = <<>> /\ (\A i \in DOMAIN box : box[i].kind # "tcp")
        /\ ctl.reply_to = cl.id /\ cl.id > 0 /\ cl.call.id = cl.id
    BY <1>0, <1>1 DEF Accepts, ItsCall
  <1>4. CASE odbc_send(cl.call, [ctl EXCEPT !.state = "connecting"])
    <2> DEFINE t == Append(toC, cl.call)
    <2>1. toC' = t /\ UNCHANGED <<cl, fromC>>
      BY <1>4 DEF odbc_send
    <2>2. ctl' = [[ctl EXCEPT !.state = "connecting"] EXCEPT !.timer = cl.call.timed, !.active = TRUE]
      BY <1>4 DEF odbc_send
    <2>3. /\ DOMAIN ctl' = CtlFields /\ ctl'.state = "connecting" /\ ctl'.reply_to = ctl.reply_to
          /\ ctl'.pending = ctl.pending
      BY <1>2, <2>2 DEF CtlFields
    <2>4. IsSeq(t) /\ t # <<>> /\ Len(t) = 1 /\ t[1] = cl.call
      <3>1. Len(toC) = 0
        BY <1>3, NoElements
      <3>2. PICK e : e = cl.call
        OBVIOUS
      <3>3. /\ IsSeq(Append(toC, e)) /\ Append(toC, e) # <<>> /\ Len(Append(toC, e)) = Len(toC) + 1
            /\ Append(toC, e)[1] = e
        <4>1. IsSeq(toC)
          BY <1>1 DEF Shapes
        <4> QED
          BY <1>3, <4>1, Appended
      <3> QED
        BY <3>1, <3>2, <3>3
    <2> HIDE DEF t
    <2>5. IsSeq(fromC') /\ fromC' = <<>> /\ Len(fromC') = 0
      BY <1>3, <2>1, NoElements
    <2>6. Shapes'
      BY <1>0, <1>1, <1>2, <2>1, <2>3, <2>4, <2>5 DEF Shapes
    <2>7. AnswersOwn' /\ Asked'
      BY <1>1, <2>1, <2>4 DEF AnswersOwn, Asked
    <2>8. UnderWay'
      BY <1>0, <1>3, <2>1, <2>4, <2>5 DEF UnderWay
    <2>9. Due'
      BY <1>0, <1>2, <1>3, <2>1, <2>3, <2>4, <2>5 DEF Due, IsDue, UNDEFINED, SKIP
    <2>10. Accepts'
      BY <2>3 DEF Accepts
    <2>11. ItsCall'
      BY <1>1, <1>2, <1>3, <2>1, <2>3 DEF ItsCall, UNDEFINED, SKIP
    <2>12. InBox'
      BY <1>0, <1>1, <2>1, <2>3 DEF InBox
    <2> QED
      BY <2>6, <2>7, <2>8, <2>9, <2>10, <2>11, <2>12 DEF OwnInv
  <1>5. CASE terminate("accept", "stopped")
    BY <1>0, <1>2, <1>5, Terminates
  <1> QED
    BY <1>4, <1>5 DEF Accept

-----------------------------------------------------------------------------
(* Messages come, clients call, and the port program runs.                 *)

\* What comes into the mailbox comes last.
LEMMA LastMessage ==
    ASSUME IsSeq(box), NEW e, box' = Append(box, e)
    PROVE  /\ IsSeq(box')
           /\ \A i \in DOMAIN box' : (i \in DOMAIN box /\ box'[i] = box[i]) \/ (i = Len(box) + 1 /\ box'[i] = e)
           /\ \A i \in DOMAIN box : i < Len(box) + 1
  <1>1. /\ IsSeq(Append(box, e))
        /\ \A i \in DOMAIN Append(box, e) :
             \/ i \in DOMAIN box /\ Append(box, e)[i] = box[i]
             \/ i = Len(box) + 1 /\ Append(box, e)[i] = e
        /\ \A i \in DOMAIN box : i < Len(box) + 1
    BY Appended
  <1> QED
    BY <1>1

\* A message that is neither a call nor an answer.
LEMMA Reported ==
    ASSUME OwnInv, Alive, NEW e, Quiet(e), box' = Append(box, e), UNCHANGED <<threads, toC, fromC, menu>>,
           DOMAIN ctl' = CtlFields, ctl'.state = ctl.state, ctl'.reply_to = ctl.reply_to,
           ctl'.pending = ctl.pending,
           DOMAIN cl' = ClFields, cl'.id = cl.id, cl'.call = cl.call, cl'.got = cl.got,
           cl'.pc \in {cl.pc, "dead"}
    PROVE  OwnInv'
  <1>0. AnswersOwn /\ Shapes /\ Asked /\ UnderWay /\ Due /\ Accepts /\ ItsCall /\ InBox
    BY DEF OwnInv
  <1>1. IsSeq(box)
    BY <1>0 DEF Shapes
  <1>2. IsSeq(box')
    BY <1>1, LastMessage
  <1>3. \A i \in DOMAIN box' : box'[i].kind \in {"tcp", "call"} => i \in DOMAIN box /\ box'[i] = box[i]
    BY <1>1, LastMessage DEF Quiet
  <1>4. Shapes'
    BY <1>0, <1>2 DEF Shapes, Alive, ClFields
  <1>5. AnswersOwn' /\ Asked'
    BY <1>0 DEF AnswersOwn, Asked
  <1>6. UnderWay'
    BY <1>0, <1>3 DEF UnderWay
  <1>7. Due' /\ Accepts'
    BY <1>0, <1>3 DEF Due, IsDue, Accepts
  <1>8. ItsCall'
    BY <1>0 DEF ItsCall
  <1>9. InBox'
    <2>1. \A i \in DOMAIN box' :
            /\ IsCall(box'[i]) => i \in DOMAIN box /\ IsCall(box[i]) /\ box'[i] = box[i]
            /\ IsStrange(box'[i]) => i \in DOMAIN box /\ IsStrange(box[i])
      BY <1>3 DEF IsCall, IsStrange
    <2> QED
      BY <1>0, <2>1 DEF InBox
  <1> QED
    BY <1>4, <1>5, <1>6, <1>7, <1>8, <1>9 DEF OwnInv

LEMMA DeliverKeeps ==
    ASSUME OwnInv, Deliver
    PROVE  OwnInv'
  <1>0. /\ Alive /\ ctl' = [ctl EXCEPT !.active = FALSE]
        /\ UNCHANGED <<threads, toC, cl, menu>>
    BY DEF Deliver
  <1>1. AnswersOwn /\ Shapes /\ Asked /\ UnderWay /\ Due /\ Accepts /\ ItsCall /\ InBox
    BY <1>0 DEF OwnInv
  <1>2. /\ DOMAIN ctl' = CtlFields /\ ctl'.state = ctl.state /\ ctl'.reply_to = ctl.reply_to
        /\ ctl'.pending = ctl.pending
    BY <1>0, <1>1 DEF Shapes, CtlFields
  <1>3. IsSeq(box) /\ IsSeq(toC) /\ IsSeq(fromC) /\ DOMAIN cl = ClFields
    BY <1>0, <1>1 DEF Shapes, ClFields
  <1>4. CASE /\ fromC # <<>> /\ box' = Append(box, [kind |-> "tcp", msg |-> Head(fromC)])
             /\ fromC' = Tail(fromC)
    <2>1. PICK e : e = [kind |-> "tcp", msg |-> Head(fromC)]
      OBVIOUS
    <2>2. e.kind = "tcp" /\ e.msg = fromC[1]
      BY <1>3, <1>4, <2>1, SeqFacts
    <2>3. box' = Append(box, e)
      BY <1>4, <2>1
    <2>4. /\ IsSeq(box')
          /\ \A i \in DOMAIN box' :
               (i \in DOMAIN box /\ box'[i] = box[i]) \/ (i = Len(box) + 1 /\ box'[i] = e)
          /\ \A i \in DOMAIN box : i < Len(box) + 1
      BY <1>3, <2>3, LastMessage
    <2>5. /\ toC = <<>> /\ (\A i \in DOMAIN box : box[i].kind # "tcp") /\ IsDue(fromC[1].id)
          /\ ctl.state # "accepting"
      BY <1>1, <1>4 DEF UnderWay, Due, Accepts
    <2>6. fromC' = <<>> /\ IsSeq(fromC') /\ Len(fromC') = 0 /\ Len(toC) = 0
      <3>1. Tail(fromC) = <<>>
        BY <1>1, <1>3, <1>4, Taken DEF UnderWay
      <3> QED
        BY <1>4, <2>5, <3>1, NoElements
    <2>7. Shapes'
      BY <1>0, <1>1, <1>2, <2>4, <2>6 DEF Shapes
    <2>8. AnswersOwn' /\ Asked'
      BY <1>0, <1>1 DEF AnswersOwn, Asked
    <2>9. UnderWay'
      <3>1. \A i \in DOMAIN box' : box'[i].kind = "tcp" => i = Len(box) + 1
        BY <2>4, <2>5
      <3> QED
        BY <1>0, <2>5, <2>6, <3>1 DEF UnderWay
    <2>10. Due'
      BY <1>0, <1>2, <2>2, <2>4, <2>5, <2>6 DEF Due, IsDue
    <2>11. Accepts'
      BY <1>2, <2>5 DEF Accepts
    <2>12. ItsCall'
      BY <1>0, <1>1, <1>2 DEF ItsCall
    <2>13. InBox'
      <3>1. \A i \in DOMAIN box' :
              /\ IsCall(box'[i]) => i \in DOMAIN box /\ IsCall(box[i]) /\ box'[i] = box[i]
              /\ IsStrange(box'[i]) => i \in DOMAIN box /\ IsStrange(box[i])
        BY <2>2, <2>4 DEF IsCall, IsStrange
      <3> QED
        BY <1>0, <1>1, <1>2, <3>1 DEF InBox
    <2> QED
      BY <2>7, <2>8, <2>9, <2>10, <2>11, <2>12, <2>13 DEF OwnInv
  <1>5. CASE box' = Append(box, [kind |-> "tcp_closed"]) /\ UNCHANGED fromC
    <2>1. PICK e : e = [kind |-> "tcp_closed"]
      OBVIOUS
    <2>2. Quiet(e)
      BY <2>1 DEF Quiet
    <2>3. /\ DOMAIN cl' = ClFields /\ cl'.id = cl.id /\ cl'.call = cl.call /\ cl'.got = cl.got
          /\ cl'.pc \in {cl.pc, "dead"}
      BY <1>0, <1>3
    <2>4. box' = Append(box, e)
      BY <1>5, <2>1
    <2> QED
      BY <1>0, <1>2, <1>5, <2>2, <2>3, <2>4, Reported
  <1> QED
    BY <1>4, <1>5 DEF Deliver

LEMMA PortExitsKeeps ==
    ASSUME OwnInv, PortExits
    PROVE  OwnInv'
  <1>0. /\ Alive /\ ctl' = [ctl EXCEPT !.told = TRUE]
        /\ UNCHANGED <<threads, toC, fromC, cl, menu>>
    BY DEF PortExits, pvars
  <1>1. DOMAIN ctl = CtlFields /\ DOMAIN cl = ClFields
    BY DEF OwnInv, Shapes, ClFields
  <1>2. /\ DOMAIN ctl' = CtlFields /\ ctl'.state = ctl.state /\ ctl'.reply_to = ctl.reply_to
        /\ ctl'.pending = ctl.pending
    BY <1>0, <1>1 DEF CtlFields
  <1>3. PICK e : e = [kind |-> "exit", status |-> threads.exit]
    OBVIOUS
  <1>4. Quiet(e) /\ box' = Append(box, e)
    BY <1>3 DEF Quiet, PortExits
  <1>5. /\ DOMAIN cl' = ClFields /\ cl'.id = cl.id /\ cl'.call = cl.call /\ cl'.got = cl.got
        /\ cl'.pc \in {cl.pc, "dead"}
    BY <1>0, <1>1
  <1> QED
    BY <1>0, <1>2, <1>4, <1>5, Reported

LEMMA OwnerDownKeeps ==
    ASSUME OwnInv, Down
    PROVE  OwnInv'
  <1>0. /\ Alive /\ cl' = [cl EXCEPT !.pc = "dead"]
        /\ UNCHANGED <<threads, toC, fromC, ctl, menu>>
    BY DEF Down, pvars
  <1>1. DOMAIN ctl = CtlFields /\ DOMAIN cl = ClFields
    BY DEF OwnInv, Shapes, ClFields
  <1>2. /\ DOMAIN cl' = ClFields /\ cl'.id = cl.id /\ cl'.call = cl.call /\ cl'.got = cl.got
        /\ cl'.pc \in {cl.pc, "dead"}
    BY <1>0, <1>1 DEF ClFields
  <1>3. PICK e : e = [kind |-> "down"]
    OBVIOUS
  <1>4. Quiet(e) /\ box' = Append(box, e)
    BY <1>3 DEF Quiet, Down
  <1> QED
    BY <1>0, <1>1, <1>2, <1>4, Reported

\* The owner calls when it has no call, so that this is its only one.
LEMMA OwnerCallsKeeps ==
    ASSUME OwnInv, OwnerCalls
    PROVE  OwnInv'
  <1>0. cl.pc = "idle" /\ UNCHANGED <<threads, toC, fromC, ctl, menu>>
    BY DEF OwnerCalls, pvars
  <1>1. AnswersOwn /\ Shapes /\ Asked
    BY DEF OwnInv
  <1>2. DOMAIN ctl = CtlFields /\ cl.id \in Nat /\ menu \in DOMAIN Menus /\ IsSeq(box) /\ IsSeq(toC)
    BY <1>1 DEF Shapes
  <1>3. PICK r \in Menus[menu] :
          LET call == [r EXCEPT !.id = cl.id + 1]
          IN  /\ (r.op = "connect") <=> (cl.id = 0)
              /\ box' = IF Alive THEN Append(box, [kind |-> "call", call |-> call]) ELSE box
              /\ cl' = [pc |-> IF Alive THEN "waiting" ELSE "idle", id |-> cl.id + 1, call |-> call,
                        ret |-> IF Alive THEN NULL ELSE "closed", got |-> NULL]
    BY DEF OwnerCalls
  <1>4. "id" \in DOMAIN r
    BY <1>2, MenusAssumption
  <1>5. PICK call : call = [r EXCEPT !.id = cl.id + 1]
    OBVIOUS
  <1>6. call.id = cl.id + 1
    BY <1>4, <1>5
  <1>7. /\ DOMAIN cl' = {"pc", "id", "call", "ret", "got"} /\ cl'.id = cl.id + 1 /\ cl'.call = call
        /\ cl'.got = NULL /\ cl'.pc = IF Alive THEN "waiting" ELSE "idle"
    BY <1>3, <1>5
  <1>8. AnswersOwn' /\ Asked'
    BY <1>0, <1>1, <1>7 DEF AnswersOwn, Asked
  <1>9. CASE ~Alive
    <2>1. ~Alive' /\ box' = box
      BY <1>0, <1>3, <1>9 DEF Alive
    <2>2. Shapes'
      BY <1>0, <1>1, <1>2, <1>7, <1>9, <2>1 DEF Shapes
    <2> QED
      BY <1>8, <2>1, <2>2 DEF OwnInv
  <1>10. CASE Alive
    <2>0. UnderWay /\ Due /\ Accepts /\ ItsCall /\ InBox
      BY <1>10 DEF OwnInv
    <2>1. PICK e : e = [kind |-> "call", call |-> call]
      OBVIOUS
    <2>2. e.kind = "call" /\ e.call = call /\ box' = Append(box, e)
      BY <1>3, <1>5, <1>10, <2>1
    <2>3. /\ IsSeq(box')
          /\ \A i \in DOMAIN box' :
               (i \in DOMAIN box /\ box'[i] = box[i]) \/ (i = Len(box) + 1 /\ box'[i] = e)
          /\ \A i \in DOMAIN box : i < Len(box) + 1
      BY <1>2, <2>2, LastMessage
    <2>4. ctl.reply_to \in {UNDEFINED, SKIP} /\ ctl.pending = NULL
      BY <1>0, <2>0 DEF ItsCall
    <2>5. \A i \in DOMAIN box : ~IsCall(box[i])
      BY <1>0, <2>0 DEF InBox
    <2>6. Shapes'
      BY <1>0, <1>1, <1>2, <1>7, <1>10, <2>3 DEF Shapes, Alive
    <2>7. \A i \in DOMAIN box' : box'[i].kind = "tcp" => i \in DOMAIN box /\ box'[i] = box[i]
      BY <2>2, <2>3
    <2>8. UnderWay'
      BY <1>0, <2>0, <2>7 DEF UnderWay
    <2>9. Due'
      BY <1>0, <2>0, <2>7 DEF Due, IsDue
    <2>10. Accepts'
      BY <1>0, <1>2, <2>0, <2>4 DEF Accepts, UNDEFINED, SKIP
    <2>11. ItsCall'
      BY <1>0, <1>6, <1>7, <2>0, <2>4 DEF ItsCall
    <2>12. InBox'
      <3>1. \A i \in DOMAIN box' : IsCall(box'[i]) => i = Len(box) + 1 /\ box'[i].call = call
        BY <2>2, <2>3, <2>5 DEF IsCall
      <3>2. \A i \in DOMAIN box' : IsStrange(box'[i]) => i \in DOMAIN box /\ IsStrange(box[i])
        BY <1>2, <1>6, <2>2, <2>3 DEF IsStrange
      <3>3. cl'.pc # "idle" /\ cl'.id > 0 /\ cl'.call = call
        BY <1>2, <1>7, <1>10
      <3>4. \A i \in DOMAIN box : IsStrange(box[i]) => ctl.reply_to = UNDEFINED
        BY <2>0 DEF InBox
      <3> HIDE DEF IsCall, IsStrange
      <3> QED
        BY <1>0, <2>3, <2>4, <3>1, <3>2, <3>3, <3>4 DEF InBox
    <2> QED
      BY <1>8, <2>6, <2>8, <2>9, <2>10, <2>11, <2>12 DEF OwnInv
  <1> QED
    BY <1>9, <1>10

\* A stranger that calls between two calls of the owner does no harm.
LEMMA StrangerCallsKeeps ==
    ASSUME ~Intrude, OwnInv, StrangerCalls
    PROVE  OwnInv'
  <1>0. Alive /\ cl.pc = "idle" /\ ctl.reply_to = UNDEFINED /\ UNCHANGED <<threads, toC, fromC, cl, ctl, menu>>
    BY DEF StrangerCalls, pvars
  <1>1. AnswersOwn /\ Shapes /\ Asked /\ UnderWay /\ Due /\ Accepts /\ ItsCall /\ InBox
    BY <1>0 DEF OwnInv
  <1>2. PICK e : e = [kind |-> "call", call |-> [id |-> 0]]
    OBVIOUS
  <1>3. e.kind = "call" /\ e.call.id = 0 /\ box' = Append(box, e)
    BY <1>2 DEF StrangerCalls
  <1>4. /\ IsSeq(box')
        /\ \A i \in DOMAIN box' :
             (i \in DOMAIN box /\ box'[i] = box[i]) \/ (i = Len(box) + 1 /\ box'[i] = e)
    BY <1>1, <1>3, LastMessage DEF Shapes
  <1>5. Shapes'
    BY <1>0, <1>1, <1>4 DEF Shapes, Alive
  <1>6. AnswersOwn' /\ Asked'
    BY <1>0, <1>1 DEF AnswersOwn, Asked
  <1>7. \A i \in DOMAIN box' : box'[i].kind = "tcp" => i \in DOMAIN box /\ box'[i] = box[i]
    BY <1>3, <1>4
  <1>8. UnderWay'
    BY <1>0, <1>1, <1>7 DEF UnderWay
  <1>9. Due' /\ Accepts'
    BY <1>0, <1>1, <1>7 DEF Due, IsDue, Accepts
  <1>10. ItsCall'
    BY <1>0, <1>1 DEF ItsCall
  <1>11. InBox'
    <2>1. \A i \in DOMAIN box : ~IsCall(box[i])
      BY <1>0, <1>1 DEF InBox
    <2>2. \A i \in DOMAIN box' : ~IsCall(box'[i])
      BY <1>3, <1>4, <2>1 DEF IsCall
    <2> QED
      BY <1>0, <2>2 DEF InBox
  <1> QED
    BY <1>5, <1>6, <1>8, <1>9, <1>10, <1>11 DEF OwnInv

\* A step of the port program, but for an answer that it sends.
LEMMA ThreadsKeep ==
    ASSUME OwnInv, UNCHANGED <<toC, fromC, cvars>>, DOMAIN threads' = DOMAIN threads,
           threads'.main \in {"handle", "send"} => toC # <<>>
    PROVE  OwnInv'
  <1>1. AnswersOwn' /\ Asked'
    BY DEF OwnInv, AnswersOwn, Asked, cvars
  <1>2. Shapes'
    BY DEF OwnInv, Shapes, Alive, cvars
  <1>3. Alive' => Alive
    BY DEF Alive, cvars
  <1>4. Alive => (UnderWay /\ Due /\ Accepts /\ ItsCall /\ InBox)'
    BY DEF OwnInv, UnderWay, Due, IsDue, Accepts, ItsCall, InBox, cvars
  <1> QED
    BY <1>1, <1>2, <1>3, <1>4 DEF OwnInv

LEMMA ProgramKeeps ==
    ASSUME OwnInv, PNext, UNCHANGED cvars
    PROVE  OwnInv'
  <1>0. AnswersOwn /\ Shapes /\ Asked /\ DOMAIN threads = {"main", "sup", "exit"} /\ IsSeq(toC)
    BY DEF OwnInv, Shapes
  <1>1. ASSUME NEW code, threads' = [threads EXCEPT !.exit = code], UNCHANGED <<toC, fromC>>
        PROVE  OwnInv'
    <2>1. DOMAIN threads' = DOMAIN threads /\ threads'.main = threads.main
      BY <1>0, <1>1
    <2> QED
      BY <1>0, <1>1, <2>1, ThreadsKeep DEF Asked
  <1>2. CASE receive_erlang_port_msg
    <2>1. CASE threads' = [threads EXCEPT !.main = "spawn"]
      <3>1. DOMAIN threads' = DOMAIN threads /\ threads'.main = "spawn"
        BY <1>0, <2>1
      <3> QED
        BY <1>2, <3>1, ThreadsKeep DEF receive_erlang_port_msg
    <2> QED
      BY <1>1, <1>2, <2>1 DEF receive_erlang_port_msg, Ends
  <1>3. CASE spawn_sup
    <2>1. CASE threads' = [threads EXCEPT !.main = "connect", !.sup = "connect"]
      <3>1. DOMAIN threads' = DOMAIN threads /\ threads'.main = "connect"
        BY <1>0, <2>1
      <3> QED
        BY <1>3, <3>1, ThreadsKeep DEF spawn_sup
    <2> QED
      BY <1>1, <1>3, <2>1 DEF spawn_sup, Ends
  <1>4. ASSUME NEW thread \in {"main", "sup"}, connect_to_erlang(thread) PROVE OwnInv'
    <2>1. CASE threads' = [threads EXCEPT ![thread] = "receive"]
      <3>1. DOMAIN threads' = DOMAIN threads /\ threads'.main \in {threads.main, "receive"}
        BY <1>0, <2>1
      <3> QED
        BY <1>0, <1>4, <3>1, ThreadsKeep DEF connect_to_erlang, Asked
    <2> QED
      BY <1>1, <1>4, <2>1 DEF connect_to_erlang, Ends
  <1>5. CASE supervise
    <2>1. PICK code : code = IF toSup = "shutdown" THEN "SUCCESS" ELSE "RECV_MSGSIZE"
      OBVIOUS
    <2> QED
      BY <1>1, <1>5, <2>1 DEF supervise, Ends
  <1>6. CASE receive_msg
    <2>1. CASE toC # <<>> /\ threads' = [threads EXCEPT !.main = "handle"]
      <3>1. DOMAIN threads' = DOMAIN threads
        BY <1>0, <2>1
      <3> QED
        BY <1>6, <2>1, <3>1, ThreadsKeep DEF receive_msg
    <2> QED
      BY <1>1, <1>6, <2>1 DEF receive_msg, Ends
  <1>7. CASE database_handler
    <2>1. threads.main = "handle" /\ toC # <<>> /\ UNCHANGED <<toC, fromC>>
      BY <1>0, <1>7, ZenonT(60) DEF database_handler, Asked
    <2>2. \/ threads' = [threads EXCEPT !.main = "stuck"]
          \/ \E code : threads' = [threads EXCEPT !.main = "send", !.exit = code]
      BY <1>7 DEF database_handler, Answered
    <2>3. DOMAIN threads' = DOMAIN threads
      BY <2>2
    <2> QED
      BY <2>1, <2>3, ThreadsKeep
  <1>8. CASE send_msg
    <2>0. threads.main = "send" /\ toC # <<>>
      BY <1>0, <1>8 DEF send_msg, Asked
    <2>1. CASE fromC = NULL
      BY <1>1, <1>8, <2>1 DEF send_msg, Ends
    <2>2. CASE fromC # NULL
      <3>1. PICK a : a = [id |-> Head(toC).id, tag |-> state.msg, rows |-> state.rows,
                          need |-> state.need, unsized |-> state.unsized]
        OBVIOUS
      <3>2. /\ fromC' = Append(fromC, a) /\ toC' = Tail(toC)
            /\ threads' = IF Head(toC).op = "close" THEN [threads EXCEPT !.main = "end", !.exit = "SUCCESS"]
                          ELSE [threads EXCEPT !.main = "receive"]
        BY <1>8, <2>2, <3>1 DEF send_msg
      <3>3. DOMAIN threads' = DOMAIN threads /\ threads'.main \in {"end", "receive"}
        BY <1>0, <3>2
      <3>4. a.id = toC[1].id /\ IsSeq(toC') /\ (Len(toC) <= 1 => toC' = <<>>)
        BY <1>0, <2>0, <3>1, <3>2, SeqFacts, Taken
      <3>5. AnswersOwn' /\ Asked'
        BY <1>0, <3>3 DEF AnswersOwn, Asked, cvars
      <3>6. CASE ~Alive
        <4>1. ~Alive'
          BY <3>6 DEF Alive, cvars
        <4>2. Shapes'
          BY <1>0, <3>3, <3>4, <4>1 DEF Shapes, cvars
        <4> QED
          BY <3>5, <4>1, <4>2 DEF OwnInv
      <3>7. CASE Alive
        <4>0. UnderWay /\ Due /\ Accepts /\ ItsCall /\ InBox
          BY <3>7 DEF OwnInv
        <4>1. /\ fromC = <<>> /\ toC' = <<>> /\ IsDue(toC[1].id)
              /\ (\A i \in DOMAIN box : box[i].kind # "tcp") /\ ctl.state # "accepting"
          BY <2>0, <3>4, <4>0 DEF UnderWay, Due, Accepts
        <4>2. IsSeq(fromC) /\ Len(fromC) = 0 /\ Len(toC') = 0
          BY <1>0, <3>7, <4>1, NoElements DEF Shapes
        <4>3. IsSeq(fromC') /\ Len(fromC') = 1 /\ fromC'[1] = a /\ fromC' # <<>>
          <5>1. /\ IsSeq(Append(fromC, a)) /\ Append(fromC, a) # <<>>
                /\ Len(Append(fromC, a)) = Len(fromC) + 1 /\ Append(fromC, a)[1] = a
            BY <4>1, <4>2, Appended
          <5> QED
            BY <3>2, <4>2, <5>1
        <4>4. Shapes'
          BY <1>0, <3>3, <3>4, <4>3 DEF Shapes, cvars
        <4>5. UnderWay'
          BY <4>1, <4>2, <4>3 DEF UnderWay, cvars
        <4>6. Due'
          BY <3>4, <4>1, <4>3 DEF Due, IsDue, cvars
        <4>7. Accepts'
          BY <4>1 DEF Accepts, cvars
        <4>8. ItsCall' /\ InBox'
          BY <4>0 DEF ItsCall, InBox, cvars
        <4> QED
          BY <3>5, <4>4, <4>5, <4>6, <4>7, <4>8 DEF OwnInv
      <3> QED
        BY <3>6, <3>7
    <2> QED
      BY <2>1, <2>2
  <1> QED
    BY <1>2, <1>3, <1>4, <1>5, <1>6, <1>7, <1>8 DEF PNext, Communicate

-----------------------------------------------------------------------------
(* The theorem.                                                            *)

LEMMA OwnInit == CInit => OwnInv
  <1> SUFFICES ASSUME CInit PROVE OwnInv
    OBVIOUS
  <1>1. /\ ctl = InitialCtl /\ box = <<>> /\ menu \in DOMAIN Menus
        /\ cl = [pc |-> "idle", id |-> 0, call |-> NULL, ret |-> NULL, got |-> NULL]
        /\ threads = [main |-> "stdin", sup |-> "unborn", exit |-> NULL]
        /\ toC = <<>> /\ fromC = <<>>
    BY DEF CInit, PInit
  <1>2. IsSeq(<<>>) /\ Len(<<>>) = 0 /\ DOMAIN <<>> = {}
    BY NoElements
  <1>3. /\ DOMAIN ctl = CtlFields /\ ctl.state = "connecting" /\ ctl.reply_to = 0 /\ ctl.pending = NULL
    BY <1>1 DEF InitialCtl, CtlFields, UNDEFINED
  <1>4. cl.got = NULL /\ cl.id = 0 /\ cl.pc = "idle" /\ DOMAIN cl = {"pc", "id", "call", "ret", "got"}
    BY <1>1
  <1>5. threads.main = "stdin" /\ DOMAIN threads = {"main", "sup", "exit"}
    BY <1>1
  <1>6. Shapes /\ Asked /\ AnswersOwn
    BY <1>1, <1>2, <1>3, <1>4, <1>5 DEF Shapes, Asked, AnswersOwn
  <1>7. UnderWay /\ Due /\ Accepts /\ InBox
    BY <1>1, <1>2, <1>3 DEF UnderWay, Due, Accepts, InBox
  <1>8. ItsCall
    BY <1>3, <1>4 DEF ItsCall, UNDEFINED, SKIP
  <1> QED
    BY <1>6, <1>7, <1>8 DEF OwnInv

LEMMA OwnStep == ~Intrude /\ OwnInv /\ [CNext]_allvars => OwnInv'
  <1> SUFFICES ASSUME ~Intrude, OwnInv, [CNext]_allvars PROVE OwnInv'
    OBVIOUS
  <1>1. CASE Program(PNext)
    BY <1>1, ProgramKeeps DEF Program
  <1>2. CASE Control
    BY <1>2, CallKeeps, TcpKeeps, TimeoutKeeps, ExitKeeps, DownKeeps, InfoKeeps, DeliverKeeps,
       PortExitsKeeps, AcceptKeeps DEF Control
  <1>3. CASE OwnerCalls
    BY <1>3, OwnerCallsKeeps
  <1>4. CASE StrangerCalls
    BY <1>4, StrangerCallsKeeps
  <1>5. CASE Down
    BY <1>5, OwnerDownKeeps
  <1>6. CASE UNCHANGED allvars
    <2>1. UNCHANGED <<toC, fromC, cvars, threads>>
      BY <1>6 DEF allvars, pvars
    <2> QED
      BY <2>1, ThreadsKeep DEF OwnInv, Asked
  <1> QED
    BY <1>1, <1>2, <1>3, <1>4, <1>5, <1>6 DEF CNext

\* While nobody but the owner calls in the course of a call, a control process has
\* one request at the port program at a time, and the answer to it goes to the
\* call that asks for it or is thrown away (handle_call, handle_info, odbc.erl).
THEOREM OneRequestInvariant == ~Intrude /\ CSpec => []OwnInv
  <1>1. ASSUME ~Intrude PROVE CSpec => []OwnInv
    <2>1. OwnInv /\ [CNext]_allvars => OwnInv'
      BY <1>1, OwnStep
    <2> QED
      BY <2>1, OwnInit, PTL DEF CSpec
  <1> QED
    BY <1>1

\* A client gets the answer to its own request, however many of its requests took
\* too long before (AnswersOwn).
THEOREM AnswersReachTheirCall == ~Intrude /\ CSpec => []AnswersOwn
  <1>1. OwnInv => AnswersOwn
    BY DEF OwnInv
  <1>2. ASSUME ~Intrude PROVE CSpec => []AnswersOwn
    <2>1. CSpec => []OwnInv
      BY <1>2, OneRequestInvariant
    <2> QED
      BY <1>1, <2>1, PTL
  <1> QED
    BY <1>2


(***************************************************************************)
(* The names and ports of uds_drv.c.                                       *)
(***************************************************************************)

UdsData == [type : {"closed", "unknown", "listener", "acceptor", "connector", "command"},
            name : Name \cup {NULL}, lock : BOOLEAN, creation : 0..3,
            partner : Ports \cup {NULL}]

Types ==
    /\ pd \in [Ports -> UdsData]
    /\ step \in [Ports -> {"none", "bind", "stop", "unlock"}]
    /\ waits \in [Ports -> BOOLEAN]
    /\ bound \in [Name -> Ports \cup {NULL}]
    /\ locked \in [Name -> Nodes \cup {NULL}] /\ serial \in [Name -> -1..3]
    /\ DOMAIN pending = Ports

\* A port has a name exactly as long as it listens, and then its node holds the
\* lock of that name; a lock that is held is that of a listener.
NamesLocked ==
    /\ \A p \in Ports :
        /\ Listener(p) => pd[p].name \in Name /\ pd[p].lock /\ locked[pd[p].name] = Home[p]
        /\ ~Listener(p) => pd[p].name = NULL
        /\ step[p] \in {"bind", "unlock"} => Listener(p)
    /\ \A n \in Name : locked[n] # NULL =>
          \E p \in Ports : Listener(p) /\ pd[p].name = n /\ Home[p] = locked[n]

\* Partners are an acceptor and a port with a descriptor, both of one node, and
\* refer to each other; a listener waits exactly for its partner.
Partnership ==
    \A p \in Ports :
        /\ pd[p].partner # NULL =>
              LET q == pd[p].partner
              IN  /\ Home[q] = Home[p] /\ pd[q].partner = p
                  /\ \/ pd[p].type \in Descriptor /\ pd[q].type = "acceptor"
                     \/ pd[p].type = "acceptor" /\ pd[q].type \in Descriptor
        /\ waits[p] => \/ Listener(p) /\ pd[p].partner # NULL
                       \/ pd[p].type = "connector"

NamesInv == Types /\ NamesLocked /\ OneListener /\ NameReaches /\ Partnership

\* At the start no name is taken.
LEMMA InitNames == UdInit => NamesInv
BY PortConstants DEF UdInit, ClosedPort, NamesInv, Types, UdsData, NamesLocked, OneListener,
    NameReaches, Partnership, Descriptor, Listener

\* The invariant is that of the driver's data and of the files.
LEMMA SameNames ==
    ASSUME NamesInv, UNCHANGED <<pd, step, waits, bound, locked, serial>>, DOMAIN pending' = Ports
    PROVE  NamesInv'
BY DEF NamesInv, Types, UdsData, NamesLocked, OneListener, NameReaches, Partnership, Descriptor, Listener

\* A port gives up: the callback is followed by its stop.
LEMMA FailKeeps ==
    ASSUME NamesInv, NEW p \in Ports, Fail(p), step[p] = "none",
           UNCHANGED <<pd, waits, bound, locked, serial>>, DOMAIN pending' = Ports
    PROVE  NamesInv'
BY DEF Fail, NamesInv, Types, UdsData, NamesLocked, OneListener, NameReaches, Partnership, Descriptor, Listener

\* A port is opened; it has no name yet.
LEMMA StartKeeps ==
    ASSUME NamesInv, NEW p \in Ports, uds_start(p)
    PROVE  NamesInv'
BY DEF uds_start, NoCallback, files, NamesInv, Types, UdsData, NamesLocked, OneListener,
       NameReaches, Partnership, Descriptor, Listener

\* A name is granted to a node at a time, and by a node to one port.
LEMMA ListenKeeps ==
    ASSUME NamesInv, NEW p \in Ports, NEW n \in Name, uds_command_listen(p, n)
    PROVE  NamesInv'
<1>1. CASE OwnName(p, n) \/ locked[n] \notin {NULL, Home[p]}
  BY <1>1, FailKeeps DEF uds_command_listen, try_lock, NoCallback, NamesInv, Types
<1>2. CASE ~OwnName(p, n) /\ locked[n] \in {NULL, Home[p]}
  <2> DEFINE listening == [type |-> "listener", name |-> n, lock |-> TRUE,
                           creation |-> serial'[n], partner |-> NULL]
  <2>1. /\ serial' = [serial EXCEPT ![n] = IF @ = -1 THEN 0 ELSE (@ + 1) % 4]
        /\ locked' = [locked EXCEPT ![n] = Home[p]] /\ pd' = [pd EXCEPT ![p] = listening]
        /\ step' = [step EXCEPT ![p] = "bind"]
        /\ pd[p].type = "unknown" /\ UNCHANGED <<waits, bound, pending>>
    BY <1>2 DEF uds_command_listen, try_lock, NextCreation
  <2>2. serial'[n] \in 0..3 /\ serial' \in [Name -> -1..3]
    BY <2>1 DEF NamesInv, Types
  <2>3. listening \in UdsData
    BY <2>2 DEF UdsData
  <2>4. Types'
    <3>1. pd' \in [Ports -> UdsData]
      BY <2>1, <2>3 DEF NamesInv, Types
    <3>2. Home[p] \in Nodes /\ locked' \in [Name -> Nodes \cup {NULL}]
      BY <2>1 DEF NamesInv, Types, Nodes
    <3>3. step' \in [Ports -> {"none", "bind", "stop", "unlock"}]
      BY <2>1 DEF NamesInv, Types
    <3>4. UNCHANGED <<waits, bound, pending>>
      BY <2>1
    <3> QED
      BY <2>2, <3>1, <3>2, <3>3, <3>4 DEF NamesInv, Types
  <2>5. \A q \in Ports \ {p} : Listener(q) => pd[q].name # n
    BY <1>2, PortConstants DEF OwnName, NamesInv, NamesLocked
  <2>6. pd'[p] = listening /\ \A q \in Ports \ {p} : pd'[q] = pd[q]
    BY <2>1 DEF NamesInv, Types
  <2>7. NamesLocked'
    <3>1. locked'[n] = Home[p] /\ \A k \in Name \ {n} : locked'[k] = locked[k]
      BY <2>1 DEF NamesInv, Types
    <3>2. \A q \in Ports :
            /\ Listener(q)' => pd'[q].name \in Name /\ pd'[q].lock /\ locked'[pd'[q].name] = Home[q]
            /\ ~Listener(q)' => pd'[q].name = NULL
            /\ step'[q] \in {"bind", "unlock"} => Listener(q)'
      BY <2>1, <2>5, <2>6, <3>1 DEF NamesInv, Types, NamesLocked, Listener
    <3>3. \A k \in Name : locked'[k] # NULL =>
             \E q \in Ports : Listener(q)' /\ pd'[q].name = k /\ Home[q] = locked'[k]
      BY <2>1, <2>6, <3>1 DEF NamesInv, NamesLocked, Listener
    <3> QED
      BY <3>2, <3>3 DEF NamesLocked
  <2>8. OneListener' /\ NameReaches'
    <3>1. \A q \in Ports \ {p} : step'[q] = step[q]
      BY <2>1 DEF NamesInv, Types
    <3>2. step'[p] = "bind"
      BY <2>1 DEF NamesInv, Types
    <3>3. \A q \in Ports \ {p} : Listener(q)' <=> Listener(q)
      BY <2>6 DEF Listener
    <3>4. OneListener'
      BY <2>5, <2>6, <3>3 DEF NamesInv, OneListener
    <3>5. NameReaches'
      BY <2>1, <2>6, <3>1, <3>2, <3>3 DEF NamesInv, NameReaches
    <3> QED
      BY <3>4, <3>5
  <2>9. Partnership'
    BY <2>1, <2>6, PortConstants DEF NamesInv, Types, UdsData, Partnership, Descriptor, Listener
  <2> QED
    BY <2>4, <2>7, <2>8, <2>9 DEF NamesInv
<1> QED
  BY <1>1, <1>2

\* The socket of a listener is bound to its name, which replaces the file.
LEMMA BindKeeps ==
    ASSUME NamesInv, NEW p \in Ports, ListenBind(p)
    PROVE  NamesInv'
<1>1. Listener(p) /\ pd[p].name \in Name
  BY DEF ListenBind, NamesInv, NamesLocked
<1>2. \A q \in Ports \ {p} : Listener(q) => pd[q].name # pd[p].name
  BY <1>1 DEF NamesInv, OneListener
<1>3. Types' /\ NamesLocked' /\ OneListener' /\ Partnership'
  BY <1>1 DEF ListenBind, Fail, NamesInv, Types, NamesLocked, OneListener, Partnership, Descriptor, Listener
<1>4. NameReaches'
  BY <1>1, <1>2 DEF ListenBind, Fail, NamesInv, Types, NameReaches, Listener, NamesLocked
<1> QED
  BY <1>3, <1>4 DEF NamesInv

\* A port waits for the next connection to a listener.
LEMMA UdAcceptKeeps ==
    ASSUME NamesInv, NEW p \in Ports, NEW l \in Ports, uds_command_accept(p, l)
    PROVE  NamesInv'
<1>1. CASE Busy(l)
  BY <1>1, FailKeeps DEF uds_command_accept, NoCallback, files, NamesInv, Types
<1>2. CASE ~Busy(l)
  <2>1. /\ p # l /\ pd[p].type = "unknown" /\ pd[l].type \in Descriptor /\ Home[l] = Home[p]
        /\ pd[l].partner = NULL
        /\ pd' = [pd EXCEPT ![l].partner = p, ![p].partner = l, ![p].type = "acceptor"]
        /\ waits' = [waits EXCEPT ![l] = @ \/ pd[l].type = "listener"]
        /\ UNCHANGED <<step, bound, locked, serial, pending>>
    BY <1>2 DEF uds_command_accept, Busy, files, Descriptor
  <2>2. pd[p].partner = NULL
    BY <2>1 DEF NamesInv, Partnership, Descriptor
  <2>3. /\ pd' \in [Ports -> UdsData]
        /\ pd'[l] = [pd[l] EXCEPT !.partner = p]
        /\ pd'[p] = [pd[p] EXCEPT !.partner = l, !.type = "acceptor"]
        /\ \A q \in Ports \ {p, l} : pd'[q] = pd[q]
    BY <2>1 DEF NamesInv, Types, UdsData
  <2>4. /\ pd'[l].partner = p /\ pd'[l].type = pd[l].type /\ pd'[p].type = "acceptor"
        /\ pd'[p].partner = l /\ pd'[l].name = pd[l].name /\ pd'[p].name = pd[p].name
        /\ pd'[l].lock = pd[l].lock
    BY <2>1, <2>3 DEF NamesInv, Types, UdsData, Listener
  <2>5. Types'
    BY <2>1, <2>3 DEF NamesInv, Types
  <2>6. \A q \in Ports : /\ Listener(q)' <=> Listener(q)
                         /\ pd'[q].name = pd[q].name /\ (Listener(q) => pd'[q].lock = pd[q].lock)
    BY <2>1, <2>3, <2>4 DEF Listener
  <2>7. NamesLocked' /\ OneListener' /\ NameReaches'
    <3>1. UNCHANGED <<step, bound, locked>>
      BY <2>1
    <3>2. \A q \in Ports :
            /\ Listener(q)' => pd'[q].name \in Name /\ pd'[q].lock /\ locked'[pd'[q].name] = Home[q]
            /\ ~Listener(q)' => pd'[q].name = NULL
            /\ step'[q] \in {"bind", "unlock"} => Listener(q)'
      BY <2>6, <3>1 DEF NamesInv, NamesLocked
    <3>3. \A k \in Name : locked'[k] # NULL =>
             \E q \in Ports : Listener(q)' /\ pd'[q].name = k /\ Home[q] = locked'[k]
      BY <2>6, <3>1 DEF NamesInv, NamesLocked
    <3>4. OneListener'
      BY <2>6 DEF NamesInv, OneListener
    <3>5. NameReaches'
      BY <2>6, <3>1 DEF NamesInv, NameReaches
    <3> QED
      BY <3>2, <3>3, <3>4, <3>5 DEF NamesLocked
  <2>8. /\ waits'[l] = (waits[l] \/ Listener(l))
        /\ \A q \in Ports \ {l} : waits'[q] = waits[q]
    BY <2>1 DEF NamesInv, Types, Listener
  <2>9. ~waits[p]
    BY <2>1, <2>2 DEF NamesInv, Partnership, Descriptor, Listener
  <2>10. \A q \in Ports \ {p, l} : pd[q].partner \notin {p, l}
    <3> SUFFICES ASSUME NEW q \in Ports \ {p, l}, NEW r \in {p, l}, pd[q].partner = r
                 PROVE  FALSE
      OBVIOUS
    <3>1. r \in Ports /\ r # NULL /\ pd[r].partner = NULL /\ q # NULL
      BY <2>1, <2>2, PortConstants
    <3> QED
      BY <3>1 DEF NamesInv, Partnership, Descriptor
  <2>11. Partnership'
    <3> SUFFICES ASSUME NEW q \in Ports
                 PROVE  /\ pd'[q].partner # NULL =>
                              LET r == pd'[q].partner
                              IN  /\ Home[r] = Home[q] /\ pd'[r].partner = q
                                  /\ \/ pd'[q].type \in Descriptor /\ pd'[r].type = "acceptor"
                                     \/ pd'[q].type = "acceptor" /\ pd'[r].type \in Descriptor
                        /\ waits'[q] => \/ Listener(q)' /\ pd'[q].partner # NULL
                                        \/ pd'[q].type = "connector"
      BY DEF Partnership, Descriptor
    <3>1. CASE q = p
      BY <2>1, <2>4, <2>8, <2>9, <3>1, ZenonT(60)
    <3>2. CASE q = l
      <4>1. pd'[l].partner # NULL
        BY <2>4, PortConstants
      <4>2. waits'[l] => Listener(l)' \/ pd'[l].type = "connector"
        BY <2>4, <2>6, <2>8 DEF NamesInv, Partnership
      <4> QED
        BY <2>1, <2>4, <3>2, <4>1, <4>2
    <3>3. CASE q \notin {p, l}
      <4>1. pd'[q] = pd[q] /\ waits'[q] = waits[q] /\ pd[q].partner \notin {p, l}
        BY <2>3, <2>8, <2>10, <3>3
      <4>2. pd[q].partner # NULL => pd[q].partner \in Ports /\ pd'[pd[q].partner] = pd[pd[q].partner]
        BY <2>3, <4>1 DEF NamesInv, Types, UdsData
      <4> QED
        BY <4>1, <4>2 DEF NamesInv, Partnership, Descriptor, Listener
    <3> QED
      BY <3>1, <3>2, <3>3
  <2> QED
    BY <2>5, <2>7, <2>11 DEF NamesInv
<1> QED
  BY <1>1, <1>2

\* What a callback may do to one port that is not a listener.
LEMMA OnePortKeeps ==
    ASSUME NamesInv, NEW p \in Ports, pd[p].type = "unknown" \/ pd[p].type = "connector",
           NEW type \in {"connector", "command"}, NEW w \in BOOLEAN, w => type = "connector",
           pd' = [pd EXCEPT ![p].type = type], waits' = [waits EXCEPT ![p] = w],
           UNCHANGED <<step, bound, locked, serial>>, DOMAIN pending' = Ports
    PROVE  NamesInv'
<1>1. ~Listener(p) /\ (pd[p].type \in Descriptor \/ pd[p].partner = NULL)
  BY DEF NamesInv, Partnership, Descriptor, Listener
<1>2. /\ pd' \in [Ports -> UdsData] /\ pd'[p] = [pd[p] EXCEPT !.type = type]
      /\ \A q \in Ports \ {p} : pd'[q] = pd[q]
  BY DEF NamesInv, Types, UdsData
<1>3. /\ pd'[p].type = type /\ pd'[p].name = pd[p].name /\ pd'[p].partner = pd[p].partner
      /\ type \in Descriptor
  BY <1>1, <1>2 DEF NamesInv, Types, UdsData, Descriptor
<1>4. \A q \in Ports : /\ Listener(q)' <=> Listener(q)
                       /\ pd'[q].name = pd[q].name /\ (Listener(q) => pd'[q].lock = pd[q].lock)
  BY <1>1, <1>2, <1>3 DEF Listener
<1>5. Types'
  BY <1>2 DEF NamesInv, Types
<1>6. NamesLocked' /\ OneListener' /\ NameReaches'
  <2>1. UNCHANGED <<step, bound, locked>>
    OBVIOUS
  <2>2. NamesLocked'
    BY <1>4, <2>1 DEF NamesInv, NamesLocked
  <2>3. OneListener' /\ NameReaches'
    BY <1>4, <2>1 DEF NamesInv, OneListener, NameReaches
  <2> QED
    BY <2>2, <2>3
<1>7. Partnership'
  <2>1. waits'[p] = w /\ \A q \in Ports \ {p} : waits'[q] = waits[q]
    BY DEF NamesInv, Types
  <2>2. \A q \in Ports : waits'[q] =>
           (Listener(q)' /\ pd'[q].partner # NULL) \/ pd'[q].type = "connector"
    BY <1>2, <1>3, <1>4, <2>1 DEF NamesInv, Partnership
  <2>3. \A q \in Ports : pd'[q].partner = pd[q].partner
    BY <1>2, <1>3
  <2>4. \A q \in Ports : /\ pd'[q].type = "acceptor" <=> pd[q].type = "acceptor"
                         /\ pd[q].type \in Descriptor => pd'[q].type \in Descriptor
    BY <1>2, <1>3 DEF Descriptor
  <2>5. \A q \in Ports : pd[q].partner # NULL => pd[q].partner \in Ports
    BY DEF NamesInv, Types, UdsData
  <2>6. \A q \in Ports : pd'[q].partner # NULL =>
           LET r == pd'[q].partner
           IN  /\ Home[r] = Home[q] /\ pd'[r].partner = q
               /\ \/ pd'[q].type \in Descriptor /\ pd'[r].type = "acceptor"
                  \/ pd'[q].type = "acceptor" /\ pd'[r].type \in Descriptor
    BY <2>3, <2>4, <2>5 DEF NamesInv, Partnership
  <2> QED
    BY <2>2, <2>6 DEF Partnership
<1> QED
  BY <1>5, <1>6, <1>7 DEF NamesInv

\* A connection is asked for.
LEMMA ConnectKeeps ==
    ASSUME NamesInv, NEW p \in Ports, NEW n \in Name, uds_command_connect(p, n)
    PROVE  NamesInv'
<1>1. DOMAIN pending' = Ports /\ UNCHANGED <<bound, locked, serial>>
  BY DEF uds_command_connect, files, NamesInv, Types
<1>2. CASE Fail(p) /\ UNCHANGED <<pd, waits, pending>>
  BY <1>1, <1>2, FailKeeps DEF uds_command_connect, NoCallback
<1>3. CASE ~(Fail(p) /\ UNCHANGED <<pd, waits, pending>>)
  <2>1. PICK later \in BOOLEAN :
           /\ pd' = [pd EXCEPT ![p].type = IF later THEN "connector" ELSE "command"]
           /\ waits' = [waits EXCEPT ![p] = later]
    BY <1>3 DEF uds_command_connect
  <2>2. UNCHANGED step /\ pd[p].type = "unknown"
    BY <1>3 DEF uds_command_connect
  <2>3. CASE later
    BY <1>1, <2>1, <2>2, <2>3, OnePortKeeps
  <2>4. CASE ~later
    BY <1>1, <2>1, <2>2, <2>4, OnePortKeeps
  <2> QED
    BY <2>3, <2>4
<1> QED
  BY <1>2, <1>3

\* A connection is made.
LEMMA ConnectReadyKeeps ==
    ASSUME NamesInv, NEW p \in Ports, ConnectReady(p)
    PROVE  NamesInv'
<1>1. /\ pd[p].type = "connector" /\ pd' = [pd EXCEPT ![p].type = "command"]
      /\ waits' = [waits EXCEPT ![p] = FALSE]
      /\ UNCHANGED <<step, bound, locked, serial, pending>>
  BY DEF ConnectReady, files
<1>2. DOMAIN pending' = Ports
  BY <1>1 DEF NamesInv, Types
<1> QED
  BY <1>1, <1>2, OnePortKeeps

\* The pair of a listener and its acceptor is taken apart.
LEMMA AcceptReadyKeeps ==
    ASSUME NamesInv, NEW l \in Ports, AcceptReady(l)
    PROVE  NamesInv'
<1>1. DOMAIN pending' = Ports /\ UNCHANGED <<bound, locked, serial>>
  BY DEF AcceptReady, files, NamesInv, Types
<1>2. CASE Fail(l) /\ UNCHANGED <<pd, waits>>
  BY <1>1, <1>2, FailKeeps DEF AcceptReady, NoCallback
<1>3. CASE ~(Fail(l) /\ UNCHANGED <<pd, waits>>)
  <2> DEFINE a == pd[l].partner
  <2>1. /\ pd' = [pd EXCEPT ![a].type = "command", ![a].partner = NULL, ![l].partner = NULL]
        /\ waits' = [waits EXCEPT ![l] = FALSE] /\ UNCHANGED step
        /\ Listener(l) /\ waits[l]
    BY <1>3 DEF AcceptReady, Listener
  <2>2. /\ a \in Ports \ {l} /\ pd[a].type = "acceptor" /\ pd[a].partner = l
        /\ a # NULL /\ pd[a] \in UdsData /\ pd[l] \in UdsData
    BY <2>1 DEF NamesInv, Types, UdsData, Partnership, Descriptor, Listener
  <2> HIDE DEF a
  <2>3. /\ pd'[l] = [pd[l] EXCEPT !.partner = NULL]
        /\ pd'[a] = [pd[a] EXCEPT !.type = "command", !.partner = NULL]
        /\ \A q \in Ports \ {a, l} : pd'[q] = pd[q]
        /\ pd' \in [Ports -> UdsData]
    BY <2>1, <2>2 DEF NamesInv, Types, UdsData
  <2>4. /\ pd'[l].type = pd[l].type /\ pd'[l].name = pd[l].name /\ pd'[l].lock = pd[l].lock
        /\ pd'[l].partner = NULL /\ pd'[a].partner = NULL /\ pd'[a].type = "command"
        /\ pd'[a].name = pd[a].name
    BY <2>2, <2>3 DEF UdsData
  <2>5. \A q \in Ports : /\ Listener(q)' <=> Listener(q)
                         /\ pd'[q].name = pd[q].name /\ (Listener(q) => pd'[q].lock = pd[q].lock)
    BY <2>2, <2>3, <2>4, ZenonT(60) DEF Listener
  <2>6. Types'
    BY <1>1, <2>1, <2>3 DEF NamesInv, Types
  <2>7. NamesLocked' /\ OneListener' /\ NameReaches'
    <3>1. UNCHANGED <<step, bound, locked>>
      BY <1>1, <2>1
    <3>2. NamesLocked'
      BY <2>5, <3>1 DEF NamesInv, NamesLocked
    <3>3. OneListener' /\ NameReaches'
      BY <2>5, <3>1 DEF NamesInv, OneListener, NameReaches
    <3> QED
      BY <3>2, <3>3
  <2>8. ~waits[a] /\ ~waits'[l] /\ \A q \in Ports \ {l} : waits'[q] = waits[q]
    BY <2>1, <2>2 DEF NamesInv, Types, Partnership, Descriptor, Listener
  <2>9. \A q \in Ports \ {a, l} : pd[q].partner # NULL => pd[q].partner \in Ports \ {a, l}
    <3> SUFFICES ASSUME NEW q \in Ports \ {a, l}, pd[q].partner # NULL
                 PROVE  pd[q].partner \in Ports \ {a, l}
      OBVIOUS
    <3>1. pd[q].partner \in Ports /\ pd[pd[q].partner].partner = q
      BY DEF NamesInv, Types, UdsData, Partnership, Descriptor
    <3> QED
      BY <2>2, <3>1 DEF a
  <2>10. Partnership'
    <3>1. \A q \in Ports \ {a, l} : pd[q].partner # NULL =>
             pd'[q] = pd[q] /\ pd'[pd[q].partner] = pd[pd[q].partner]
      BY <2>3, <2>9
    <3>2. \A q \in Ports \ {a, l} : waits'[q] =>
             (Listener(q)' /\ pd'[q].partner # NULL) \/ pd'[q].type = "connector"
      BY <2>3, <2>5, <2>8 DEF NamesInv, Partnership, Descriptor
    <3> SUFFICES ASSUME NEW q \in Ports
                 PROVE  /\ pd'[q].partner # NULL =>
                              LET r == pd'[q].partner
                              IN  /\ Home[r] = Home[q] /\ pd'[r].partner = q
                                  /\ \/ pd'[q].type \in Descriptor /\ pd'[r].type = "acceptor"
                                     \/ pd'[q].type = "acceptor" /\ pd'[r].type \in Descriptor
                        /\ waits'[q] => \/ Listener(q)' /\ pd'[q].partner # NULL
                                        \/ pd'[q].type = "connector"
      BY DEF Partnership, Descriptor
    <3>3. CASE q \in {a, l}
      BY <2>2, <2>4, <2>8, <3>3
    <3>4. CASE q \notin {a, l}
      BY <2>3, <3>1, <3>2, <3>4 DEF NamesInv, Partnership, Descriptor
    <3> QED
      BY <3>3, <3>4
  <2> QED
    BY <2>6, <2>7, <2>10, SMTT(60) DEF NamesInv
<1> QED
  BY <1>2, <1>3

\* The owner closes a port, which is stopped next.
LEMMA StopKeeps ==
    ASSUME NamesInv, NEW p \in Ports, uds_stop(p)
    PROVE  NamesInv'
BY FailKeeps DEF uds_stop, NoCallback, files, NamesInv, Types

\* The socket file that goes is the listener's own.
LEMMA UnlinkKeeps ==
    ASSUME NamesInv, NEW p \in Ports, StopUnlink(p)
    PROVE  NamesInv'
<1>1. Listener(p) /\ pd[p].name \in Name
  BY DEF StopUnlink, NamesInv, NamesLocked
<1>2. \A q \in Ports \ {p} : Listener(q) => pd[q].name # pd[p].name
  BY <1>1 DEF NamesInv, OneListener
<1>3. Types' /\ NamesLocked' /\ OneListener' /\ Partnership'
  BY <1>1 DEF StopUnlink, NamesInv, Types, NamesLocked, OneListener, Partnership, Descriptor, Listener
<1>4. NameReaches'
  BY <1>1, <1>2 DEF StopUnlink, NamesInv, Types, NameReaches, Listener, NamesLocked
<1> QED
  BY <1>3, <1>4 DEF NamesInv

\* The lock that is given back is the listener's own; so is the partner.
LEMMA UnlockKeeps ==
    ASSUME NamesInv, NEW p \in Ports, StopUnlock(p)
    PROVE  NamesInv'
<1> DEFINE a == pd[p].partner
<1>1. /\ pd' = [q \in Ports |-> IF q = p THEN ClosedPort
                                ELSE IF q = a THEN [pd[q] EXCEPT !.partner = NULL] ELSE pd[q]]
      /\ waits' = [q \in Ports |-> IF q = p \/ (q = a /\ pd[p].type = "acceptor" /\ pd[q].type = "listener")
                                   THEN FALSE ELSE waits[q]]
      /\ step' = [q \in Ports |-> IF q = p THEN "none"
                                  ELSE IF q = a /\ pd[p].type # "acceptor" THEN "stop" ELSE step[q]]
      /\ locked' = [n \in Name |-> IF n = pd[p].name /\ pd[p].lock THEN NULL ELSE locked[n]]
      /\ UNCHANGED <<bound, serial>>
  BY DEF StopUnlock, Partners
<1>2. DOMAIN pending' = Ports
  BY DEF StopUnlock, NamesInv, Types
<1>3. /\ pd[p] \in UdsData /\ (a # NULL => a \in Ports /\ pd[a] \in UdsData /\ pd[a].partner = p)
      /\ a = NULL => a \notin Ports
      /\ a # p
  BY PortConstants DEF NamesInv, Types, UdsData, Partnership, Descriptor
<1>4. Partnership
  BY DEF NamesInv
<1>5. a # NULL => \/ pd[p].type \in Descriptor /\ pd[a].type = "acceptor"
                  \/ pd[p].type = "acceptor" /\ pd[a].type \in Descriptor
  BY <1>4 DEF Partnership, Descriptor
<1> HIDE DEF a
<1>6. \A q \in Ports \ {p} :
         /\ pd'[q].type = pd[q].type /\ pd'[q].name = pd[q].name /\ pd'[q].lock = pd[q].lock
         /\ pd'[q].partner = (IF q = a THEN NULL ELSE pd[q].partner)
         /\ pd'[q] \in UdsData
  <2> SUFFICES ASSUME NEW q \in Ports \ {p}
               PROVE  /\ pd'[q].type = pd[q].type /\ pd'[q].name = pd[q].name
                      /\ pd'[q].lock = pd[q].lock
                      /\ pd'[q].partner = (IF q = a THEN NULL ELSE pd[q].partner)
                      /\ pd'[q] \in UdsData
    OBVIOUS
  <2>1. pd[q] \in UdsData
    BY DEF NamesInv, Types
  <2>2. CASE q = a
    <3>1. pd'[q] = [pd[q] EXCEPT !.partner = NULL]
      BY <1>1, <2>2
    <3> QED
      BY <2>1, <2>2, <3>1 DEF UdsData
  <2>3. CASE q # a
    <3>1. pd'[q] = pd[q]
      BY <1>1, <2>3
    <3> QED
      BY <2>1, <2>3, <3>1
  <2> QED
    BY <2>2, <2>3
<1>7. /\ pd'[p] \in UdsData /\ pd'[p].type = "closed" /\ pd'[p].name = NULL /\ pd'[p].partner = NULL
  BY <1>1 DEF ClosedPort, UdsData
<1>8. Types'
  <2>1. pd' \in [Ports -> UdsData]
    BY <1>1, <1>6, <1>7
  <2>2. /\ step' \in [Ports -> {"none", "bind", "stop", "unlock"}] /\ waits' \in [Ports -> BOOLEAN]
        /\ locked' \in [Name -> Nodes \cup {NULL}]
    BY <1>1 DEF NamesInv, Types
  <2> QED
    BY <1>1, <1>2, <2>1, <2>2 DEF NamesInv, Types
<1>9. \A q \in Ports \ {p} :
         /\ Listener(q)' <=> Listener(q)
         /\ Listener(q) /\ Listener(p) => pd[q].name # pd[p].name
  <2>1. \A q \in Ports \ {p} : Listener(q)' <=> Listener(q)
    BY <1>6 DEF Listener
  <2>2. \A q \in Ports \ {p} : Listener(q) /\ Listener(p) => pd[q].name # pd[p].name
    BY DEF NamesInv, OneListener
  <2> QED
    BY <2>1, <2>2
<1>10. ~Listener(p)'
  BY <1>7 DEF Listener
<1>11. NamesLocked'
  <2>1. \A q \in Ports :
            /\ Listener(q)' => pd'[q].name \in Name /\ pd'[q].lock /\ locked'[pd'[q].name] = Home[q]
            /\ ~Listener(q)' => pd'[q].name = NULL
    <3> SUFFICES ASSUME NEW q \in Ports \ {p}
                 PROVE  /\ Listener(q)' => /\ pd'[q].name \in Name /\ pd'[q].lock
                                           /\ locked'[pd'[q].name] = Home[q]
                        /\ ~Listener(q)' => pd'[q].name = NULL
      BY <1>7, <1>10
    <3>1. CASE Listener(q)
      <4>1. pd[q].name \in Name /\ pd[q].lock /\ locked[pd[q].name] = Home[q]
        BY <3>1 DEF NamesInv, NamesLocked
      <4>2. pd[q].name # pd[p].name
        BY <1>9, <3>1, <4>1, PortConstants DEF NamesInv, NamesLocked
      <4> QED
        BY <1>1, <1>6, <1>9, <3>1, <4>1, <4>2
    <3>2. CASE ~Listener(q)
      BY <1>6, <1>9, <3>2 DEF NamesInv, NamesLocked
    <3> QED
      BY <3>1, <3>2
  <2>2. \A q \in Ports : step'[q] \in {"bind", "unlock"} => Listener(q)'
    BY <1>1, <1>9 DEF NamesInv, NamesLocked
  <2>3. \A n \in Name : locked'[n] # NULL =>
            \E q \in Ports : Listener(q)' /\ pd'[q].name = n /\ Home[q] = locked'[n]
    <3> SUFFICES ASSUME NEW n \in Name, locked'[n] # NULL
                 PROVE  \E q \in Ports : Listener(q)' /\ pd'[q].name = n /\ Home[q] = locked'[n]
      OBVIOUS
    <3>1. locked'[n] = locked[n] /\ ~(n = pd[p].name /\ pd[p].lock)
      BY <1>1
    <3>2. PICK q \in Ports : Listener(q) /\ pd[q].name = n /\ Home[q] = locked[n]
      BY <3>1 DEF NamesInv, NamesLocked
    <3>3. q # p
      BY <3>1, <3>2 DEF NamesInv, NamesLocked
    <3> QED
      BY <1>6, <1>9, <3>1, <3>2, <3>3
  <2> QED
    BY <2>1, <2>2, <2>3 DEF NamesLocked
<1>12. OneListener'
  BY <1>6, <1>9, <1>10 DEF NamesInv, OneListener
<1>13. NameReaches'
  <2> SUFFICES ASSUME NEW q \in Ports, Listener(q)', step'[q] = "none"
               PROVE  bound'[pd'[q].name] = q
    BY DEF NameReaches
  <2>1. q # p /\ step[q] = "none"
    BY <1>1, <1>10
  <2> QED
    BY <1>1, <1>6, <1>9, <2>1 DEF NamesInv, NameReaches
<1>14. Partnership'
  <2> SUFFICES ASSUME NEW q \in Ports
               PROVE  /\ pd'[q].partner # NULL =>
                            LET r == pd'[q].partner
                            IN  /\ Home[r] = Home[q] /\ pd'[r].partner = q
                                /\ \/ pd'[q].type \in Descriptor /\ pd'[r].type = "acceptor"
                                   \/ pd'[q].type = "acceptor" /\ pd'[r].type \in Descriptor
                      /\ waits'[q] => \/ Listener(q)' /\ pd'[q].partner # NULL
                                      \/ pd'[q].type = "connector"
    BY DEF Partnership, Descriptor
  <2>1. ~waits'[p]
    BY <1>1
  <2>2. CASE q = p
    BY <1>7, <2>1, <2>2
  <2>3. CASE q = a
    <3>1. pd'[q].partner = NULL /\ pd'[q].type = pd[q].type
      BY <1>3, <1>6, <2>3
    <3>2. waits'[q] => pd[q].type = "connector"
      <4>1. waits'[q] => waits[q] /\ ~(pd[p].type = "acceptor" /\ pd[q].type = "listener")
        BY <1>1, <1>3, <2>3
      <4>2. waits[q] => pd[q].type \in {"listener", "connector"}
        BY <1>4 DEF Partnership, Listener
      <4>3. pd[q].type = "listener" => pd[p].type = "acceptor"
        BY <1>3, <1>5, <2>3, PortConstants
      <4> QED
        BY <4>1, <4>2, <4>3
    <3> QED
      BY <3>1, <3>2
  <2>4. CASE q \notin {p, a}
    <3>1. pd'[q] = pd[q] /\ waits'[q] = waits[q]
      BY <1>1, <2>4
    <3>2. pd[q].partner # NULL => pd[q].partner \in Ports \ {p, a}
      <4> SUFFICES ASSUME pd[q].partner # NULL PROVE pd[q].partner \in Ports \ {p, a}
        OBVIOUS
      <4>1. pd[q].partner \in Ports /\ pd[pd[q].partner].partner = q
        BY <1>4 DEF NamesInv, Types, UdsData, Partnership, Descriptor
      <4> QED
        BY <1>3, <2>4, <4>1 DEF a
    <3>3. pd[q].partner # NULL => pd'[pd[q].partner] = pd[pd[q].partner]
      BY <1>1, <3>2
    <3> QED
      BY <1>4, <1>9, <2>4, <3>1, <3>3 DEF Partnership, Descriptor
  <2> QED
    BY <2>2, <2>3, <2>4
<1> QED
  BY <1>8, <1>11, <1>12, <1>13, <1>14 DEF NamesInv

\* The ports of a node go at once, with or without their socket files.
LEMMA NodeGone ==
    ASSUME NamesInv, NEW node,
           pd' = [p \in Ports |-> IF Home[p] = node THEN ClosedPort ELSE pd[p]],
           waits' = [p \in Ports |-> Home[p] # node /\ waits[p]],
           locked' = [n \in Name |-> IF locked[n] = node THEN NULL ELSE locked[n]],
           bound' \in [Name -> Ports \cup {NULL}],
           \A p \in Ports : Listener(p) /\ Home[p] # node => bound'[pd[p].name] = bound[pd[p].name],
           step' \in [Ports -> {"none", "bind", "stop", "unlock"}],
           \A p \in Ports : step'[p] = IF Home[p] = node THEN "none" ELSE step[p],
           serial' = serial, DOMAIN pending' = Ports
    PROVE  NamesInv'
<1>1. ClosedPort \in UdsData /\ ClosedPort.type = "closed" /\ ClosedPort.name = NULL
      /\ ClosedPort.partner = NULL
  BY DEF ClosedPort, UdsData
<1>2. \A p \in Ports : /\ Home[p] = node => pd'[p] = ClosedPort /\ ~waits'[p] /\ step'[p] = "none"
                       /\ Home[p] # node => /\ pd'[p] = pd[p] /\ step'[p] = step[p]
                                            /\ waits'[p] = waits[p]
  BY DEF NamesInv, Types
<1>3. Types'
  BY <1>1 DEF NamesInv, Types
<1>4. \A p \in Ports : Listener(p)' <=> Listener(p) /\ Home[p] # node
  BY <1>1, <1>2 DEF Listener
<1>5. NamesLocked'
  <2>1. \A p \in Ports :
            /\ Listener(p)' => pd'[p].name \in Name /\ pd'[p].lock /\ locked'[pd'[p].name] = Home[p]
            /\ ~Listener(p)' => pd'[p].name = NULL
            /\ step'[p] \in {"bind", "unlock"} => Listener(p)'
    BY <1>1, <1>2, <1>4 DEF NamesInv, NamesLocked
  <2>2. \A n \in Name : locked'[n] # NULL =>
            \E p \in Ports : Listener(p)' /\ pd'[p].name = n /\ Home[p] = locked'[n]
    BY <1>2, <1>4 DEF NamesInv, NamesLocked
  <2> QED
    BY <2>1, <2>2 DEF NamesLocked
<1>6. OneListener' /\ NameReaches'
  BY <1>2, <1>4, SMTT(60) DEF NamesInv, OneListener, NameReaches
<1>7. Partnership'
  <2> SUFFICES ASSUME NEW q \in Ports
               PROVE  /\ pd'[q].partner # NULL =>
                            LET r == pd'[q].partner
                            IN  /\ Home[r] = Home[q] /\ pd'[r].partner = q
                                /\ \/ pd'[q].type \in Descriptor /\ pd'[r].type = "acceptor"
                                   \/ pd'[q].type = "acceptor" /\ pd'[r].type \in Descriptor
                      /\ waits'[q] => \/ Listener(q)' /\ pd'[q].partner # NULL
                                      \/ pd'[q].type = "connector"
    BY DEF Partnership, Descriptor
  <2>1. CASE Home[q] = node
    BY <1>1, <1>2, <2>1
  <2>2. CASE Home[q] # node
    <3>1. pd[q].partner # NULL => pd[q].partner \in Ports /\ Home[pd[q].partner] = Home[q]
      BY DEF NamesInv, Types, UdsData, Partnership, Descriptor
    <3>2. pd[q].partner # NULL => pd'[pd[q].partner] = pd[pd[q].partner]
      BY <1>2, <2>2, <3>1
    <3> QED
      BY <1>2, <1>4, <2>2, <3>2 DEF NamesInv, Partnership, Descriptor
  <2> QED
    BY <2>1, <2>2
<1> QED
  BY <1>3, <1>5, <1>6, <1>7 DEF NamesInv

\* A node dies: its locks go with it, its files stay.
LEMMA CrashKeeps ==
    ASSUME NamesInv, NEW node \in Nodes, Crash(node)
    PROVE  NamesInv'
<1>1. /\ step' \in [Ports -> {"none", "bind", "stop", "unlock"}] /\ DOMAIN pending' = Ports
      /\ bound' = bound /\ bound' \in [Name -> Ports \cup {NULL}]
      /\ \A p \in Ports : step'[p] = IF Home[p] = node THEN "none" ELSE step[p]
  BY DEF Crash, NamesInv, Types
<1> QED
  BY <1>1, NodeGone DEF Crash

\* The socket files that go are those of the node's own ports.
LEMMA FinishKeeps ==
    ASSUME NamesInv, NEW node \in Nodes, uds_finish(node)
    PROVE  NamesInv'
<1> DEFINE mine == {p \in Ports : Home[p] = node}
<1>1. /\ pd' = [p \in Ports |-> IF p \in mine THEN ClosedPort ELSE pd[p]]
      /\ waits' = [p \in Ports |-> p \notin mine /\ waits[p]]
      /\ bound' = [n \in Name |-> IF \E p \in mine : pd[p].name = n THEN NULL ELSE bound[n]]
      /\ locked' = [n \in Name |-> IF locked[n] = node THEN NULL ELSE locked[n]]
      /\ pending' = [p \in Ports |-> IF p \in mine THEN <<>> ELSE pending[p]]
      /\ UNCHANGED <<step, serial>>
      /\ \A p \in mine : step[p] = "none"
  BY DEF uds_finish
<1>2. /\ pd' = [p \in Ports |-> IF Home[p] = node THEN ClosedPort ELSE pd[p]]
      /\ waits' = [p \in Ports |-> Home[p] # node /\ waits[p]]
      /\ step' \in [Ports -> {"none", "bind", "stop", "unlock"}]
      /\ \A p \in Ports : step'[p] = IF Home[p] = node THEN "none" ELSE step[p]
  BY <1>1 DEF NamesInv, Types
<1>3. bound' \in [Name -> Ports \cup {NULL}]
  BY <1>1 DEF NamesInv, Types
<1>4. \A p \in Ports : Listener(p) /\ Home[p] # node => bound'[pd[p].name] = bound[pd[p].name]
  <2> SUFFICES ASSUME NEW p \in Ports, Listener(p), Home[p] # node
               PROVE  bound'[pd[p].name] = bound[pd[p].name]
    OBVIOUS
  <2>1. pd[p].name \in Name
    BY DEF NamesInv, NamesLocked
  <2>2. ~ \E q \in mine : pd[q].name = pd[p].name
    BY <2>1, PortConstants DEF NamesInv, NamesLocked, OneListener
  <2> QED
    BY <1>1, <2>1, <2>2
<1>5. DOMAIN pending' = Ports
  BY <1>1
<1> QED
  BY <1>1, <1>2, <1>3, <1>4, <1>5, NodeGone

\* Every step keeps the bookkeeping of names, locks and files.
LEMMA NextNames == ASSUME NamesInv, [UdNext]_udvars PROVE NamesInv'
<1>1. CASE UNCHANGED udvars
  <2>1. UNCHANGED <<pd, step, waits, bound, locked, serial>> /\ DOMAIN pending' = Ports
    BY <1>1 DEF udvars, NamesInv, Types
  <2> QED
    BY <2>1, SameNames
<1>2. CASE UdNext
  BY <1>2, StartKeeps, ListenKeeps, BindKeeps, UdAcceptKeeps, ConnectKeeps, AcceptReadyKeeps,
     ConnectReadyKeeps, StopKeeps, UnlinkKeeps, UnlockKeeps, FinishKeeps, CrashKeeps
  DEF UdNext
<1> QED
  BY <1>1, <1>2

\* What the driver keeps of a name agrees at every moment, also between two of
\* its system calls and after crashes: a name has one listener, whose node holds
\* the lock and whose socket file is the one that is found; locks go with their
\* listeners; and a listener and its acceptor know each other (uds_command_listen,
\* uds_command_accept, uds_input, uds_stop, uds_finish).
THEOREM NamesAreSound == UdSpec => []NamesSound
<1>1. NamesInv => NamesSound
  <2> SUFFICES ASSUME NamesInv PROVE NamesSound
    OBVIOUS
  <2>1. UdTypeOK
    BY DEF NamesInv, Types, UdsData, UdTypeOK
  <2>2. Paired
    BY DEF NamesInv, Partnership, Descriptor, Paired, Listener
  <2>3. LocksGivenBack
    BY DEF NamesInv, NamesLocked, LocksGivenBack
  <2> QED
    BY <2>1, <2>2, <2>3 DEF NamesInv, NamesSound
<1> QED
  BY <1>1, InitNames, NextNames, PTL DEF UdSpec

\* A listener of a name has another creation than the one before it, which may
\* have been another node's that died (try_lock).
THEOREM CreationsAreNew == UdSpec => CreationsDiffer
<1>1. NamesInv /\ [UdNext]_udvars =>
        [\A p \in Ports : (Listener(p)' /\ ~Listener(p)) => serial[pd'[p].name] # pd'[p].creation]_udvars
  <2> SUFFICES ASSUME NamesInv, UdNext, NEW p \in Ports, Listener(p)', ~Listener(p)
               PROVE  serial[pd'[p].name] # pd'[p].creation
    OBVIOUS
  <2>1. PICK n \in Name : uds_command_listen(p, n)
    <3>1. pd \in [Ports -> UdsData]
      BY DEF NamesInv, Types
    <3>2. ASSUME NEW q \in Ports, uds_start(q) \/ ConnectReady(q) PROVE FALSE
      BY <3>1, <3>2 DEF uds_start, ConnectReady, UdsData, Listener
    <3>3. ASSUME NEW q \in Ports, ListenBind(q) \/ uds_stop(q) \/ StopUnlink(q) PROVE FALSE
      BY <3>3, SMTT(60) DEF ListenBind, uds_stop, StopUnlink, Listener
    <3>4. ASSUME NEW q \in Ports, AcceptReady(q) PROVE FALSE
      <4>1. CASE UNCHANGED pd
        BY <4>1 DEF Listener
      <4>2. CASE pd' = [pd EXCEPT ![pd[q].partner].type = "command", ![pd[q].partner].partner = NULL,
                                  ![q].partner = NULL]
        BY <3>1, <4>2 DEF UdsData, Listener
      <4> QED
        BY <3>4, <4>1, <4>2 DEF AcceptReady
    <3>5. ASSUME NEW q \in Ports, StopUnlock(q) PROVE FALSE
      BY <3>1, <3>5 DEF StopUnlock, Partners, UdsData, Listener, ClosedPort
    <3>6. ASSUME NEW q \in Ports, NEW k \in Name, uds_command_connect(q, k) PROVE FALSE
      <4>1. CASE UNCHANGED pd
        BY <4>1 DEF Listener
      <4>2. CASE \E later \in BOOLEAN :
                     pd' = [pd EXCEPT ![q].type = IF later THEN "connector" ELSE "command"]
        BY <3>1, <4>2 DEF UdsData, Listener
      <4> QED
        BY <3>6, <4>1, <4>2 DEF uds_command_connect
    <3>7. ASSUME NEW q \in Ports, NEW l \in Ports, uds_command_accept(q, l) PROVE FALSE
      <4>1. CASE UNCHANGED pd
        BY <4>1 DEF Listener
      <4>2. CASE pd' = [pd EXCEPT ![l].partner = q, ![q].partner = l, ![q].type = "acceptor"]
        BY <3>1, <4>2 DEF UdsData, Listener
      <4> QED
        BY <3>7, <4>1, <4>2 DEF uds_command_accept
    <3>8. ASSUME NEW q \in Ports \ {p}, NEW k \in Name, uds_command_listen(q, k) PROVE FALSE
      BY <3>1, <3>8 DEF uds_command_listen, try_lock, Listener
    <3>9. ASSUME NEW node, uds_finish(node) \/ Crash(node) PROVE FALSE
      BY <3>1, <3>9 DEF uds_finish, Crash, Listener, ClosedPort
    <3> QED
      BY <3>2, <3>3, <3>4, <3>5, <3>6, <3>7, <3>8, <3>9 DEF UdNext
  <2>2. /\ serial' = [serial EXCEPT ![n] = IF @ = -1 THEN 0 ELSE (@ + 1) % 4]
        /\ pd'[p].name = n /\ pd'[p].creation = serial'[n]
    BY <2>1 DEF uds_command_listen, try_lock, NextCreation, NamesInv, Types, Listener
  <2>3. serial[n] \in -1..3 /\ serial'[n] = IF serial[n] = -1 THEN 0 ELSE (serial[n] + 1) % 4
    BY <2>2 DEF NamesInv, Types
  <2> QED
    BY <2>2, <2>3
<1> QED
  BY <1>1, InitNames, NextNames, PTL DEF UdSpec, CreationsDiffer
=============================================================================
