----------------------------- MODULE EiMessages -----------------------------
(* Messages over an established connection of a C node (eirecv.c, send*.c,   *)
(* ei_portio.c, the second half of ei_connect.c, erl_connect.c, global_*.c): *)
(* a program receives, sends, makes remote calls and registers global names; *)
(* the Erlang node at the other end is external.                             *)
(*                                                                           *)
(* A message travels as chunks, as the program reads it: its length, its     *)
(* header with what follows up to EIRECVBUF bytes, and the rest.  A tick is  *)
(* a length of zero.  Chunks arrive one by one.                              *)
EXTENDS Nil, Integers, FiniteSets, Sequences, SequencesExt

CONSTANTS
    Mail,       \* messages the node sends of its own accord: kind, size, traced
                \* "small" fits a static buffer, "long" does not, "huge" is more
                \* than EIRECVBUF
    MaxSent,    \* bound on messages and ticks of the node
    MaxRequests,\* bound on calls of the program
    Known,      \* put_ei_socket_info has stored the connection
    MFaults     \* "memory", "close"

ASSUME MessageConstants ==
    /\ Mail \subseteq {"send", "reg_send", "link", "unlink", "exit", "other"}
                     \X {"small", "long", "huge"} \X BOOLEAN
    /\ MaxSent \in Nat /\ MaxRequests \in Nat /\ Known \in BOOLEAN
    /\ NULL \notin {"answer", "registered", "unregistered", "found", "names", "sent"}

VARIABLES
    wire,       \* chunks the node has written and that have not arrived
    stream,     \* chunks that have arrived and have not been read
    up,         \* the connection is up
    req,        \* the call in progress
    tracing,    \* the token of the last message is passed on
    out,        \* tocks the program has written, and whether its last message had a token
    pending,    \* remote calls the node has not answered
    slipped,    \* a read stopped in the middle of a message
    ticks,      \* ticks read
    done,       \* calls made
    sent        \* messages and ticks sent by the node

mvars == <<wire, stream, up, req, tracing, out, pending, slipped, ticks, done, sent>>
nodevars == <<wire, pending, sent>>

Tick == [kind |-> "tick", size |-> "small", traced |-> FALSE, answers |-> 0, ok |-> FALSE]

Chunks(m) ==
    IF m = Tick THEN << <<"len", m>> >>
    ELSE << <<"len", m>>, <<"head", m>> >> \o (IF m.size = "huge" THEN << <<"rest", m>> >> ELSE <<>>)

NoReq(ret, msg) == [op |-> "none", pc |-> "idle", static |-> FALSE, timed |-> FALSE,
                    id |-> 0, need |-> FALSE, msg |-> msg, ret |-> ret]

-----------------------------------------------------------------------------
(* Reading. *)

\* A read stops at the end of the stream and when the time is up; what has been
\* read before is lost.
ei_read_fill_t == stream = <<>> /\ (req.timed \/ (~up /\ wire = <<>>))

\* What becomes of the call when ei_recv_internal returns res.  Ticks keep a
\* remote call and the functions of global waiting; these also wait once for
\* the node to link the process.  A remote call takes the first message for its
\* answer.
ei_rpc(c, res, m) ==
    IF res = "tick" THEN [c EXCEPT !.pc = "len"]
    ELSE IF res = "error" THEN NoReq("error", NULL) ELSE NoReq("answer", m)

erl_global_register(c, res, m) ==
    IF res = "tick" THEN [c EXCEPT !.pc = "len"]
    ELSE IF res = "link" /\ c.need THEN [c EXCEPT !.pc = "len", !.need = FALSE]
    ELSE IF res = "send" /\ m.ok THEN NoReq("registered", m) ELSE NoReq("error", NULL)

erl_global_whereis(c, res, m) ==
    IF res = "tick" THEN [c EXCEPT !.pc = "len"]
    ELSE IF res = "send" /\ m.ok THEN NoReq("found", m) ELSE NoReq("error", NULL)

erl_global_names(c, res, m) ==
    IF res = "tick" THEN [c EXCEPT !.pc = "len"]
    ELSE IF res = "send" /\ m.ok THEN NoReq("names", m) ELSE NoReq("error", NULL)

erl_global_unregister(c, res, m) ==
    IF res = "tick" THEN [c EXCEPT !.pc = "len"]
    ELSE IF res = "unlink" /\ c.need THEN [c EXCEPT !.pc = "len", !.need = FALSE]
    ELSE IF res = "send" /\ m.ok THEN NoReq("unregistered", m) ELSE NoReq("error", NULL)

\* A type that is not known is an error.
ei_do_receive_msg(c, res, m) ==
    IF res = "other" THEN NoReq("error", NULL) ELSE NoReq(res, m)

After(res, m) ==
    CASE req.op = "rpc" -> ei_rpc(req, IF res = "other" THEN "error" ELSE res, m)
      [] req.op = "register" -> erl_global_register(req, res, m)
      [] req.op = "unregister" -> erl_global_unregister(req, res, m)
      [] req.op = "whereis" -> erl_global_whereis(req, res, m)
      [] req.op = "names" -> erl_global_names(req, res, m)
      [] OTHER -> ei_do_receive_msg(req, res, m)

Taken(part) == stream # <<>> /\ Head(stream)[1] = part /\ stream' = Tail(stream)

\* A read has failed at a point pc of the message.
RecvFails(pc) ==
    /\ req.pc = pc /\ ei_read_fill_t
    /\ req' = After("error", NULL)
    /\ slipped' = (slipped \/ pc \notin {"len", "rawlen"})
    /\ UNCHANGED <<stream, tracing, ticks, out>>

\* A length that is none: the bytes of a message that was not read to its end.
\* The header is not one, and the call fails.
Garbage ==
    /\ req.pc \in {"len", "rawlen"} /\ stream # <<>> /\ Head(stream)[1] # "len"
    /\ stream' = Tail(stream)
    /\ req' = After("error", NULL)
    /\ slipped' = TRUE
    /\ UNCHANGED <<tracing, ticks, out>>

\* A tick is answered, whether or not the answer can be written.
Tock == [out EXCEPT !.tocks = @ + 1]

\* Mutation: the tracing of the last message goes on.
TokenStays == tracing

\* The message that comes ends the tracing of the last one.
NoToken == FALSE

\* The first four bytes.
ReadLength ==
    /\ req.pc = "len" /\ Taken("len")
    /\ LET m == Head(stream)[2]
       IN  IF m = Tick
           THEN out' = Tock /\ ticks' = ticks + 1 /\ req' = After("tick", NULL) /\ UNCHANGED tracing
           ELSE tracing' = NoToken /\ req' = [req EXCEPT !.pc = "head"] /\ UNCHANGED <<ticks, out>>
    /\ UNCHANGED slipped

\* Mutation: what does not fit is left in the stream.
AfterHeaderLeaves(m) ==
    IF m.size # "small" /\ req.static THEN After("error", NULL)
    ELSE IF m.size = "huge" THEN [req EXCEPT !.pc = "rest"] ELSE After(m.kind, m)

\* A message too long for a static buffer is read to its end and dropped.
AfterHeader(m) ==
    IF m.size # "small" /\ req.static
    THEN IF m.size = "huge" THEN [req EXCEPT !.pc = "drain"] ELSE After("error", NULL)
    ELSE IF m.size = "huge" THEN [req EXCEPT !.pc = "rest"] ELSE After(m.kind, m)

\* The header is decoded; a dynamic buffer grows, when there is memory.
ReadHeader ==
    /\ req.pc = "head" /\ Taken("head")
    /\ LET m == Head(stream)[2]
       IN  /\ tracing' = (tracing \/ m.traced)
           /\ \/ req' = AfterHeader(m) /\ UNCHANGED slipped
              \/ /\ "memory" \in MFaults /\ m.size # "small" /\ ~req.static
                 /\ req' = After("error", NULL)
                 /\ slipped' = (slipped \/ m.size = "huge")
    /\ UNCHANGED <<ticks, out>>

ReadRest ==
    /\ req.pc \in {"rest", "drain"} /\ Taken("rest")
    /\ LET m == Head(stream)[2]
       IN  req' = IF req.pc = "rest" THEN After(m.kind, m) ELSE After("error", NULL)
    /\ UNCHANGED <<tracing, slipped, ticks, out>>

\* All of it: a message is received into the caller's buffer or for a call.
ei_recv_internal ==
    /\ \/ ReadLength \/ ReadHeader \/ ReadRest \/ Garbage
       \/ \E pc \in {"len", "head", "rest", "drain"} : RecvFails(pc)
    /\ UNCHANGED <<nodevars, up, done>>

\* The raw form: a message too long for the buffer is left where it is.
ei_receive_tmo ==
    /\ \/ /\ req.pc = "rawlen" /\ Taken("len")
          /\ LET m == Head(stream)[2]
             IN  IF m = Tick
                 THEN out' = Tock /\ ticks' = ticks + 1 /\ req' = NoReq("tick", NULL) /\ UNCHANGED slipped
                 ELSE /\ req' = IF m.size = "small" THEN [req EXCEPT !.pc = "rawhead"]
                                ELSE NoReq("error", NULL)
                      /\ slipped' = (slipped \/ m.size # "small") /\ UNCHANGED <<ticks, out>>
          /\ UNCHANGED tracing
       \/ /\ req.pc = "rawhead" /\ Taken("head")
          /\ req' = NoReq(Head(stream)[2].kind, NULL)
          /\ UNCHANGED <<tracing, slipped, ticks, out>>
       \/ \E pc \in {"rawlen", "rawhead"} : RecvFails(pc)
    /\ UNCHANGED <<nodevars, up, done>>

-----------------------------------------------------------------------------
(* Calls of the program. *)

Starts(op, pc, static, timed) ==
    /\ req.pc = "idle" /\ done < MaxRequests /\ done' = done + 1
    /\ req' = [NoReq(NULL, NULL) EXCEPT !.op = op, !.pc = pc, !.static = static,
                   !.timed = timed, !.id = done + 1, !.need = TRUE]
    /\ UNCHANGED <<wire, stream, tracing, slipped, ticks, sent>>

ei_receive_msg_tmo ==
    /\ \E static \in BOOLEAN, timed \in BOOLEAN : Starts("receive", "len", static, timed)
    /\ UNCHANGED <<up, out, pending>>

ei_receive ==
    /\ \E timed \in BOOLEAN : Starts("raw", "rawlen", TRUE, timed)
    /\ UNCHANGED <<up, out, pending>>

\* The token goes with what is sent, on a connection of a known version.
Written == [out EXCEPT !.token = tracing /\ Known]

Writes(ret) ==
    /\ req.pc = "idle"
    /\ out' = IF up THEN Written ELSE out
    /\ req' = NoReq(ret, NULL)
    /\ UNCHANGED <<wire, stream, up, tracing, pending, slipped, ticks, done, sent>>

\* The caller is told when the message could not be written.
ei_send_encoded_tmo == Writes(IF up THEN "sent" ELSE "error")

ei_send_reg_encoded_tmo == Writes(IF up THEN "sent" ELSE "error")

\* An exit signal counts as sent in every case.
ei_send_exit_tmo == Writes("sent")

\* A call is sent to rex; whether that succeeds is not looked at.
ei_rpc_to(id) ==
    /\ out' = IF up THEN Written ELSE out
    /\ pending' = IF up THEN Append(pending, id) ELSE pending

\* A remote call waits for its answer for ever; the two halves called by the
\* program itself leave the answer to a later call when the time is up.
RemoteCall ==
    /\ \/ Starts("rpc", "len", FALSE, FALSE)
       \/ Starts("rpc", "select", FALSE, FALSE)
    /\ ei_rpc_to(done + 1)
    /\ UNCHANGED up

\* Something has come, and the message is then read without a limit.
ei_rpc_from ==
    /\ req.pc = "select"
    /\ \/ stream # <<>> /\ req' = [req EXCEPT !.pc = "len"]
       \/ ~up /\ stream = <<>> /\ req' = NoReq("error", NULL)
       \/ up /\ stream = <<>> /\ req' = NoReq("timeout", NULL)
    /\ UNCHANGED <<wire, stream, up, tracing, out, pending, slipped, ticks, done, sent>>

Global ==
    /\ up
    /\ \E op \in {"register", "unregister", "whereis", "names"} : Starts(op, "len", TRUE, FALSE)
    /\ ei_rpc_to(done + 1)
    /\ UNCHANGED up

-----------------------------------------------------------------------------
(* The node. *)

NodeSends(m) == wire' = wire \o Chunks(m) /\ sent' = sent + 1

\* Messages of processes that know the program.
NodeMessage ==
    /\ up /\ sent < MaxSent
    /\ \/ NodeSends(Tick)
       \/ \E m \in Mail :
            NodeSends([kind |-> m[1], size |-> m[2], traced |-> m[3], answers |-> 0, ok |-> FALSE])
    /\ UNCHANGED <<stream, up, req, tracing, out, pending, slipped, ticks, done>>

\* Calls run in processes of their own and are answered in any order.  Global
\* may link the process that it registers first, or unlink it.
NodeAnswers ==
    /\ up /\ pending # <<>>
    /\ \E i \in DOMAIN pending, ok \in BOOLEAN, link \in BOOLEAN :
         LET m == [kind |-> "send", size |-> "small", traced |-> FALSE,
                   answers |-> pending[i], ok |-> ok]
             l == [m EXCEPT !.kind = IF req.op = "register" THEN "link" ELSE "unlink",
                            !.answers = 0, !.ok = FALSE]
         IN  /\ link => ok /\ req.op \in {"register", "unregister"}
             /\ wire' = wire \o (IF link THEN Chunks(l) ELSE <<>>) \o Chunks(m)
             /\ pending' = RemoveAt(pending, i)
    /\ UNCHANGED <<stream, up, req, tracing, out, slipped, ticks, done, sent>>

Arrive ==
    /\ up /\ wire # <<>>
    /\ stream' = Append(stream, Head(wire)) /\ wire' = Tail(wire)
    /\ UNCHANGED <<up, req, tracing, out, pending, slipped, ticks, done, sent>>

\* What has arrived can still be read.
Close ==
    /\ "close" \in MFaults /\ up
    /\ up' = FALSE /\ wire' = <<>> /\ pending' = <<>>
    /\ UNCHANGED <<stream, req, tracing, out, slipped, ticks, done, sent>>

-----------------------------------------------------------------------------

MInit ==
    /\ wire = <<>> /\ stream = <<>> /\ up = TRUE /\ req = NoReq(NULL, NULL)
    /\ tracing = FALSE /\ out = [tocks |-> 0, token |-> FALSE] /\ pending = <<>> /\ slipped = FALSE
    /\ ticks = 0 /\ done = 0 /\ sent = 0

Reads == ei_recv_internal \/ ei_receive_tmo \/ ei_rpc_from

MNext ==
    \/ ei_receive_msg_tmo \/ ei_receive \/ RemoteCall \/ Global
    \/ ei_send_encoded_tmo \/ ei_send_reg_encoded_tmo \/ ei_send_exit_tmo
    \/ Reads \/ NodeMessage \/ NodeAnswers \/ Arrive \/ Close

\* When Reads is enabled.
CanRead == req.pc # "idle" /\ (req.pc = "select" \/ stream # <<>> \/ ei_read_fill_t)

\* A program in a call runs on; the node answers, and what it writes arrives:
\* weak fairness of Reads, NodeAnswers and Arrive.
MFairness ==
    /\ []<>~CanRead \/ []<><<Reads>>_mvars
    /\ []<>(~up \/ pending = <<>>) \/ []<><<NodeAnswers>>_mvars
    /\ []<>(~up \/ wire = <<>>) \/ []<><<Arrive>>_mvars

MSpec == MInit /\ [][MNext]_mvars /\ MFairness

-----------------------------------------------------------------------------
(* Properties. *)

MTypeOK ==
    /\ \A i \in DOMAIN stream : stream[i][1] \in {"len", "head", "rest"}
    /\ req.pc \in {"idle", "len", "head", "rest", "drain", "rawlen", "rawhead", "select"}
    /\ {up, tracing, slipped} \subseteq BOOLEAN
    /\ pending \in Seq(1..MaxRequests) /\ IsInjective(pending)
    /\ done \in 0..MaxRequests /\ sent \in 0..MaxSent /\ ticks \in 0..MaxSent

\* Between two calls the stream is at the beginning of a message, whatever was
\* received, dropped or refused, unless a read stopped in the middle of one for
\* lack of time or memory or ei_receive found a message too long.
AtBoundary ==
    req.pc = "idle" /\ ~slipped /\ stream # <<>> => Head(stream)[1] = "len"

\* Every tick that is read is answered, by whatever function read it.
TicksAnswered == out.tocks = ticks

\* A call that has not been abandoned, on a connection that carries nothing else,
\* returns the answer to itself and not that to an earlier one (ei_rpc, global).
OwnAnswers ==
    sent = 0 /\ ~slipped /\ req.ret \in {"answer", "registered", "unregistered", "found", "names"} /\ done = 1 =>
        req.msg.answers = done /\ (req.ret # "answer" => req.msg.ok)

\* What is sent after a message has been received carries a token just when that
\* message did, however many were traced before it (ei_trace).
TokensPassedOn ==
    [][up /\ req'.ret = "sent" /\ req.msg # NULL =>
          out'.token = (req.msg.traced /\ Known)]_mvars

\* A remote call returns when the node answers or the connection is lost.
RpcReturns == req.op \in {"rpc", "register", "unregister", "whereis", "names"} ~> req.pc = "idle"

\* However calls and messages interleave, the reader stays in step with the stream,
\* answers every tick, and tells its answer from others (eirecv.c, ei_rpc).
MessagesSound == MTypeOK /\ AtBoundary /\ TicksAnswered /\ OwnAnswers

=============================================================================
