---------------------------- MODULE OdbcControl ----------------------------
(* The control process of a connection of the odbc application (odbc.erl):   *)
(* a gen_server between the process that owns the connection and the port    *)
(* program.  Its clients wait without a limit; a limit that a client gives   *)
(* is a timeout of the gen_server, which any message that comes cancels.     *)
EXTENDS OdbcServer

CONSTANTS
    Menus,      \* a sequence of sets of requests: the owner of a connection draws from one of them
    MaxCalls,   \* bound on calls of the owner
    MAX_SEQ_TIMEOUTS,
    Strangers,  \* bound on calls of processes that do not own the connection
    Intrude,    \* these may come while a call of the owner is in progress
    OwnerDies   \* the owner may die

ASSUME MenusAssumption ==
    \A i \in DOMAIN Menus : \A r \in Menus[i] : "id" \in DOMAIN r

VARIABLES
    ctl,        \* the state of the control process
    box,        \* its mailbox
    cl,         \* the owner: its call, and the answer to the last one
    menu,       \* which of the sets
    strange     \* calls of others so far

cvars == <<ctl, box, cl, menu, strange>>
allvars == <<pvars, cvars>>

\* reply_to is the number of a call, or nobody, or says that the answer to come
\* is thrown away.
UNDEFINED == 0
SKIP == -1

InitialCtl ==
    [state |-> "connecting", reply_to |-> UNDEFINED, pending |-> NULL, timeouts |-> 0, timer |-> FALSE,
     auto |-> TRUE, scroll |-> FALSE, able |-> FALSE, result |-> FALSE, active |-> FALSE, told |-> FALSE]

Alive == ctl.state \notin {"stopped", "bad_return"}

\* An answer to the call with this number; got is the request that it answers.
reply(c, id, what, got) == IF c.pc = "waiting" /\ c.id = id THEN [c EXCEPT !.pc = "idle", !.ret = what, !.got = got] ELSE c

\* The process ends: a client that it owes an answer gets an error from it or,
\* as its monitor finds, from gen_server:call, and the sockets are closed.
Terminated(c) == IF c.pc = "waiting" THEN [c EXCEPT !.pc = "idle", !.ret = "closed", !.got = NULL] ELSE c

\* The port program is told to shut down, unless it has ended or the process is
\* to answer the atom skip, which it does not survive.
terminate(how, next) ==
    /\ ctl' = [ctl EXCEPT !.state = next, !.timer = FALSE, !.reply_to = UNDEFINED, !.pending = NULL]
    /\ cl' = Terminated(cl)
    /\ fromC' = NULL
    /\ toSup' = IF how \in {"port_exit", "bad_return"} THEN "closed" ELSE "shutdown"
    /\ UNCHANGED <<toC, ports>>

\* A request goes to the port program, and its socket may deliver one answer.
odbc_send(call, c) ==
    /\ toC' = Append(toC, call)
    /\ ctl' = [c EXCEPT !.timer = call.timed, !.active = TRUE]
    /\ UNCHANGED <<cl, fromC, toSup, ports>>

\* An answer of the process itself.  Where the result is that of handle_info,
\* a reply is no result that a gen_server knows.
Answers(call, c, what, info) ==
    IF info THEN terminate("bad_return", "bad_return")
    ELSE /\ cl' = reply(cl, call.id, what, NULL)
         /\ ctl' = [c EXCEPT !.reply_to = UNDEFINED, !.timer = FALSE]
         /\ UNCHANGED <<toC, fromC, toSup, ports>>

\* The request call is handled, in handle_call or, when it had to wait, in
\* handle_info.  A connection is made in two steps.
handle_msg(call, c, info) ==
    CASE call.op = "connect" ->
           /\ ports' = TRUE
           /\ ctl' = [c EXCEPT !.state = "accepting", !.auto = call.auto = ON, !.scroll = call.scroll = ON]
           /\ UNCHANGED <<cl, toC, fromC, toSup>>
      [] call.op = "close" -> odbc_send(call, [c EXCEPT !.state = "disconnecting"])
      [] call.op = "commit" -> IF c.auto THEN Answers(call, c, "error", info) ELSE odbc_send(call, c)
      [] call.op \in {"query", "param", "describe"} -> odbc_send(call, [c EXCEPT !.result = FALSE])
      [] call.op = "count" -> odbc_send(call, [c EXCEPT !.result = TRUE])
      [] OTHER -> IF c.result /\ (call.how = "next" \/ c.able) THEN odbc_send(call, c)
                  ELSE Answers(call, c, "error", info)

Receive(kind) == Alive /\ ctl.state # "accepting" /\ box # <<>> /\ Head(box).kind = kind /\ box' = Tail(box)

\* The owner has at most one call: when there is an answer to throw away, it
\* waits, and after too many of these the process stops.
handle_call ==
    /\ Receive("call")
    /\ LET call == Head(box).call
       IN  IF call.id = 0
           THEN ctl' = [ctl EXCEPT !.reply_to = UNDEFINED, !.timer = FALSE] /\ UNCHANGED <<cl, toC, fromC, toSup, ports>>
           ELSE IF ctl.reply_to = UNDEFINED THEN handle_msg(call, [ctl EXCEPT !.reply_to = call.id], FALSE)
           ELSE IF ctl.timeouts < MAX_SEQ_TIMEOUTS
           THEN ctl' = [ctl EXCEPT !.pending = call, !.timer = call.timed] /\ UNCHANGED <<cl, toC, fromC, toSup, ports>>
           ELSE terminate("too_many_sequential_timeouts", "stopped")
    /\ UNCHANGED <<state, threads, menu, strange>>

\* Both sockets are accepted within five seconds each, or the process stops.
Accept ==
    /\ ctl.state = "accepting"
    /\ \/ /\ threads.main \notin {"stdin", "spawn", "connect"} /\ threads.sup = "receive" /\ Running
          /\ odbc_send(cl.call, [ctl EXCEPT !.state = "connecting"])
       \/ ~Running /\ terminate("accept", "stopped")
    /\ UNCHANGED <<state, threads, box, menu, strange>>

\* Mutation: an answer that comes late is taken for that of the request that waits.
TcpToPending(m) ==
    IF ctl.reply_to = UNDEFINED THEN terminate("function_clause", "stopped")
    ELSE /\ cl' = reply(cl, IF ctl.pending = NULL THEN ctl.reply_to ELSE ctl.pending.id, m.tag, m.id)
         /\ ctl' = [ctl EXCEPT !.reply_to = UNDEFINED, !.pending = NULL, !.timeouts = 0, !.timer = FALSE]
         /\ UNCHANGED <<toC, fromC, toSup, ports>>

\* An answer when connected: for the client that waits, or to be thrown away
\* and the request that waits to be handled.
Tcp(m) ==
    IF ctl.reply_to = SKIP
    THEN IF ctl.pending = NULL
         THEN /\ ctl' = [ctl EXCEPT !.reply_to = UNDEFINED, !.timer = FALSE]
              /\ UNCHANGED <<cl, toC, fromC, toSup, ports>>
         ELSE handle_msg(ctl.pending, [ctl EXCEPT !.pending = NULL, !.reply_to = ctl.pending.id], TRUE)
    ELSE IF ctl.reply_to = UNDEFINED THEN terminate("function_clause", "stopped")
    ELSE /\ cl' = reply(cl, ctl.reply_to, m.tag, m.id)
         /\ ctl' = [ctl EXCEPT !.reply_to = UNDEFINED, !.timeouts = 0, !.timer = FALSE]
         /\ UNCHANGED <<toC, fromC, toSup, ports>>

\* A connection that could not be made, or one that is closed, ends the process.
Stops(id, what, got) ==
    /\ cl' = reply(cl, id, what, got)
    /\ ctl' = [ctl EXCEPT !.state = "stopped", !.pending = NULL, !.reply_to = UNDEFINED, !.timer = FALSE]
    /\ fromC' = NULL /\ toSup' = "shutdown" /\ UNCHANGED <<toC, ports>>

handle_tcp ==
    /\ Receive("tcp")
    /\ LET m == Head(box).msg
       IN  CASE ctl.state = "connecting" ->
                  IF m.tag = "connected"
                  THEN /\ cl' = reply(cl, ctl.reply_to, "ok", m.id)
                       /\ ctl' = [ctl EXCEPT !.state = "connected", !.able = m.rows = <<1>>,
                                             !.reply_to = UNDEFINED, !.timer = FALSE]
                       /\ UNCHANGED <<toC, fromC, toSup, ports>>
                  ELSE Stops(ctl.reply_to, m.tag, m.id)
             [] ctl.state = "connected" -> Tcp(m)
             [] OTHER -> Stops(ctl.reply_to, "ok", NULL)
    /\ UNCHANGED <<state, threads, menu, strange>>

\* No message has come in time.
handle_timeout ==
    /\ Alive /\ ctl.timer /\ box = <<>>
    /\ \/ /\ ctl.state \in {"connecting", "disconnecting"} /\ ctl.reply_to # UNDEFINED
          /\ Stops(ctl.reply_to, IF ctl.state = "connecting" THEN "timeout" ELSE "ok", NULL)
       \/ /\ ctl.state = "connected" /\ ctl.pending = NULL /\ ctl.reply_to # UNDEFINED
          /\ cl' = reply(cl, ctl.reply_to, "timeout", NULL)
          /\ ctl' = [ctl EXCEPT !.reply_to = SKIP, !.timeouts = @ + 1, !.timer = FALSE]
          /\ UNCHANGED <<toC, fromC, toSup, ports>>
       \/ /\ ctl.state = "connected" /\ ctl.pending # NULL
          /\ IF ctl.pending.op = "close" THEN Stops(ctl.pending.id, "ok", NULL)
             ELSE /\ cl' = reply(cl, ctl.pending.id, "timeout", NULL)
                  /\ ctl' = [ctl EXCEPT !.pending = NULL, !.timeouts = @ + 1, !.timer = FALSE]
                  /\ UNCHANGED <<toC, fromC, toSup, ports>>
    /\ UNCHANGED <<state, threads, box, menu, strange>>

\* The port program has ended; a normal end is expected after a disconnect.
handle_exit ==
    /\ Receive("exit")
    /\ IF ctl.state = "disconnecting" /\ Head(box).status = "SUCCESS"
       THEN ctl' = [ctl EXCEPT !.timer = FALSE] /\ UNCHANGED <<cl, toC, fromC, toSup, ports>>
       ELSE terminate("port_exit", "stopped")
    /\ UNCHANGED <<state, threads, menu, strange>>

handle_down ==
    /\ Receive("down") /\ terminate("down", "stopped")
    /\ UNCHANGED <<state, threads, menu, strange>>

\* The end of a socket, like any other message, is only reported.
handle_info ==
    /\ Receive("tcp_closed") /\ ctl' = [ctl EXCEPT !.timer = FALSE]
    /\ UNCHANGED <<cl, pvars, menu, strange>>

-----------------------------------------------------------------------------
(* Messages to the control process, and its clients. *)

\* What comes on the socket is delivered when it has been asked for.
Deliver ==
    /\ Alive /\ ctl.active
    /\ \/ fromC # <<>> /\ box' = Append(box, [kind |-> "tcp", msg |-> Head(fromC)]) /\ fromC' = Tail(fromC)
       \/ fromC = <<>> /\ ~Running /\ box' = Append(box, [kind |-> "tcp_closed"]) /\ UNCHANGED fromC
    /\ ctl' = [ctl EXCEPT !.active = FALSE]
    /\ UNCHANGED <<state, threads, toC, toSup, ports, cl, menu, strange>>

PortExits ==
    /\ Alive /\ ~Running /\ ~ctl.told
    /\ box' = Append(box, [kind |-> "exit", status |-> threads.exit])
    /\ ctl' = [ctl EXCEPT !.told = TRUE]
    /\ UNCHANGED <<pvars, cl, menu, strange>>

\* The owner connects first and then asks what it likes, one call at a time.
OwnerCalls ==
    /\ cl.pc = "idle" /\ cl.id < MaxCalls
    /\ \E r \in Menus[menu] :
         LET call == [r EXCEPT !.id = cl.id + 1]
         IN  /\ (r.op = "connect") <=> (cl.id = 0)
             /\ box' = IF Alive THEN Append(box, [kind |-> "call", call |-> call]) ELSE box
             /\ cl' = [pc |-> IF Alive THEN "waiting" ELSE "idle", id |-> cl.id + 1, call |-> call,
                       ret |-> IF Alive THEN NULL ELSE "closed", got |-> NULL]
    /\ UNCHANGED <<pvars, ctl, menu, strange>>

StrangerCalls ==
    /\ strange < Strangers /\ Alive /\ strange' = strange + 1
    /\ Intrude \/ (cl.pc = "idle" /\ ctl.reply_to = UNDEFINED)
    /\ box' = Append(box, [kind |-> "call", call |-> [id |-> 0]])
    /\ UNCHANGED <<pvars, ctl, cl, menu>>

Down ==
    /\ OwnerDies /\ Alive /\ cl.pc # "dead"
    /\ cl' = [cl EXCEPT !.pc = "dead"] /\ box' = Append(box, [kind |-> "down"])
    /\ UNCHANGED <<pvars, ctl, menu, strange>>

CInit ==
    /\ PInit /\ ctl = InitialCtl /\ box = <<>> /\ menu \in DOMAIN Menus /\ strange = 0
    /\ cl = [pc |-> "idle", id |-> 0, call |-> NULL, ret |-> NULL, got |-> NULL]

Control ==
    handle_call \/ handle_tcp \/ handle_timeout \/ handle_exit \/ handle_down \/ handle_info
    \/ Deliver \/ PortExits \/ Accept

Program(A) == A /\ UNCHANGED cvars

CNext == Program(PNext) \/ Control \/ OwnerCalls \/ StrangerCalls \/ Down

\* Processes and threads run; a driver may still not return.
CSpec ==
    /\ CInit /\ [][CNext]_allvars
    /\ WF_allvars(Control) /\ WF_allvars(Program(Communicate)) /\ WF_threads(Handles)

-----------------------------------------------------------------------------
(* Properties. *)

OTypeOK ==
    /\ state.live \in Nat /\ state.ncols \in Nat
    /\ {state.env, state.dbc, state.stmt, state.assoc, state.param, state.out, state.more} \subseteq BOOLEAN
    /\ threads.main \in {"stdin", "spawn", "connect", "receive", "handle", "send", "stuck", "end"}
    /\ threads.sup \in {"unborn", "connect", "receive"}
    /\ ctl.state \in {"connecting", "accepting", "connected", "disconnecting", "stopped", "bad_return"}
    /\ ctl.timeouts \in 0..MaxCalls /\ Len(toC) <= 1 /\ cl.id \in 0..MaxCalls

\* Between requests the driver has no statement but the one whose result set is
\* associated with the connection, whatever failed before (clean_state).
StatementsFreed ==
    Running /\ threads.main \in {"receive", "send"} =>
        /\ state.live = (IF state.stmt THEN 1 ELSE 0)
        /\ state.stmt => state.assoc /\ state.columns # NULL
        /\ ~state.stmt => state.columns = NULL

\* A number that a database sends fits the variable that its column is bound
\* to: the digits of a 32-bit integer, those that a double keeps, and a string
\* with sign, point and end (map_dec_num_2_c_column).
DecimalsFit ==
    state.stmt /\ state.columns # NULL /\ state.columns # <<>> =>
        \A i \in DOMAIN state.columns :
            LET col == Head(state.results).cols[i]
                bound == state.columns[i]
            IN  bound.buffer /\ col.sql \in {"NUMERIC", "DECIMAL"} =>
                    \/ bound.c = "SLONG" /\ col.digits = 0 /\ col.size < 10
                    \/ bound.c = "DOUBLE" /\ col.size <= 15
                    \/ bound.c = "CHAR" /\ bound.len >= col.size + 3

\* The rows of a fetch are those from the one it begins with, in order, as far
\* as the result set goes; the next fetch goes on from the last of them.
Expected(cursor, size, r) ==
    LET first == IF r.how = "last" THEN size ELSE FetchScroll(cursor, size, r.how, r.offset)
        n == IF r.how \in {"first", "last", "prev"} \/ first \notin 1..size THEN 1 ELSE r.n
    IN  SelectSeq([i \in 1..n |-> first + i - 1], LAMBDA i : i \in 1..size)

RowsInOrder ==
    [][threads.main = "handle" /\ threads'.main = "send" /\ Head(toC).op = "select" /\ state.stmt
         /\ state'.msg = "answer" /\ NULL \notin {state'.rows[i] : i \in DOMAIN state'.rows}
         => state'.rows = Expected(state.cursor, Head(state.results).rows, Head(toC))]_allvars

\* A select whose count has failed or had no columns, and a query without
\* parameters that go out, after one with them, when rows are lists.
NoColumns ==
    \/ Head(toC).op = "select" /\ state.ncols = 0
    \/ Head(toC).op = "param" /\ state.out /\ num_out_params(Head(toC).params) = 0 /\ ~state.tuple

\* An answer of the port program is one complete term and no more, but for one
\* that has a column without a length, which lacks its name, and for one with a
\* list of no columns: the header of a list without elements is a whole list
\* already, and its tail is one too many.
AnswersComplete ==
    Running /\ threads.main = "send" /\ state.msg = "answer" /\ ~state.unsized /\ ~NoColumns =>
        state.need = 0

\* As odbcserver.c:53-57 describes the protocol, every answer is one term.
TermsSent == Running /\ threads.main = "send" => state.need = 0

\* A client gets the answer to its own request, however many before it took too
\* long (pending_request, skip in odbc.erl).
AnswersOwn == cl.got # NULL => cl.got = cl.id

\* A request that had to wait is handled as any other is.
PendingHandled == ctl.state # "bad_return"

\* A call with a limit ends, whatever the driver does.
CallsEnd == cl.pc = "waiting" /\ cl.call.timed ~> cl.pc # "waiting"

\* When the control process has stopped, so does the port program, even one that
\* hangs in the driver (supervise).
HungStopped == ~Alive ~> ~Running

\* Whatever fails in the driver, times out or comes late: the port program keeps no
\* statement it does not need and binds columns to variables that hold them, and its
\* answers are whole (odbcserver.c).
OdbcSound == OTypeOK /\ StatementsFreed /\ DecimalsFit /\ AnswersComplete

\* A call with a limit ends, a port program whose control process is gone ends too,
\* and rows come in the order of the result set.
OdbcPromise == RowsInOrder /\ CallsEnd /\ HungStopped

=============================================================================
