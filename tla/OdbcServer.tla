----------------------------- MODULE OdbcServer -----------------------------
(* The port program of the odbc application (odbcserver.c): a thread that    *)
(* serves one request after the other with an ODBC driver, and a thread that *)
(* stops the program when the control process says so or goes away.          *)
(*                                                                           *)
(* The driver and the database are external: a request meets one of the      *)
(* outcomes that its menu lists, with at most one call of the driver that    *)
(* fails.  A term is built in a buffer piece by piece; of the buffer it is   *)
(* kept how many terms are still to come (need).                             *)
EXTENDS Nil, Integers, Sequences, FiniteSets, SequencesExt

CONSTANTS
    DFaults,    \* calls of the driver that may fail, as EXIT_* names them
    PFaults     \* of the program: "thread", "connect"

VARIABLES
    state,      \* db_state of database_handler, and what the driver keeps for it
    threads,    \* where the two threads are, and the status the program ended with
    toC,        \* requests on the socket of the database handler
    fromC,      \* answers on it; NULL when the control process has closed its sockets
    toSup,      \* what the supervisor's socket carries: NULL, "shutdown", "closed"
    ports       \* the numbers of the sockets have been written to the port

pvars == <<state, threads, toC, fromC, toSup, ports>>

ON == 1
OFF == 2

InitialState ==
    [env |-> FALSE, dbc |-> FALSE, stmt |-> FALSE, live |-> 0,
     columns |-> NULL, ncols |-> 0, assoc |-> FALSE, scroll |-> FALSE, tuple |-> FALSE,
     binary |-> FALSE, more |-> FALSE, param |-> FALSE, out |-> FALSE,
     results |-> <<>>, cursor |-> 0, fault |-> NULL, batch |-> FALSE,
     msg |-> NULL, need |-> 0, unsized |-> FALSE, rows |-> <<>>, exit |-> NULL]

\* DO_EXIT ends the program; what would follow in the handler does not happen.
\* Nor does it after a message other than the empty one has been returned.
DoExit(s, code) == [s EXCEPT !.exit = code]
Over(s) == s.exit # NULL \/ s.msg # NULL

encode_empty_message(s) == [s EXCEPT !.msg = NULL, !.need = 0, !.unsized = FALSE, !.rows = <<>>]
encode_error_message(s) == IF s.exit # NULL THEN s ELSE [s EXCEPT !.msg = "error", !.need = 0]
encode_atom_message(s, atom) == IF Over(s) THEN s ELSE [s EXCEPT !.msg = atom, !.need = 0]
encode_row_count(s, n) ==
    IF Over(s) THEN s ELSE [s EXCEPT !.msg = "ok", !.need = 0, !.rows = IF n = -1 THEN <<>> ELSE <<n>>]

\* Terms put into the buffer (ei_x_encode_*): a header is one of the terms that
\* were to come and asks for as many as it says; a list also for its tail, and a
\* list header without elements is an empty list.
New(s) == IF Over(s) THEN s ELSE [s EXCEPT !.need = 1]
Put(s, n) == IF Over(s) THEN s ELSE [s EXCEPT !.need = @ + n]
Tuple(n) == n - 1
ListOf(n) == IF n = 0 THEN -1 ELSE n
Atom == -1

\* A call of the driver that fails ends the program with the code that names it.
Call(s, code) == IF ~Over(s) /\ s.fault = code THEN DoExit(s, code) ELSE s

-----------------------------------------------------------------------------
(* Columns. *)

map_dec_num_2_c_column(precision, scale) ==
    IF precision \in 0..9 /\ scale = 0 THEN [c |-> "SLONG", len |-> 4]
    ELSE IF (precision \in 10..15 /\ scale = 0) \/ (precision <= 15 /\ scale > 0)
         THEN [c |-> "DOUBLE", len |-> 8] ELSE [c |-> "CHAR", len |-> 50]

map_sql_2_c_column(col) ==
    CASE col.sql \in {"CHAR", "VARCHAR", "BINARY", "LONGVARCHAR", "VARBINARY", "LONGVARBINARY", "DATE", "TIME"} ->
           [c |-> "CHAR", len |-> (IF col.sql \in {"LONGVARCHAR", "LONGVARBINARY"} THEN 8001 ELSE col.size) + 1]
      [] col.sql \in {"WCHAR", "WVARCHAR"} -> [c |-> "WCHAR", len |-> 2 * (col.size + 1)]
      [] col.sql \in {"NUMERIC", "DECIMAL"} -> map_dec_num_2_c_column(col.size, col.digits)
      [] col.sql \in {"TINYINT", "INTEGER", "SMALLINT"} -> [c |-> "SLONG", len |-> 4]
      [] col.sql \in {"REAL", "FLOAT", "DOUBLE"} -> [c |-> "DOUBLE", len |-> 8]
      [] col.sql = "TIMESTAMP" -> [c |-> "TIMESTAMP", len |-> 16]
      [] col.sql = "BIGINT" -> [c |-> "CHAR", len |-> 50]
      [] col.sql = "BIT" -> [c |-> "BIT", len |-> 1]
      [] OTHER -> NULL

\* One term for a value, whatever its type; a column without a length is null.
encode_column_dyn(column) ==
    IF column.len > 0 /\ column.c = "TIMESTAMP"
    THEN Tuple(2) + Tuple(3) + 3 * Atom + Tuple(3) + 3 * Atom ELSE Atom

encode_data_type(col) ==
    CASE col.sql \in {"CHAR", "VARCHAR", "WCHAR", "WVARCHAR", "FLOAT"} -> Tuple(2) + 2 * Atom
      [] col.sql \in {"NUMERIC", "DECIMAL"} -> Tuple(3) + 3 * Atom
      [] OTHER -> Atom

Column(c, len, bound) == [c |-> c, len |-> len, buffer |-> bound]
NoColumn == Column(NULL, 0, FALSE)

alloc_column_buffer(s, n) ==
    IF Over(s) THEN s
    ELSE IF s.fault = "malloc" THEN DoExit(s, "ALLOC")
    ELSE [s EXCEPT !.columns = [i \in 1..n |-> NoColumn]]

free_column_buffer(s) == IF s.exit # NULL THEN s ELSE [s EXCEPT !.columns = NULL]

SumOf(q) == FoldLeft(LAMBDA a, b : a + b, 0, q)

\* The columns are described and bound to buffers, and their names become a
\* list; a column that has no length gets neither a buffer nor a name.
encode_column_name_list(s, n) ==
    LET cols == IF s.results = <<>> THEN <<>> ELSE Head(s.results).cols
        Bind(t, i) ==
            LET d == map_sql_2_c_column(cols[i])
                desc == Call(t, "DESC")
                bound == Call(desc, "BIND")
            IN  IF Over(desc) THEN desc
                ELSE IF d = NULL THEN encode_error_message(desc)
                ELSE IF d.len <= 0
                THEN [desc EXCEPT !.columns[i] = Column(d.c, 0, FALSE), !.unsized = TRUE]
                ELSE Put([bound EXCEPT !.columns[i] = Column(d.c, d.len, TRUE)], Atom)
    IN  Put(FoldLeft(Bind, Put(s, ListOf(n)), [i \in 1..n |-> i]), Atom)

Columns(s, n) == SumOf([i \in 1..n |-> encode_column_dyn(s.columns[i])])

\* A row: a list cell of the rows, and the columns in a tuple or a list.
Row(s, n) == ListOf(1) + (IF s.tuple THEN Tuple(n) ELSE ListOf(n) + Atom) + Columns(s, n)

\* All rows.  When a fetch fails, the loop fetches again for ever.
encode_value_list(s, n) ==
    IF Over(s) THEN s
    ELSE IF s.fault = "FETCH" THEN DoExit(s, "loops")
    ELSE LET rows == Head(s.results).rows
         IN  [Put(s, rows * Row(s, n) + Atom) EXCEPT !.rows = [i \in 1..rows |-> i]]

\* SQLFetchScroll of the driver: where the cursor is then; 0 and size + 1 are
\* outside of the result.
FetchScroll(cursor, size, orientation, offset) ==
    LET to == CASE orientation = "first" -> 1 [] orientation = "last" -> size
                [] orientation = "next" -> cursor + 1 [] orientation = "prev" -> cursor - 1
                [] orientation = "relative" -> cursor + offset [] OTHER -> offset
    IN  IF to < 1 THEN 0 ELSE IF to > size THEN size + 1 ELSE to

\* The offset of row j of a fetch.
Offset(j, orientation, offset) ==
    IF orientation = "absolute" THEN offset + j - 1
    ELSE IF orientation = "relative" /\ j > 1 THEN 1 ELSE offset

\* n rows, or those up to the end of the result.  Any other failure is taken for
\* a row.
encode_value_list_scroll(s, ncols, orientation, offset, n) ==
    LET size == IF s.stmt THEN Head(s.results).rows ELSE 0
        Fetch(a, j) ==
            LET to == FetchScroll(a.cursor, size, orientation, Offset(j, orientation, offset))
            IN  IF a.ended THEN a
                ELSE IF ~s.stmt \/ s.fault = "FETCH" THEN [a EXCEPT !.rows = Append(@, NULL)]
                ELSE [rows |-> IF to \in 1..size THEN Append(a.rows, to) ELSE a.rows,
                      cursor |-> to, ended |-> to \notin 1..size]
        all == FoldLeft(Fetch, [rows |-> <<>>, cursor |-> s.cursor, ended |-> FALSE], [j \in 1..n |-> j])
    IN  IF Over(s) THEN s
        ELSE [Put(s, Len(all.rows) * Row(s, ncols) + Atom)
                EXCEPT !.rows = all.rows, !.cursor = all.cursor]

-----------------------------------------------------------------------------
(* Statements. *)

\* Mutation: the statement is forgotten and not freed.
CleanForgets(s) ==
    LET t == free_column_buffer([Call(s, IF s.stmt THEN "FREE" ELSE "none") EXCEPT !.stmt = FALSE])
    IN  IF s.exit # NULL THEN s ELSE [t EXCEPT !.ncols = 0]

\* A statement that fails to be freed ends the program, even after an error.
clean_state(s) ==
    IF s.exit # NULL THEN s
    ELSE IF s.stmt /\ s.fault = "FREE" THEN DoExit(s, "FREE")
    ELSE [free_column_buffer(s) EXCEPT !.stmt = FALSE, !.ncols = 0,
             !.live = IF s.stmt THEN @ - 1 ELSE @]

CleanIfAssociated(s, assoc) == [(IF s.assoc THEN clean_state(s) ELSE s) EXCEPT !.assoc = assoc]

\* A new statement, which when executed gives results.
Statement(s, results) ==
    LET t == Call(s, "ALLOC")
    IN  IF Over(t) THEN t
        ELSE [t EXCEPT !.stmt = TRUE, !.live = @ + 1, !.results = results, !.cursor = 0]

more_result_sets(s) ==
    IF Over(s) THEN s
    ELSE IF s.fault = "MORE" THEN encode_error_message([s EXCEPT !.more = FALSE])
    ELSE [s EXCEPT !.more = Len(s.results) > 1, !.results = IF Len(s.results) > 1 THEN Tail(@) ELSE @]

encode_result_set(s, n) ==
    free_column_buffer(encode_value_list(encode_column_name_list(alloc_column_buffer(s, n), n), n))

\* The rows changed, for all sets of parameters when the driver counts each.
RowCount(s) ==
    IF s.batch THEN SumOf([i \in 1..Len(s.results) |-> s.results[i].rows]) ELSE Head(s.results).rows

\* The current result: what was changed, or names and rows.
BatchCounts(s) == IF s.batch /\ s.fault = "MORE" /\ ~Over(s) THEN encode_error_message(s) ELSE s

CountsAsked(s) == IF s.param THEN BatchCounts(Call(s, "DRIVER_INFO")) ELSE s

RowsChanged(s) ==
    IF Over(s) THEN s
    ELSE [Put(s, Tuple(2) + 2 * Atom) EXCEPT !.rows = <<IF s.param THEN RowCount(s) ELSE Head(s.results).rows>>,
             !.results = IF s.param /\ s.batch THEN <<Last(@)>> ELSE @, !.more = FALSE]

encode_result(s) ==
    IF Over(s) THEN s
    ELSE IF Len(Head(s.results).cols) > 0
    THEN encode_result_set(Put(Call(Call(s, "COLS"), "ROWS"), Tuple(3) + Atom), Len(Head(s.results).cols))
    ELSE RowsChanged(CountsAsked(Call(Call(s, "COLS"), "ROWS")))

\* The message is what the dynamic buffer holds, unless there is one already.
DynamicMessage(s, msg) == IF Over(s) THEN s ELSE [s EXCEPT !.msg = msg]

-----------------------------------------------------------------------------
(* Parameters.  A parameter has a type (of which a size and a scale), says   *)
(* whether it goes in or out, and carries values of a kind.                  *)

init_param_column(s, p) ==
    LET d == CASE p.type \in {"SMALL_INT", "INT", "TINY_INT"} -> [c |-> "SLONG", len |-> 4]
               [] p.type \in {"DECIMAL", "NUMERIC"} -> map_dec_num_2_c_column(p.size, p.digits)
               [] p.type \in {"CHAR", "VARCHAR"} -> [c |-> "CHAR", len |-> p.size + 1]
               [] p.type \in {"WCHAR", "WVARCHAR"} -> [c |-> "WCHAR", len |-> 2 * (p.size + 1)]
               [] p.type = "TIMESTAMP" -> [c |-> "TIMESTAMP", len |-> 16]
               [] p.type = "BOOLEAN" -> [c |-> "BIT", len |-> 4]
               [] OTHER -> [c |-> "DOUBLE", len |-> 8]
    IN  Column(d.c, d.len, p.dir)

decode_params(s, c, kind) ==
    CASE c = "CHAR" -> s.binary \/ kind = "string"
      [] c = "SLONG" -> kind = "int"
      [] c = "DOUBLE" -> kind = "float"
      [] c = "BIT" -> kind = "atom"
      [] OTHER -> TRUE

\* A statement for n sets of parameters; one set needs no arrays.
init_param_statement(s, n, results) ==
    LET t == Statement(s, results)
    IN  IF n <= 1 THEN t ELSE Call(t, "PARAM_ARRAY")

\* The parameters one after the other; the first that is not of its type ends
\* it.  Parameters that go out are remembered for this and all later queries.
bind_parameter_arrays(s, params) ==
    LET Bind(t, p) ==
            LET col == init_param_column(t, p)
                u == [t EXCEPT !.out = @ \/ p.dir # "in"]
            IN  IF Over(t) THEN t
                ELSE IF ~decode_params(t, col.c, p.kind) THEN encode_atom_message(u, "param_badarg")
                ELSE Call(u, "BIND")
    IN  FoldLeft(Bind, s, params)

num_out_params(params) == Len(SelectSeq(params, LAMBDA p : p.dir # "in"))

encode_out_params(s, params, n) ==
    LET k == num_out_params(params)
        outs == SelectSeq(params, LAMBDA p : p.dir # "in")
        values == SumOf([i \in 1..k |-> encode_column_dyn(init_param_column(s, outs[i]))])
        row == values + (IF s.tuple THEN Tuple(k) ELSE ListOf(k) + Atom)
    IN  Put(s, Tuple(3) + 2 * Atom + ListOf(n) + n * row + Atom)

-----------------------------------------------------------------------------
(* Requests. *)

\* The attributes of the connection are set before it is made.
init_driver(s) ==
    LET t == Call(Call(Call(Call(s, "ALLOC"), "ENV"), "ALLOC"), "CONNECTION")
    IN  IF Over(t) THEN t ELSE [t EXCEPT !.env = TRUE, !.dbc = TRUE]

retrive_scrollable_cursor_support_info(s, able) ==
    LET t == IF s.scroll THEN Call(New(s), "DRIVER_INFO") ELSE New(s)
    IN  [DynamicMessage(Put(t, Tuple(3) + 3 * Atom), "connected") EXCEPT !.rows = <<IF s.scroll /\ able THEN 1 ELSE 0>>]

Released(s) == IF s.fault = "FREE" THEN DoExit(s, "FREE") ELSE [s EXCEPT !.env = FALSE, !.dbc = FALSE]

Connected(s, r) ==
    IF ~Over(s) /\ s.fault = "EXEC" THEN Released(encode_error_message(s))
    ELSE retrive_scrollable_cursor_support_info(s, r.able)

db_connect(s, r) ==
    Connected(init_driver([s EXCEPT !.tuple = r.tuple = ON, !.binary = r.binary = ON, !.scroll = r.scroll = ON]), r)

\* A connection that cannot be closed is kept, and so are its handles.
db_close_connection(s) ==
    LET t == IF s.assoc THEN clean_state(s) ELSE s
    IN  IF ~Over(t) /\ s.fault = "EXEC" THEN encode_error_message(t)
        ELSE encode_atom_message(Released(t), "ok")

db_end_tran(s) == IF s.fault = "EXEC" THEN encode_error_message(s) ELSE encode_atom_message(s, "ok")

\* All results of a statement, as a list, or the one of a statement that met no
\* data.  A statement that succeeds with a warning counts as failed.
Results(s, exec) ==
    LET Result(u, i) == more_result_sets(encode_result(Put(u, ListOf(1))))
    IN  IF exec = "nodata" THEN encode_result(s) ELSE Put(FoldLeft(Result, s, s.results), Atom)

Executed(s, exec) ==
    IF ~Over(s) /\ (s.fault = "EXEC" \/ exec = "warning") THEN clean_state(encode_error_message(s))
    ELSE DynamicMessage(clean_state(Results(New(s), exec)), "answer")

db_query(s, r) == Executed(Statement(CleanIfAssociated(s, FALSE), r.results), r.exec)

\* The result set is associated with the connection whether or not there is one.
db_select_count(s, r) ==
    LET t == Statement(CleanIfAssociated(s, TRUE), r.results)
        n == Len(Head(r.results).cols)
        u == Call(t, "COLS")
        v == Call(alloc_column_buffer(IF Over(u) THEN u ELSE [u EXCEPT !.ncols = n], n), "ROWS")
    IN  IF ~Over(t) /\ s.fault = "EXEC" THEN encode_error_message(clean_state(t))
        ELSE encode_row_count(v, Head(r.results).rows)

\* Rows of the associated result set.
db_select(s, r) ==
    LET t == encode_column_name_list(Put(New(s), Tuple(3) + Atom), s.ncols)
    IN  DynamicMessage(encode_value_list_scroll(t, s.ncols, r.how, r.offset, r.n), "answer")

\* However the query ends, its statement is freed.
ParamAnswer(s, r) ==
    IF Over(s) THEN s
    ELSE IF s.fault = "EXEC" \/ r.exec = "param" THEN encode_error_message(s)
    ELSE DynamicMessage(IF s.out THEN encode_out_params(New(s), r.params, r.n) ELSE encode_result(New(s)), "answer")

ParamFreed(s) == IF s.exit # NULL THEN s ELSE [clean_state(s) EXCEPT !.param = FALSE]

ParamStatement(s, r) ==
    bind_parameter_arrays(
        init_param_statement([CleanIfAssociated(s, FALSE) EXCEPT !.param = TRUE], r.n, r.results), r.params)

db_param_query(s, r) == ParamFreed(ParamAnswer(ParamStatement(s, r), r))

db_describe_table(s, r) ==
    LET t == Statement(CleanIfAssociated(s, FALSE), r.results)
        cols == Head(r.results).cols
        n == Len(cols)
        Describe(u, col) == Put(Call(u, "DESC"), Tuple(2) + Atom + encode_data_type(col))
        u == FoldLeft(Describe, Put(New(t), Tuple(2) + Atom + ListOf(n)), cols)
    IN  IF ~Over(t) /\ s.fault \in {"EXEC", "COLS"} THEN clean_state(encode_error_message(t))
        ELSE DynamicMessage(clean_state(Put(u, Atom)), "answer")

\* The answer to a request, with the outcome that it meets.
handle_db_request(s, r) ==
    CASE r.op = "connect" -> db_connect(s, r)
      [] r.op = "close" -> db_close_connection(s)
      [] r.op = "commit" -> db_end_tran(s)
      [] r.op = "query" -> db_query(s, r)
      [] r.op = "count" -> db_select_count(s, r)
      [] r.op = "select" -> db_select(s, r)
      [] r.op = "param" -> db_param_query(s, r)
      [] OTHER -> db_describe_table(s, r)

-----------------------------------------------------------------------------
(* Threads. *)

Running == threads.exit = NULL
Ends(code) == threads' = [threads EXCEPT !.exit = code]

\* The program reads where to connect to, until the port is closed, and starts
\* the other thread.
receive_erlang_port_msg ==
    /\ Running /\ threads.main = "stdin"
    /\ \/ ports /\ threads' = [threads EXCEPT !.main = "spawn"]
       \/ ~ports /\ fromC = NULL /\ Ends("STDIN_HEADER")
    /\ UNCHANGED <<state, toC, fromC, toSup, ports>>

spawn_sup ==
    /\ Running /\ threads.main = "spawn"
    /\ \/ threads' = [threads EXCEPT !.main = "connect", !.sup = "connect"]
       \/ "thread" \in PFaults /\ Ends("THREAD")
    /\ UNCHANGED <<state, toC, fromC, toSup, ports>>

\* The control process listens until it stops.
connect_to_erlang(thread) ==
    /\ Running /\ threads[thread] = "connect"
    /\ \/ fromC # NULL /\ threads' = [threads EXCEPT ![thread] = "receive"]
       \/ (fromC = NULL \/ "connect" \in PFaults) /\ Ends("SOCKET_CONNECT")
    /\ UNCHANGED <<state, toC, fromC, toSup, ports>>

\* Anything but a shutdown, the end of the socket too, ends it as a failure.
supervise ==
    /\ Running /\ threads.sup = "receive" /\ toSup # NULL
    /\ Ends(IF toSup = "shutdown" THEN "SUCCESS" ELSE "RECV_MSGSIZE")
    /\ UNCHANGED <<state, toC, fromC, toSup, ports>>

receive_msg ==
    /\ Running /\ threads.main = "receive"
    /\ \/ toC # <<>> /\ threads' = [threads EXCEPT !.main = "handle"]
       \/ toC = <<>> /\ fromC = NULL /\ Ends("RECV_MSGSIZE")
    /\ UNCHANGED <<state, toC, fromC, toSup, ports>>

\* A driver may also never return.
Request == Head(toC)

Answered(s) ==
    /\ state' = [s EXCEPT !.fault = NULL, !.exit = NULL]
    /\ threads' = IF s.exit = "loops" THEN [threads EXCEPT !.main = "stuck"]
                  ELSE [threads EXCEPT !.main = "send", !.exit = s.exit]

database_handler ==
    /\ Running /\ threads.main = "handle"
    /\ \/ \E fault \in (DFaults \ {"hang"}) \cup {NULL} :
             /\ fault = NULL \/ fault \in Request.faults
             /\ \E s \in {handle_db_request(
                            [encode_empty_message(state) EXCEPT !.fault = fault, !.batch = Request.batch], Request)} :
                    Answered(s)
       \/ /\ "hang" \in DFaults \cap Request.faults
          /\ threads' = [threads EXCEPT !.main = "stuck"] /\ UNCHANGED state
    /\ UNCHANGED <<toC, fromC, toSup, ports>>

\* After the answer to a close, whether or not it could close, the program ends.
send_msg ==
    /\ Running /\ threads.main = "send"
    /\ IF fromC = NULL THEN Ends("SOCKET_SEND_HEADER") /\ UNCHANGED <<toC, fromC>>
       ELSE /\ fromC' = Append(fromC, [id |-> Head(toC).id, tag |-> state.msg, rows |-> state.rows,
                                       need |-> state.need, unsized |-> state.unsized])
            /\ toC' = Tail(toC)
            /\ threads' = IF Head(toC).op = "close" THEN [threads EXCEPT !.main = "end", !.exit = "SUCCESS"]
                          ELSE [threads EXCEPT !.main = "receive"]
    /\ UNCHANGED <<state, toSup, ports>>

PInit ==
    /\ state = InitialState
    /\ threads = [main |-> "stdin", sup |-> "unborn", exit |-> NULL]
    /\ toC = <<>> /\ fromC = <<>> /\ toSup = NULL /\ ports = FALSE

Communicate ==
    \/ receive_erlang_port_msg \/ spawn_sup \/ connect_to_erlang("main") \/ connect_to_erlang("sup")
    \/ supervise \/ receive_msg \/ send_msg

PNext == Communicate \/ database_handler

\* That the handler gets on with its request, of which fairness is asked.
Handles ==
    /\ Running /\ threads.main = "handle"
    /\ \E main \in {"send", "stuck"}, code \in DFaults \cup {NULL} :
         threads' = [threads EXCEPT !.main = main, !.exit = code]
=============================================================================
