------------------------------- MODULE MCOdbc -------------------------------
(* Requests, and outcomes of the driver, for odbc connections.               *)
EXTENDS OdbcControl

Ask(op, timed, faults) == [op |-> op, id |-> 0, timed |-> timed, batch |-> FALSE, faults |-> faults]

Col(sql, size, digits) == [sql |-> sql, size |-> size, digits |-> digits]
Res(cols, rows) == [cols |-> cols, rows |-> rows]
Par(type, size, digits, dir, kind) == [type |-> type, size |-> size, digits |-> digits, dir |-> dir, kind |-> kind]

Connect(tuple, scroll, auto, timed, faults) ==
    Ask("connect", timed, faults) @@ [tuple |-> tuple, binary |-> OFF, scroll |-> scroll, auto |-> auto, able |-> TRUE]
Query(results, exec, timed, faults) == Ask("query", timed, faults) @@ [results |-> results, exec |-> exec]
Describe(results, faults) == Ask("describe", FALSE, faults) @@ [results |-> results]
Count(results, faults) == Ask("count", FALSE, faults) @@ [results |-> results]
Select(how, offset, n, faults) == Ask("select", TRUE, faults) @@ [how |-> how, offset |-> offset, n |-> n]
Param(params, n, results, exec, batch) ==
    [Ask("param", FALSE, {"ALLOC", "PARAM_ARRAY", "BIND", "EXEC", "FREE", "DRIVER_INFO", "MORE"}) EXCEPT !.batch = batch]
        @@ [params |-> params, n |-> n, results |-> results, exec |-> exec]

Changed == <<Res(<<>>, 2)>>
Two == <<Res(<<Col("INTEGER", 10, 0), Col("TIMESTAMP", 19, 0)>>, 2), Res(<<>>, 1)>>
Strange == <<Res(<<Col("CHAR", 5, 0), Col("UNKNOWN", 0, 0)>>, 1)>>
Unsized == <<Res(<<Col("VARCHAR", -4, 0)>>, 1)>>
Decimals == <<Res(<<Col("NUMERIC", 9, 0), Col("DECIMAL", 10, 0), Col("NUMERIC", 15, 2),
                    Col("NUMERIC", 16, 2), Col("DECIMAL", 38, 0), Col("BIGINT", 19, 0)>>, 3)>>

Data == {"ALLOC", "EXEC", "COLS", "ROWS", "DESC", "BIND", "FREE", "FETCH", "MORE", "malloc"}

MCMenus == <<
    {Connect(t, OFF, ON, FALSE, {"ALLOC", "ENV", "CONNECTION", "EXEC", "FREE"}) : t \in {ON, OFF}}
      \cup {Query(r, e, FALSE, Data) : r \in {Changed, Two, Strange, Unsized}, e \in {"success", "warning"}}
      \cup {Query(Changed, "nodata", FALSE, {}), Describe(Two, Data), Describe(Decimals, {}), Count(Two, Data),
            Ask("close", TRUE, {"FREE", "EXEC"})},
    {Connect(ON, ON, ON, FALSE, {"DRIVER_INFO"}), Count(Decimals, {"EXEC"}), Count(Two, {}),
     Query(Changed, "success", FALSE, {})}
      \cup {Select(h, 0, 1, {"FETCH"}) : h \in {"first", "last", "prev"}}
      \cup {Select("next", 0, 2, {}), Select("absolute", 2, 3, {}), Select("relative", 1, 2, {}),
            Select("relative", 2, 2, {})},
    {Connect(t, OFF, ON, FALSE, {}) : t \in {ON, OFF}}
      \cup {Param(<<Par(c[1], c[2], c[3], "in", k), Par("INT", 0, 0, d, "int")>>, n, r, "success", b) :
              c \in {<<"VARCHAR", 5, 0>>, <<"DECIMAL", 12, 2>>}, k \in {"string", "float"}, d \in {"in", "out"},
              n \in {2}, r \in {<<Res(<<>>, 1), Res(<<>>, 2)>>}, b \in BOOLEAN}
      \cup {Param(<<>>, 1, Changed, "param", FALSE), Query(Two, "success", FALSE, {})},
    {Connect(ON, ON, ON, TRUE, {"hang"}), Query(Changed, "success", TRUE, {"hang"}), Query(Changed, "success", FALSE, {}),
     Ask("commit", TRUE, {}), Count(Two, {}), Select("next", 0, 1, {}), Ask("close", TRUE, {"EXEC"})},
    {Connect(ON, ON, OFF, TRUE, {}), Ask("commit", TRUE, {"EXEC", "hang"}), Ask("close", TRUE, {"hang"})}>>

\* Counts and selects only.
MCCounts == <<MCMenus[2]>>
=============================================================================
