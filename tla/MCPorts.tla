-------------------------------- MODULE MCPorts --------------------------------
(* Two users of the port interface that share no state and are checked in    *)
(* one run: odbc with its C program, and the uds driver, which itself has    *)
(* two parts: the names and ports of two nodes, and the packets of two       *)
(* connected ports.                                                          *)
EXTENDS MCOdbc, UdsPorts, UdsStream

P == {"a1", "a2", "b1", "b2"}
MCHome == [p \in P |-> IF p \in {"a1", "a2"} THEN "a" ELSE "b"]

VARIABLE part   \* the part that runs

portvars == <<part, allvars, udvars, stvars>>

Database(A) == part = "odbc" /\ A /\ UNCHANGED <<part, udvars, stvars>>
Naming(A) == part = "ports" /\ A /\ UNCHANGED <<part, allvars, stvars>>
Streaming(A) == part = "stream" /\ A /\ UNCHANGED <<part, allvars, udvars>>

\* The menu matters to odbc alone.
PortsInit ==
    /\ part \in {"odbc", "ports", "stream"}
    /\ CInit /\ (part # "odbc" => menu = 1)
    /\ UdInit /\ StInit

PortsNext == Database(CNext) \/ Naming(UdNext) \/ Streaming(StNext)

PortsSpec ==
    /\ PortsInit /\ [][PortsNext]_portvars
    /\ WF_allvars(Database(Control)) /\ WF_allvars(Database(Program(Communicate)))
    /\ WF_threads(Database(Handles)) /\ StFairness

\* Listeners of a name can be told apart, and what is sent to a port arrives
\* (uds_drv.c).
UdsPromise == CreationsDiffer /\ Arrives

\* Calls of a database with a limit end and so do port programs that nobody wants,
\* rows come in their order, and packets arrive (odbc.erl, odbcserver.c, uds_drv.c).
PortsPromise == OdbcPromise /\ UdsPromise

\* Neither program loses what it holds, or part of a packet, whatever fails
\* (odbcserver.c, uds_drv.c).
DriversSound == OdbcSound /\ StreamSound

=============================================================================
