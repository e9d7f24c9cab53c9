----------------------------- MODULE MCConnection -----------------------------
(* The connections of a C node: how one is made, the messages on it, and      *)
(* what is kept apart for threads.  Of these four parts, which share no      *)
(* state, one runs in each behaviour.                                        *)
EXTENDS EiHandshake, EiMessages, EiThreads, EiErrno

CONSTANTS h1, h2

\* Three programs differ from one that is in order: in the cookie, in what they
\* can do, and in the status they answer.
Good == [home |-> "ok", given |-> "c1", file |-> NULL,
         flags |-> {"refs", "pids", "floats"}, version |-> 6, status |-> "ok"]

OfFile == [Good EXCEPT !.given = NULL, !.file = [first |-> "c2", more |-> FALSE]]
Unable == [Good EXCEPT !.flags = {"refs"}]
Refusing == [Good EXCEPT !.status = "nok"]

MCNode == {Good, OfFile, Unable, Refusing}

\* At most one of the two programs is not in order.
MCHInit ==
    /\ HInit
    /\ <<node["client"], node["server"]>> \in
          {<<Good, Good>>, <<OfFile, Good>>, <<Good, Unable>>, <<Good, Refusing>>}

MCHost == h1 :> [name |-> 3, aliases |-> <<>>, addrs |-> 1]
       @@ h2 :> [name |-> 6, aliases |-> <<2>>, addrs |-> 2]

MCMail == {<<"send", "long", TRUE>>, <<"other", "huge", FALSE>>}

VARIABLE part   \* the part that runs

connvars == <<part, hvars, mvars, tvars, evars>>

\* The second call meets another challenge of the server than the first, or the same.
Shaking(A) ==
    /\ part = "handshake" /\ A /\ UNCHANGED <<part, mvars, tvars, evars>>
    /\ \A x \in Caller : call'[x].ours = 8 => x = Server /\ made = 2
Messages(A) == part = "messages" /\ A /\ UNCHANGED <<part, hvars, tvars, evars>>
Threads(A) == part = "threads" /\ A /\ UNCHANGED <<part, hvars, mvars, evars>>
Errors(A) == part = "errno" /\ A /\ UNCHANGED <<part, hvars, mvars, tvars>>

ConnInit ==
    /\ part \in {"handshake", "messages", "threads", "errno"}
    /\ MCHInit /\ MInit /\ TInit /\ EInit
    /\ part # "handshake" => node = [p \in {"client", "server"} |-> Good]

ConnNext == Shaking(HNext) \/ Messages(MNext) \/ Threads(TNext) \/ Errors(ENext)

ConnSpec == ConnInit /\ [][ConnNext]_connvars /\ HFairness /\ MFairness

\* Every call for which the code sees to it returns (ei_connect.c, ei_rpc).
CallsSound == ConnectReturns /\ RpcReturns

=============================================================================
