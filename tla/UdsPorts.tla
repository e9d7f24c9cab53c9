-------------------------------- MODULE UdsPorts --------------------------------
(* The ports of uds_drv.c on several nodes of one host: names, locks,        *)
(* listening, accepting and connecting.  A name is a socket file and a lock  *)
(* file next to it; the lock file holds the creation of the last listener,   *)
(* by which pids of a node that was started again are told apart.            *)
(*                                                                           *)
(* The instances of a node's driver share a lock; other nodes do their system*)
(* calls in between.  Connectors bind a name of their own, by the process;   *)
(* nobody listens on it, and it is left out.                                 *)
EXTENDS Integers, FiniteSets, Sequences, SequencesExt, Nil

CONSTANTS
    Ports, Home,    \* the ports and the node of each
    Name,           \* the names nodes listen on
    MaxOpens,       \* how often ports are opened
    MaxCrashes

ASSUME PortConstants == NULL \notin Ports \cup Name \cup {Home[p] : p \in Ports}

VARIABLES
    pd,         \* the UdsData of each port: type, name, lock, creation, partner
    step,       \* where a port is in a callback that makes several system calls
    waits,      \* whether a listener has selected read, or a connector write
    bound,      \* the port each socket file belongs to
    locked,     \* the node that holds the lock of a name
    serial,     \* the creation in the lock file, -1 when it is empty
    pending,    \* the connections a listener has not accepted, with the connected port
    opens, crashes

udvars == <<pd, step, waits, bound, locked, serial, pending, opens, crashes>>

ClosedPort == [type |-> "closed", name |-> NULL, lock |-> FALSE, creation |-> 0, partner |-> NULL]

UdInit ==
    /\ pd = [p \in Ports |-> ClosedPort] /\ step = [p \in Ports |-> "none"] /\ waits = [p \in Ports |-> FALSE]
    /\ bound = [n \in Name |-> NULL] /\ locked = [n \in Name |-> NULL] /\ serial = [n \in Name |-> -1]
    /\ pending = [p \in Ports |-> <<>>] /\ opens = 0 /\ crashes = 0

\* No port of the node is within a callback.
NoCallback(p) == \A q \in Ports : Home[q] = Home[p] => step[q] = "none"

Nodes == {Home[p] : p \in Ports}

files == <<bound, locked, serial>>

uds_start(p) ==
    /\ NoCallback(p) /\ pd[p].type = "closed" /\ opens < MaxOpens
    /\ pd' = [pd EXCEPT ![p].type = "unknown"] /\ opens' = opens + 1
    /\ UNCHANGED <<step, waits, files, pending, crashes>>

\* driver_failure: the port is closed once the callback is done.
Fail(p) == step' = [step EXCEPT ![p] = "stop"]

\* A name of this node's own is told by the list of ports: the lock would be
\* granted again.
OwnName(p, n) == \E q \in Ports : Home[q] = Home[p] /\ pd[q].name = n

NextCreation(n) == serial' = [serial EXCEPT ![n] = IF @ = -1 THEN 0 ELSE (@ + 1) % 4]

\* The lock of the name and the next creation.
try_lock(p, n) ==
    IF locked[n] \notin {NULL, Home[p]} THEN Fail(p) /\ UNCHANGED <<pd, locked, serial>>
    ELSE /\ NextCreation(n) /\ locked' = [locked EXCEPT ![n] = Home[p]]
         /\ pd' = [pd EXCEPT ![p] = [type |-> "listener", name |-> n, lock |-> TRUE,
                                     creation |-> serial'[n], partner |-> NULL]]
         /\ step' = [step EXCEPT ![p] = "bind"]

uds_command_listen(p, n) ==
    /\ NoCallback(p) /\ pd[p].type = "unknown"
    /\ IF OwnName(p, n) THEN Fail(p) /\ UNCHANGED <<pd, locked, serial>> ELSE try_lock(p, n)
    /\ UNCHANGED <<waits, bound, pending, opens, crashes>>

\* The old socket file is removed, a new one bound; or that fails.
ListenBind(p) ==
    /\ step[p] = "bind"
    /\ \/ bound' = [bound EXCEPT ![pd[p].name] = p] /\ step' = [step EXCEPT ![p] = "none"]
       \/ bound' = [bound EXCEPT ![pd[p].name] = NULL] /\ Fail(p)
    /\ UNCHANGED <<pd, waits, locked, serial, pending, opens, crashes>>

Busy(l) == pd[l].partner # NULL

\* The types of the ports that have a descriptor.
Descriptor == {"listener", "connector", "command"}

\* The port waits for the next connection to a listener, of which it has the
\* number of the descriptor.  When the listener was closed since, the number may
\* be that of any other port.
uds_command_accept(p, l) ==
    /\ NoCallback(p) /\ pd[p].type = "unknown" /\ Home[l] = Home[p] /\ pd[l].type \in Descriptor
    /\ IF Busy(l) THEN Fail(p) /\ UNCHANGED <<pd, waits>>
       ELSE /\ pd' = [pd EXCEPT ![l].partner = p, ![p].partner = l, ![p].type = "acceptor"]
            /\ waits' = [waits EXCEPT ![l] = @ \/ pd[l].type = "listener"]
            /\ UNCHANGED step
    /\ UNCHANGED <<files, pending, opens, crashes>>

Listening(n) == bound[n] # NULL /\ pd[bound[n]].type = "listener" /\ step[bound[n]] # "bind"

\* The connection may be made at once or later; it is queued at the listener.
\* Or a call fails.
uds_command_connect(p, n) ==
    /\ NoCallback(p) /\ pd[p].type = "unknown"
    /\ \/ /\ Listening(n)
          /\ \E later \in BOOLEAN : /\ pd' = [pd EXCEPT ![p].type = IF later THEN "connector" ELSE "command"]
                                    /\ waits' = [waits EXCEPT ![p] = later]
          /\ pending' = [pending EXCEPT ![bound[n]] = Append(@, p)]
          /\ UNCHANGED step
       \/ Fail(p) /\ UNCHANGED <<pd, waits, pending>>
    /\ UNCHANGED <<files, opens, crashes>>

\* uds_input of a listener: it accepts for its partner, or the accept fails.
AcceptReady(l) ==
    /\ NoCallback(l) /\ pd[l].type = "listener" /\ waits[l] /\ pending[l] # <<>>
    /\ \/ /\ pd' = [pd EXCEPT ![pd[l].partner].type = "command", ![pd[l].partner].partner = NULL, ![l].partner = NULL]
          /\ waits' = [waits EXCEPT ![l] = FALSE] /\ UNCHANGED step
       \/ Fail(l) /\ UNCHANGED <<pd, waits>>
    /\ pending' = [pending EXCEPT ![l] = Tail(@)]
    /\ UNCHANGED <<files, opens, crashes>>

\* uds_output of a connector: the connection was made.
ConnectReady(p) ==
    /\ NoCallback(p) /\ pd[p].type = "connector" /\ waits[p]
    /\ pd' = [pd EXCEPT ![p].type = "command"] /\ waits' = [waits EXCEPT ![p] = FALSE]
    /\ UNCHANGED <<step, files, pending, opens, crashes>>

-----------------------------------------------------------------------------
(* Stopping. *)

\* The owner closes the port.
uds_stop(p) ==
    /\ NoCallback(p) /\ pd[p].type # "closed"
    /\ Fail(p)
    /\ UNCHANGED <<pd, waits, files, pending, opens, crashes>>

\* The partner of an acceptor waits no more, any other is closed too.
\* At the end of the program the partners are left alone.
Partners(p, others) ==
    LET partner == IF others THEN pd[p].partner ELSE NULL
    IN  /\ pd' = [q \in Ports |-> IF q = p THEN ClosedPort
                                  ELSE IF q = partner THEN [pd[q] EXCEPT !.partner = NULL] ELSE pd[q]]
        /\ waits' = [q \in Ports |-> IF q = p \/ (q = partner /\ pd[p].type = "acceptor" /\ pd[q].type = "listener")
                                     THEN FALSE ELSE waits[q]]
        /\ step' = [q \in Ports |-> IF q = p THEN "none"
                                    ELSE IF q = partner /\ pd[p].type # "acceptor" THEN "stop" ELSE step[q]]

\* A bug of the mutants: the lock is given back before the socket file is
\* removed.
UnlockFirst(p) ==
    /\ step[p] = "stop" /\ pd[p].name # NULL
    /\ IF pd[p].lock
       THEN /\ locked' = [locked EXCEPT ![pd[p].name] = NULL] /\ pd' = [pd EXCEPT ![p].lock = FALSE]
            /\ UNCHANGED <<step, bound>>
       ELSE /\ bound' = [bound EXCEPT ![pd[p].name] = NULL] /\ step' = [step EXCEPT ![p] = "unlock"]
            /\ UNCHANGED <<pd, locked>>
    /\ UNCHANGED <<waits, serial, pending, opens, crashes>>

\* First the socket file is removed.
StopUnlink(p) ==
    /\ step[p] = "stop" /\ pd[p].name # NULL
    /\ bound' = [bound EXCEPT ![pd[p].name] = NULL]
    /\ step' = [step EXCEPT ![p] = "unlock"]
    /\ UNCHANGED <<pd, waits, locked, serial, pending, opens, crashes>>

\* Then the lock is given back, and the port is gone.
StopUnlock(p) ==
    /\ step[p] = IF pd[p].name = NULL THEN "stop" ELSE "unlock"
    /\ locked' = [n \in Name |-> IF n = pd[p].name /\ pd[p].lock THEN NULL ELSE locked[n]]
    /\ Partners(p, TRUE)
    /\ pending' = [pending EXCEPT ![p] = <<>>]
    /\ UNCHANGED <<bound, serial, opens, crashes>>

\* uds_finish: all the ports of the node are stopped, whatever their partners.
uds_finish(node) ==
    LET mine == {p \in Ports : Home[p] = node}
    IN  /\ \A p \in mine : step[p] = "none"
        /\ \E p \in mine : pd[p].type # "closed"
        /\ pd' = [p \in Ports |-> IF p \in mine THEN ClosedPort ELSE pd[p]]
        /\ waits' = [p \in Ports |-> p \notin mine /\ waits[p]]
        /\ bound' = [n \in Name |-> IF \E p \in mine : pd[p].name = n THEN NULL ELSE bound[n]]
        /\ locked' = [n \in Name |-> IF locked[n] = node THEN NULL ELSE locked[n]]
        /\ pending' = [p \in Ports |-> IF p \in mine THEN <<>> ELSE pending[p]]
        /\ UNCHANGED <<step, serial, opens, crashes>>

\* A node dies: its locks are gone, its socket files stay.
Crash(node) ==
    /\ crashes < MaxCrashes /\ crashes' = crashes + 1
    /\ \E p \in Ports : Home[p] = node /\ pd[p].type # "closed"
    /\ pd' = [p \in Ports |-> IF Home[p] = node THEN ClosedPort ELSE pd[p]]
    /\ waits' = [p \in Ports |-> Home[p] # node /\ waits[p]]
    /\ step' = [p \in Ports |-> IF Home[p] = node THEN "none" ELSE step[p]]
    /\ locked' = [n \in Name |-> IF locked[n] = node THEN NULL ELSE locked[n]]
    /\ pending' = [p \in Ports |-> IF Home[p] = node THEN <<>> ELSE pending[p]]
    /\ UNCHANGED <<bound, serial, opens>>

UdNext ==
    \/ \E p \in Ports :
           \/ uds_start(p) \/ ListenBind(p) \/ AcceptReady(p) \/ ConnectReady(p)
           \/ uds_stop(p) \/ StopUnlink(p) \/ StopUnlock(p)
           \/ \E n \in Name : uds_command_listen(p, n) \/ uds_command_connect(p, n)
           \/ \E l \in Ports : uds_command_accept(p, l)
    \/ \E node \in Nodes : uds_finish(node) \/ Crash(node)

-----------------------------------------------------------------------------
(* What the driver promises. *)

Listener(p) == pd[p].type = "listener"

UdTypeOK ==
    /\ \A p \in Ports : /\ pd[p].partner \in Ports \cup {NULL} /\ pd[p].creation \in 0..3
                        /\ step[p] \in {"none", "bind", "stop", "unlock"}
    /\ locked \in [Name -> Nodes \cup {NULL}] /\ serial \in [Name -> -1..3]

\* A name has one listener, on whatever node (uds_drv.c:613, 1032).
OneListener ==
    \A p, q \in Ports : (Listener(p) /\ Listener(q) /\ pd[p].name = pd[q].name) => p = q

\* The socket file of a listener is its own: no other node, and no other
\* port, removes it or binds over it (uds_drv.c:641, 677).
NameReaches ==
    \A p \in Ports : (Listener(p) /\ step[p] = "none") => bound[pd[p].name] = p

\* Two listeners of a name, one after the other, have different creations,
\* even when the first one's node died (uds_drv.c:1038).
CreationsDiffer ==
    [][\A p \in Ports : (Listener(p)' /\ ~Listener(p)) => serial[pd'[p].name] # pd'[p].creation]_udvars

\* An acceptor and its listener refer to each other; a listener waits for
\* connections only for an acceptor (the assertion of uds_drv.c:352).
Paired ==
    \A p \in Ports :
        /\ pd[p].partner # NULL => pd[pd[p].partner].partner = p \/ ~NoCallback(p)
        /\ (Listener(p) /\ waits[p] /\ NoCallback(p)) =>
               (pd[p].partner # NULL /\ pd[pd[p].partner].type = "acceptor")

\* A lock is held by the node of a listener of that name, so that a name can
\* be used again once the listener is gone, also after a failure
\* (uds_drv.c:681).
LocksGivenBack ==
    \A n \in Name : locked[n] # NULL => \E p \in Ports : pd[p].name = n /\ Home[p] = locked[n]

\* A name belongs to one listener, through its lock, its socket file and its
\* acceptors, and to nobody when the listener is gone.
NamesSound == UdTypeOK /\ OneListener /\ NameReaches /\ Paired /\ LocksGivenBack

UdSpec == UdInit /\ [][UdNext]_udvars
=============================================================================
