----------------------------- MODULE EiHandshake -----------------------------
(* Connections of C nodes (erl_interface, src/connect and src/epmd): threads *)
(* of a client program call ei_connect, a server program publishes its name, *)
(* and calls ei_accept.  Both ends run the code of ei_connect.c; a peer that *)
(* is an Erlang node differs in its flags, version, status and cookie.       *)
(*                                                                           *)
(* A socket is named by its descriptor, and its two ends by the programs     *)
(* that hold them.  Packages are records; those sent and not yet read are in *)
(* the sequence of the end that will read them.                              *)
EXTENDS Nil, Integers, FiniteSets, Sequences, SequencesExt

CONSTANTS
    Dialer,     \* threads of the client program, each making calls
    Server,     \* the one thread of the server program
    Fd,         \* descriptors
    Node,       \* settings of nodes: home, file, flags, version, status
    CompatR9,   \* whether pids and ports of R9 are let through
    Challenge,  \* values of challenges
    HFaults,    \* "resolve", "epmd", "socket", "memory", "break", "table"
    Timed,      \* calls have a time limit
    MaxConnects \* bound on the calls that connect

ASSUME HandshakeConstants ==
    /\ Server \notin Dialer
    /\ Timed \in BOOLEAN /\ CompatR9 \in BOOLEAN
    /\ MaxConnects \in Nat /\ NULL \notin Fd
    /\ Node \subseteq [home : {"ok", "long"}, given : {NULL, "c1", "c2"},
                       file : {NULL} \cup [first : {"c1", "c2"}, more : BOOLEAN],
                       flags : SUBSET {"refs", "pids", "floats"},
                       version : Nat, status : {"ok", "nok"}]

VARIABLES
    node,       \* the setting of each program, chosen once
    ec,         \* the cookie each program was initialised with
    call,       \* what each thread is doing: pc, descriptor, challenges, version
    sock,       \* the sockets between the programs
    info,       \* ei_sockets of each program: entries and allocated size
    held,       \* descriptors returned to the threads and not closed yet
    epmd,       \* what epmd knows: whether the server's name is registered
    asking,     \* threads that have a socket to epmd open
    made        \* calls made

hvars == <<node, ec, call, sock, info, held, epmd, asking, made>>

Caller == Dialer \cup {Server}
Program == {"client", "server"}
Side(x) == IF x = Server THEN "server" ELSE "client"
Other(p) == IF p = "server" THEN "client" ELSE "server"

FreeSocket ==
    [client |-> "closed", server |-> "closed", up |-> FALSE,
     in |-> [p \in Program |-> <<>>]]

NoCall(ret) == [pc |-> "idle", fd |-> NULL, dist |-> 0, hers |-> NULL,
                ours |-> NULL, flags |-> {}, ret |-> ret]

-----------------------------------------------------------------------------
(* Sockets. *)

\* What the other end has sent and this one has not read.
Arrived(x) == sock[call[x].fd].in[Side(x)]

PeerGone(x) ==
    ~sock[call[x].fd].up \/ sock[call[x].fd][Other(Side(x))] = "closed"

\* Closing an end loses what it has not read; a socket both ends of which are
\* closed can be used again.
CloseEnd(s, fd, p) ==
    [s EXCEPT ![fd] =
        IF @[Other(p)] = "closed" THEN FreeSocket
        ELSE [@ EXCEPT ![p] = "closed", !.in[p] = <<>>]]

\* Mutation: the descriptor is left open.
FailOpen(x) == UNCHANGED sock /\ call' = [call EXCEPT ![x] = NoCall("error")]

\* ERL_ERROR: the descriptor of the call is closed.
Fail(x) ==
    /\ sock' = CloseEnd(sock, call[x].fd, Side(x))
    /\ call' = [call EXCEPT ![x] = NoCall("error")]

\* Mutation: there is no time limit.
ReadFailsUntimed(x) ==
    \/ Arrived(x) = <<>> /\ PeerGone(x)
    \/ Arrived(x) # <<>> /\ "memory" \in HFaults

\* Reading stops when the time is up, at the end of the stream, on an error and
\* when there is no memory for a long package.
ReadFails(x) ==
    \/ Arrived(x) = <<>> /\ (Timed \/ PeerGone(x))
    \/ Arrived(x) # <<>> /\ "memory" \in HFaults

\* A package is read; the call goes on as next when the package is good.
read_2byte_package(x, good, next) ==
    \/ /\ Arrived(x) # <<>> /\ good
       /\ sock' = [sock EXCEPT ![call[x].fd].in[Side(x)] = Tail(@)]
       /\ call' = [call EXCEPT ![x] = next]
    \/ /\ ReadFails(x) \/ (Arrived(x) # <<>> /\ ~good)
       /\ Fail(x)

\* A package is written; when the peer is gone that may go unnoticed.
Write(x, package, next) ==
    \/ /\ sock' = IF PeerGone(x) THEN sock
                  ELSE [sock EXCEPT ![call[x].fd].in[Other(Side(x))] = Append(@, package)]
       /\ call' = [call EXCEPT ![x] = next]
    \/ /\ PeerGone(x) \/ "memory" \in HFaults
       /\ Fail(x)

At(x, pc) == call[x].pc = pc
Goto(x, pc) == [call[x] EXCEPT !.pc = pc]

-----------------------------------------------------------------------------
(* The packages of the handshake. *)

\* An MD5 sum of the cookie and the challenge.
gen_digest(challenge, cookie) == <<challenge, cookie>>

\* What a peer must be able to do.
Capable(flags) ==
    /\ "refs" \in flags /\ "floats" \in flags
    /\ "pids" \in flags \/ CompatR9

send_name_or_challenge(x, challenge, next) ==
    Write(x, [tag |-> "n", version |-> call[x].dist, flags |-> node[Side(x)].flags,
              challenge |-> challenge], next)

send_name(x) ==
    /\ At(x, "send_name")
    /\ send_name_or_challenge(x, NULL, Goto(x, "recv_status"))
    /\ UNCHANGED <<node, ec, info, held, epmd, asking, made>>

recv_status(x) ==
    /\ At(x, "recv_status")
    /\ LET p == Head(Arrived(x))
       IN  read_2byte_package(x, p.tag = "s" /\ p.status = "ok", Goto(x, "recv_challenge"))
    /\ UNCHANGED <<node, ec, info, held, epmd, asking, made>>

\* The challenge of the server is answered at once with one of our own.
recv_challenge(x) ==
    /\ At(x, "recv_challenge")
    /\ LET p == Head(Arrived(x))
       IN  \E ours \in Challenge :
             read_2byte_package(x, p.tag = "n" /\ Capable(p.flags),
                 [Goto(x, "send_challenge_reply") EXCEPT
                     !.hers = p.challenge, !.ours = ours, !.flags = p.flags])
    /\ UNCHANGED <<node, ec, info, held, epmd, asking, made>>

send_challenge_reply(x) ==
    /\ At(x, "send_challenge_reply")
    /\ Write(x, [tag |-> "r", challenge |-> call[x].ours,
                 digest |-> gen_digest(call[x].hers, ec[Side(x)])],
             Goto(x, "recv_challenge_ack"))
    /\ UNCHANGED <<node, ec, info, held, epmd, asking, made>>

recv_challenge_ack(x) ==
    /\ At(x, "recv_challenge_ack")
    /\ LET p == Head(Arrived(x))
       IN  read_2byte_package(x,
               p.tag = "a" /\ p.digest = gen_digest(call[x].ours, ec[Side(x)]),
               Goto(x, "put"))
    /\ UNCHANGED <<node, ec, info, held, epmd, asking, made>>

\* The server: a peer of version 4 or less, or one that can do too little, is
\* turned away.
recv_name(x) ==
    /\ At(x, "recv_name")
    /\ LET p == Head(Arrived(x))
       IN  read_2byte_package(x, p.tag = "n" /\ Capable(p.flags) /\ p.version > 4,
               [Goto(x, "send_status") EXCEPT !.dist = p.version, !.flags = p.flags])
    /\ UNCHANGED <<node, ec, info, held, epmd, asking, made>>

send_status(x) ==
    /\ At(x, "send_status")
    /\ Write(x, [tag |-> "s", status |-> node[Side(x)].status], Goto(x, "send_challenge"))
    /\ UNCHANGED <<node, ec, info, held, epmd, asking, made>>

send_challenge(x) ==
    /\ At(x, "send_challenge")
    /\ \E ours \in Challenge :
         send_name_or_challenge(x, ours,
             [Goto(x, "recv_challenge_reply") EXCEPT !.ours = ours])
    /\ UNCHANGED <<node, ec, info, held, epmd, asking, made>>

\* Mutation: the digest of the reply is not compared.
ReplyUnchecked(x) ==
    /\ At(x, "recv_challenge_reply")
    /\ LET p == Head(Arrived(x))
       IN  read_2byte_package(x, p.tag = "r",
               [Goto(x, "send_challenge_ack") EXCEPT !.hers = p.challenge])
    /\ UNCHANGED <<node, ec, info, held, epmd, asking, made>>

recv_challenge_reply(x) ==
    /\ At(x, "recv_challenge_reply")
    /\ LET p == Head(Arrived(x))
       IN  read_2byte_package(x,
               p.tag = "r" /\ p.digest = gen_digest(call[x].ours, ec[Side(x)]),
               [Goto(x, "send_challenge_ack") EXCEPT !.hers = p.challenge])
    /\ UNCHANGED <<node, ec, info, held, epmd, asking, made>>

send_challenge_ack(x) ==
    /\ At(x, "send_challenge_ack")
    /\ Write(x, [tag |-> "a", digest |-> gen_digest(call[x].hers, ec[Side(x)])],
             Goto(x, "put"))
    /\ UNCHANGED <<node, ec, info, held, epmd, asking, made>>

-----------------------------------------------------------------------------
(* What a program remembers of its connections. *)

Entry(fd, version, cnode) == [socket |-> fd, dist_version |-> version, cnode |-> cnode]

\* An entry of the same descriptor is brought up to date.  A new one is stored
\* when the table is full, and has just been enlarged, and not otherwise.
put_ei_socket_info(t, fd, version, cnode) ==
    IF \E i \in DOMAIN t.sockets : t.sockets[i].socket = fd
    THEN [t EXCEPT !.sockets = [i \in DOMAIN @ |->
              IF @[i].socket = fd THEN Entry(fd, version, cnode) ELSE @[i]]]
    ELSE IF Len(t.sockets) = t.size
         THEN [sockets |-> Append(t.sockets, Entry(fd, version, cnode)), size |-> t.size + 5]
         ELSE t

\* The first entry of the descriptor.
get_ei_socket_info(p, fd) ==
    LET found == {i \in DOMAIN info[p].sockets : info[p].sockets[i].socket = fd}
    IN  IF found = {} THEN NULL ELSE info[p].sockets[Min(found)]

\* -1 for a descriptor that is not known.
ei_distversion(p, fd) ==
    LET e == get_ei_socket_info(p, fd) IN IF e = NULL THEN -1 ELSE e.dist_version

ei_fd_to_cnode(p, fd) ==
    LET e == get_ei_socket_info(p, fd) IN IF e = NULL THEN NULL ELSE e.cnode

\* The call returns the descriptor, whether or not there was memory for the table.
Return(x) ==
    LET fd == call[x].fd
        t == info[Side(x)]
        new == put_ei_socket_info(t, fd, call[x].dist, x)
    IN  /\ At(x, "put")
        /\ \/ info' = [info EXCEPT ![Side(x)] = new]
           \/ /\ new.size > t.size /\ "table" \in HFaults
              /\ info' = [info EXCEPT ![Side(x)] = [sockets |-> <<>>, size |-> 0]]
        /\ held' = [held EXCEPT ![x] = @ \cup {fd}]
        /\ call' = [call EXCEPT ![x] = NoCall("fd")]
        /\ UNCHANGED <<node, ec, sock, epmd, asking, made>>

erl_close_connection(x) ==
    /\ At(x, "idle")
    /\ \E fd \in held[x] :
         /\ sock' = CloseEnd(sock, fd, Side(x))
         /\ held' = [held EXCEPT ![x] = @ \ {fd}]
    /\ UNCHANGED <<node, ec, call, info, epmd, asking, made>>

-----------------------------------------------------------------------------
(* Calls of the programs, and epmd. *)

\* The directory of the cookie file, when its name is not too long.
get_home(n) == n.home = "ok"

\* The first line of the cookie file, which must fit.
get_cookie(n) == IF ~get_home(n) \/ n.file = NULL \/ n.file.more THEN NULL ELSE n.file.first

\* The node takes the cookie it is given, or the one of the file.
ei_connect_xinit(n) == IF n.given # NULL THEN n.given ELSE get_cookie(n)

\* A program that has no cookie, or whose host has no address, has no node.
ei_connect_init(p) ==
    /\ ec[p] = NULL
    /\ ec' = [ec EXCEPT ![p] = ei_connect_xinit(node[p])]
    /\ ec'[p] # NULL
    /\ UNCHANGED <<node, call, sock, info, held, epmd, asking, made>>

\* Calls are made when the node has been initialised.
Ready(x) == At(x, "idle") /\ ec[Side(x)] # NULL

\* The host is looked up, first by its name and then, when it is this one, as
\* "localhost".
ei_connect_tmo(x) ==
    /\ x \in Dialer /\ Ready(x) /\ made < MaxConnects /\ made' = made + 1
    /\ \/ call' = [call EXCEPT ![x] = [NoCall(NULL) EXCEPT !.pc = "epmd"]]
       \/ "resolve" \in HFaults /\ call' = [call EXCEPT ![x] = NoCall("error")]
    /\ UNCHANGED <<node, ec, sock, info, held, epmd, asking>>

\* A socket to epmd; when there is none the call returns ERL_NO_PORT.
ei_epmd_connect_tmo(x) ==
    /\ At(x, "epmd")
    /\ \/ /\ epmd # "down"
          /\ asking' = asking \cup {x}
          /\ call' = [call EXCEPT ![x] = Goto(x, "port")]
       \/ /\ epmd = "down" \/ "socket" \in HFaults
          /\ call' = [call EXCEPT ![x] = NoCall("no_port")] /\ UNCHANGED asking
    /\ UNCHANGED <<node, ec, sock, info, held, epmd, made>>

\* EI_DIST_HIGH is 5.
Highest(version) == IF version > 5 THEN 5 ELSE version

\* epmd tells the port and the versions of a name it knows; the socket is closed
\* in every case.  The lower of the two highest versions is used.
ei_epmd_r4_port(x) ==
    /\ At(x, "port")
    /\ asking' = asking \ {x}
    /\ \/ /\ epmd = "alive" /\ node["server"].version >= 5
          /\ call' = [call EXCEPT ![x] = [Goto(x, "cnct") EXCEPT !.dist = Highest(node["server"].version)]]
       \/ /\ epmd # "alive" \/ node["server"].version < 5 \/ Timed \/ "memory" \in HFaults
          /\ call' = [call EXCEPT ![x] = NoCall("no_port")]
    /\ UNCHANGED <<node, ec, sock, info, held, epmd, made>>

\* Connecting succeeds when the server listens, before it has accepted.
cnct(x) ==
    /\ At(x, "cnct")
    /\ \/ \E fd \in Fd :
            /\ sock[fd] = FreeSocket
            /\ sock' = [sock EXCEPT ![fd].client = "open", ![fd].server = "queued", ![fd].up = TRUE]
            /\ call' = [call EXCEPT ![x] = [Goto(x, "send_name") EXCEPT !.fd = fd]]
       \/ /\ Timed \/ epmd # "alive" \/ "socket" \in HFaults
          /\ call' = [call EXCEPT ![x] = NoCall("connect_fail")] /\ UNCHANGED sock
    /\ UNCHANGED <<node, ec, info, held, epmd, asking, made>>

\* The connection that was made first is not always the one accepted first.
ei_accept_t(x) ==
    /\ At(x, "accept")
    /\ \/ \E fd \in Fd :
            /\ sock[fd].server = "queued"
            /\ sock' = [sock EXCEPT ![fd].server = "open"]
            /\ call' = [call EXCEPT ![x] = [Goto(x, "recv_name") EXCEPT !.fd = fd]]
       \/ /\ Timed
          /\ call' = [call EXCEPT ![x] = NoCall("error")] /\ UNCHANGED sock
    /\ UNCHANGED <<node, ec, info, held, epmd, asking, made>>

ei_accept_tmo(x) ==
    /\ x = Server /\ Ready(x) /\ epmd = "alive"
    /\ call' = [call EXCEPT ![x] = Goto(x, "accept")]
    /\ UNCHANGED <<node, ec, sock, info, held, epmd, asking, made>>

\* The name stays registered for as long as the socket to epmd is open.
ei_epmd_r4_publish(x) ==
    /\ x = Server /\ Ready(x) /\ epmd = "up"
    /\ \/ epmd' = "alive" /\ call' = [call EXCEPT ![x] = NoCall("fd")]
       \/ /\ Timed \/ "epmd" \in HFaults
          /\ call' = [call EXCEPT ![x] = NoCall("error")] /\ UNCHANGED epmd
    /\ UNCHANGED <<node, ec, sock, info, held, asking, made>>

ei_unpublish_tmo(x) ==
    /\ x = Server /\ Ready(x) /\ epmd = "alive"
    /\ \/ epmd' = "up" /\ call' = [call EXCEPT ![x] = NoCall("ok")]
       \/ /\ Timed \/ "epmd" \in HFaults
          /\ call' = [call EXCEPT ![x] = NoCall("error")] /\ epmd' \in {"up", "alive"}
    /\ UNCHANGED <<node, ec, sock, info, held, asking, made>>

-----------------------------------------------------------------------------
(* What happens to the programs. *)

\* A connection that breaks loses what is on its way.
BreakSocket ==
    /\ "break" \in HFaults
    /\ \E fd \in Fd :
         /\ sock[fd].up
         /\ sock' = [sock EXCEPT ![fd].up = FALSE, ![fd].in = [p \in Program |-> <<>>],
                                 ![fd].server = IF @ = "queued" THEN "closed" ELSE @]
    /\ UNCHANGED <<node, ec, call, info, held, epmd, asking, made>>

EpmdStops ==
    /\ "epmd" \in HFaults /\ epmd # "down" /\ epmd' = "down"
    /\ UNCHANGED <<node, ec, call, sock, info, held, asking, made>>

\* A socket that waits to be accepted when the client has closed it goes away.
Withdrawn ==
    /\ \E fd \in Fd :
         /\ sock[fd].server = "queued" /\ sock[fd].client = "closed"
         /\ sock' = [sock EXCEPT ![fd] = FreeSocket]
    /\ UNCHANGED <<node, ec, call, info, held, epmd, asking, made>>

-----------------------------------------------------------------------------

HInit ==
    /\ node \in [Program -> Node] /\ ec = [p \in Program |-> NULL]
    /\ call = [x \in Caller |-> NoCall(NULL)]
    /\ sock = [fd \in Fd |-> FreeSocket]
    /\ info = [p \in Program |-> [sockets |-> <<>>, size |-> 0]]
    /\ held = [x \in Caller |-> {}]
    /\ epmd = "up" /\ asking = {} /\ made = 0

Asks(x) == ei_epmd_connect_tmo(x) \/ ei_epmd_r4_port(x) \/ cnct(x) \/ ei_accept_t(x)

\* The steps of ei_xconnect_tmo and of ei_accept_tmo, in their order.
ei_xconnect_tmo(x) ==
    \/ send_name(x) \/ recv_status(x) \/ recv_challenge(x)
    \/ send_challenge_reply(x) \/ recv_challenge_ack(x)
Accepts(x) ==
    \/ recv_name(x) \/ send_status(x) \/ send_challenge(x)
    \/ recv_challenge_reply(x) \/ send_challenge_ack(x)

Proceed(x) == Asks(x) \/ ei_xconnect_tmo(x) \/ Accepts(x) \/ Return(x)

HNext ==
    \/ \E x \in Caller :
         \/ ei_connect_tmo(x) \/ ei_accept_tmo(x) \/ ei_epmd_r4_publish(x)
         \/ ei_unpublish_tmo(x) \/ erl_close_connection(x) \/ Proceed(x)
    \/ \E p \in Program : ei_connect_init(p)
    \/ BreakSocket \/ EpmdStops \/ Withdrawn

\* A call that has begun runs on; with a time limit no step waits for ever.
\* CanProceed is ENABLED Proceed, written out; the steps of Proceed are those that
\* change a call in progress.
Reading == {"recv_status", "recv_challenge", "recv_challenge_ack", "recv_name", "recv_challenge_reply"}

CanProceed(x) ==
    /\ ~At(x, "idle")
    /\ call[x].pc \in Reading => Arrived(x) # <<>> \/ ReadFails(x)
    /\ At(x, "cnct") => Timed \/ epmd # "alive" \/ "socket" \in HFaults \/ \E fd \in Fd : sock[fd] = FreeSocket
    /\ At(x, "accept") => Timed \/ \E fd \in Fd : sock[fd].server = "queued"

Proceeds(x) == ~At(x, "idle") /\ call'[x] # call[x]

HFairness == \A x \in Caller : []<>~CanProceed(x) \/ []<><<Proceeds(x)>>_call

HSpec == HInit /\ [][HNext]_hvars /\ HFairness

-----------------------------------------------------------------------------
(* Properties. *)

HTypeOK ==
    /\ \A x \in Caller :
         /\ call[x].fd \in Fd \cup {NULL} /\ call[x].dist \in {0, 5}
         /\ {call[x].hers, call[x].ours} \subseteq Challenge \cup {NULL}
         /\ call[x].flags \subseteq {"refs", "pids", "floats"}
    /\ \A fd \in Fd : sock[fd].client \in {"open", "closed"}
    /\ \A fd \in Fd : sock[fd].server \in {"open", "closed", "queued"}
    /\ \A x \in Caller : held[x] \subseteq Fd
    /\ epmd \in {"down", "up", "alive"} /\ asking \subseteq Caller /\ made \in 0..MaxConnects

Shaken(x) == call[x].pc = "put"

\* A call that is about to return a connection knows that its peer holds the
\* same cookie and can do what is needed, and the two agree on both challenges
\* when both are still in the handshake (recv_challenge_reply, recv_challenge_ack).
Authenticated ==
    \A x \in Caller : Shaken(x) =>
        /\ ec["client"] = ec["server"]
        /\ Capable(node["client"].flags) /\ Capable(node["server"].flags)
        /\ \A y \in Caller \ {x} :
             call[y].fd = call[x].fd /\ Shaken(y) =>
                 call[y].ours = call[x].hers /\ call[x].ours = call[y].hers

\* Every open end of a socket belongs to a call in progress or was returned to
\* one thread and has not been closed; every failing call closes what it opened,
\* its socket to epmd too.
SocketsOwned ==
    /\ \A fd \in Fd, p \in Program :
         sock[fd][p] = "open" =>
             Cardinality({x \in Caller : Side(x) = p /\ (call[x].fd = fd \/ fd \in held[x])}) = 1
    /\ \A x \in Caller :
         /\ call[x].fd # NULL => sock[call[x].fd][Side(x)] = "open"
         /\ \A fd \in held[x] : sock[fd][Side(x)] = "open"
         /\ x \in asking <=> At(x, "port")

\* What the table says of a descriptor is true of the connection that a thread has
\* on it now, and of its node, whatever the descriptor was used for before
\* (put_ei_socket_info).
TableCurrent ==
    \A x \in Caller : \A fd \in held[x] :
        LET e == get_ei_socket_info(Side(x), fd) IN e # NULL => e = Entry(fd, 5, x)

\* A call with a time limit returns, whatever its peer does.
ConnectReturns == \A x \in Caller : call[x].pc # "idle" ~> call[x].pc = "idle"

\* "For each file descriptor returned from ei_connect() we save information"
\* (ei_connect.c).
EveryDescriptorSaved ==
    \A x \in Dialer : \A fd \in held[x] : ei_distversion("client", fd) # -1

\* No descriptor is lost, used twice or described by what it was before: every open
\* end has one owner, and the table of descriptors is true of it (ei_connect.c).
DescriptorsSound == HTypeOK /\ SocketsOwned /\ TableCurrent

=============================================================================
