-------------------------- MODULE EiHandshakeProofs --------------------------
(***************************************************************************)
(* Connections made by ei_connect and ei_accept, for any number of threads *)
(* of the client program, descriptors, settings, challenges and faults.    *)
(*                                                                         *)
(* What a call may conclude from a package rests on what was on its way    *)
(* when the package was sent: an invariant describes every package that is *)
(* not read yet by the step its sender is at, and the two calls on one     *)
(* socket by how far each of them is ahead of the other.                   *)
(***************************************************************************)
EXTENDS EiHandshake, FiniteSetTheorems, SequenceTheorems, WellFoundedInduction, TLAPS

-----------------------------------------------------------------------------
(* Types.                                                                  *)

DialPc == {"idle", "epmd", "port", "cnct", "send_name", "recv_status",
           "recv_challenge", "send_challenge_reply", "recv_challenge_ack", "put"}
AcceptPc == {"idle", "accept", "recv_name", "send_status", "send_challenge",
             "recv_challenge_reply", "send_challenge_ack", "put"}

\* The steps of a call that has no socket, and those before the version is known.
Unconnected == {"idle", "epmd", "port", "cnct", "accept"}
Unversioned == {"idle", "epmd", "port", "accept", "recv_name"}

Cookie == {NULL, "c1", "c2"}
Flags == SUBSET {"refs", "pids", "floats"}
Value == Challenge \cup {NULL}
Digest == Value \X Cookie

Package ==
    [tag : {"n"}, version : {0, 5}, flags : Flags, challenge : Value]
    \cup [tag : {"s"}, status : {"ok", "nok"}]
    \cup [tag : {"r"}, challenge : Value, digest : Digest]
    \cup [tag : {"a"}, digest : Digest]

Call == [pc : DialPc \cup AcceptPc, fd : Fd \cup {NULL}, dist : {0, 5}, hers : Value,
         ours : Value, flags : Flags, ret : {NULL, "error", "no_port", "connect_fail", "fd", "ok"}]

Socket == [client : {"open", "closed"}, server : {"open", "closed", "queued"},
           up : BOOLEAN, in : [Program -> Seq(Package)]]

Table == [sockets : Seq([socket : Fd, dist_version : {0, 5}, cnode : Caller]), size : Nat]

Types ==
    /\ node \in [Program -> Node] /\ ec \in [Program -> Cookie]
    /\ call \in [Caller -> Call] /\ sock \in [Fd -> Socket]
    /\ info \in [Program -> Table] /\ held \in [Caller -> SUBSET Fd]
    /\ epmd \in {"down", "up", "alive"} /\ asking \subseteq Caller /\ made \in 0..MaxConnects

\* A thread takes the steps of its side; it has a descriptor exactly while it is
\* on a socket, and one to epmd while it asks there.
Steps ==
    \A x \in Caller :
        /\ call[x].pc \in IF x = Server THEN AcceptPc ELSE DialPc
        /\ call[x].fd = NULL <=> call[x].pc \in Unconnected
        /\ x \in asking <=> call[x].pc = "port"
        /\ call[x].pc # "idle" => ec[Side(x)] # NULL
        /\ call[x].pc \notin Unversioned => call[x].dist = 5

-----------------------------------------------------------------------------
(* Who owns the ends of the sockets.                                       *)

Owns(x, fd) == call[x].fd = fd \/ fd \in held[x]

Owned ==
    /\ \A x \in Caller, fd \in Fd : Owns(x, fd) => sock[fd][Side(x)] = "open"
    /\ \A fd \in Fd, p \in Program :
         sock[fd][p] = "open" => \E x \in Caller : Side(x) = p /\ Owns(x, fd)
    /\ \A x, y \in Caller, fd \in Fd :
         Side(x) = Side(y) /\ Owns(x, fd) /\ Owns(y, fd) => x = y
    /\ \A x \in Caller : call[x].fd \notin held[x]

\* Whatever the table says of a descriptor that is held is what its holder put there.
Recorded ==
    \A x \in Caller : \A fd \in held[x] :
        \A i \in DOMAIN info[Side(x)].sockets :
            info[Side(x)].sockets[i].socket = fd =>
                info[Side(x)].sockets[i] = Entry(fd, 5, x)

-----------------------------------------------------------------------------
(* What the packages on their way and the steps of a call stand for.       *)

\* The packages that one side of a socket has not read.
Unread(s, p) == {s.in[p][i] : i \in DOMAIN s.in[p]}

\* A server that has not accepted has sent nothing, and nobody has answered it.
Queued ==
    \A fd \in Fd : sock[fd].server = "queued" =>
        /\ Unread(sock[fd], "client") = {}
        /\ \A x \in Dialer :
             /\ fd \notin held[x]
             /\ call[x].fd = fd => call[x].pc \in {"send_name", "recv_status"}

FromClient(m) ==
    \/ m.tag = "n" /\ m.flags = node["client"].flags
    \/ /\ m.tag = "r" /\ ec["client"] # NULL /\ m.digest[2] = ec["client"]
       /\ Capable(node["server"].flags)

FromServer(m) ==
    /\ Capable(node["client"].flags)
    /\ \/ m.tag = "s"
       \/ m.tag = "n" /\ m.flags = node["server"].flags
       \/ m.tag = "a" /\ ec["server"] # NULL /\ m.digest[2] = ec["server"]

\* Packages say what their sender is and knows.
Packages ==
    \A fd \in Fd :
        /\ \A m \in Unread(sock[fd], "server") : FromClient(m)
        /\ \A m \in Unread(sock[fd], "client") : FromServer(m)

SameCookie == ec["client"] # NULL /\ ec["client"] = ec["server"]

\* What the steps of a call have made sure of.
Known ==
    \A x \in Caller :
        /\ call[x].pc \in {"recv_challenge", "send_challenge_reply", "recv_challenge_ack", "put",
                           "send_status", "send_challenge", "recv_challenge_reply", "send_challenge_ack"}
             => Capable(node["client"].flags)
        /\ call[x].pc \in {"send_challenge_reply", "recv_challenge_ack", "send_challenge_ack", "put"}
             => Capable(node["server"].flags)
        /\ call[x].pc \in {"send_challenge_ack", "put"} => SameCookie

Challenged == {"recv_challenge_reply", "send_challenge_ack", "put"}
Answered == {"recv_challenge_ack", "put"}

\* Each of the two calls on a socket holds the challenge of the other, from the
\* step at which it has read it.
RepliesMatch(c, fd) ==
    call[c].fd = fd => \A m \in Unread(sock[fd], "server") :
        m.tag = "r" => m.challenge = call[c].ours /\ call[c].pc \in Answered

ChallengesMatch(fd) ==
    call[Server].fd = fd => \A m \in Unread(sock[fd], "client") :
        m.tag = "n" => m.challenge = call[Server].ours /\ call[Server].pc \in Challenged

CallsMatch(c, fd) ==
    call[c].fd = fd /\ call[Server].fd = fd =>
        /\ call[c].pc \in {"send_challenge_reply", "recv_challenge_ack", "put"} =>
             call[c].hers = call[Server].ours /\ call[Server].pc \in Challenged
        /\ call[Server].pc \in {"send_challenge_ack", "put"} =>
             call[Server].hers = call[c].ours /\ call[c].pc \in Answered

Matched ==
    \A c \in Dialer, fd \in Fd : RepliesMatch(c, fd) /\ ChallengesMatch(fd) /\ CallsMatch(c, fd)

HInv == Types /\ Steps /\ Owned /\ Recorded /\ Queued /\ Packages /\ Known /\ Matched

-----------------------------------------------------------------------------
(* Facts about sockets and what is on them.                                *)

\* The two programs and their ends of a socket.
LEMMA Sides ==
    /\ \A x : Side(x) \in Program /\ Other(Side(x)) \in Program /\ Other(Side(x)) # Side(x)
    /\ \A p \in Program : Other(p) \in Program /\ Other(p) # p /\ Other(Other(p)) = p
    /\ \A x \in Dialer : Side(x) = "client"
    /\ Side(Server) = "server"
  BY HandshakeConstants DEF Side, Other, Program

\* A socket that is not used is one.
LEMMA FreeIsSocket == FreeSocket \in Socket
<1>1. <<>> \in Seq(Package)
  BY EmptySeq
<1> QED
  BY <1>1 DEF FreeSocket, Socket

\* What is read, and what remains, was on its way before.
LEMMA TailUnread ==
    ASSUME NEW s \in Seq(Package), s # <<>>
    PROVE  /\ Tail(s) \in Seq(Package) /\ Head(s) \in Package
           /\ Head(s) \in {s[i] : i \in DOMAIN s}
           /\ {Tail(s)[i] : i \in DOMAIN Tail(s)} \subseteq {s[i] : i \in DOMAIN s}
<1>1. /\ Tail(s) \in Seq(Package) /\ Head(s) \in Package /\ Len(Tail(s)) = Len(s) - 1
      /\ \A i \in 1..Len(Tail(s)) : Tail(s)[i] = s[i + 1]
  BY HeadTailProperties
<1>2. DOMAIN s = 1..Len(s) /\ DOMAIN Tail(s) = 1..Len(Tail(s)) /\ Len(s) \in Nat /\ Len(s) # 0
  BY <1>1, LenProperties, EmptySeq
<1>3. Head(s) = s[1] /\ 1 \in DOMAIN s
  BY <1>2
<1> QED
  BY <1>1, <1>2, <1>3

\* What is on its way after a package was written.
LEMMA AppendUnread ==
    ASSUME NEW s \in Seq(Package), NEW m \in Package
    PROVE  /\ Append(s, m) \in Seq(Package)
           /\ {Append(s, m)[i] : i \in DOMAIN Append(s, m)} \subseteq {s[i] : i \in DOMAIN s} \cup {m}
<1>1. /\ Append(s, m) \in Seq(Package) /\ Len(Append(s, m)) = Len(s) + 1
      /\ \A i \in 1..Len(s) : Append(s, m)[i] = s[i]
      /\ Append(s, m)[Len(s) + 1] = m
  BY AppendProperties
<1>2. DOMAIN s = 1..Len(s) /\ DOMAIN Append(s, m) = 1..(Len(s) + 1) /\ Len(s) \in Nat
  BY <1>1, LenProperties
<1> QED
  BY <1>1, <1>2

\* The two ends of every socket stay as they are.
EndsKept ==
    \A fd \in Fd : sock'[fd].client = sock[fd].client /\ sock'[fd].server = sock[fd].server

\* Nothing is on its way that was not on its way before.
NothingSent == \A fd \in Fd, p \in Program : Unread(sock'[fd], p) \subseteq Unread(sock[fd], p)

\* The sockets after a package has been read.
LEMMA Reading1 ==
    ASSUME sock \in [Fd -> Socket], NEW fd \in Fd, NEW p \in Program, sock[fd].in[p] # <<>>,
           sock' = [sock EXCEPT ![fd].in[p] = Tail(@)]
    PROVE  /\ sock' \in [Fd -> Socket] /\ EndsKept /\ NothingSent
           /\ Head(sock[fd].in[p]) \in Package
           /\ Head(sock[fd].in[p]) \in Unread(sock[fd], p)
<1>1. /\ sock[fd] \in Socket /\ sock[fd].in \in [Program -> Seq(Package)]
      /\ sock[fd].in[p] \in Seq(Package)
  BY DEF Socket
<1>2. sock'[fd] = [sock[fd] EXCEPT !.in[p] = Tail(@)]
  OBVIOUS
<1>3. sock'[fd] \in Socket
  BY <1>1, <1>2, TailUnread DEF Socket
<1>4. sock' \in [Fd -> Socket]
  BY <1>3
<1>5. EndsKept
  BY <1>1, <1>2 DEF EndsKept, Socket
<1>6. NothingSent
  BY <1>1, <1>2, TailUnread DEF NothingSent, Unread, Socket
<1> QED
  BY <1>1, <1>4, <1>5, <1>6, TailUnread DEF Unread

\* The sockets after a package has been put on one.
Put(s, fd, p, m) == [s EXCEPT ![fd].in[p] = Append(@, m)]

LEMMA Appended ==
    ASSUME sock \in [Fd -> Socket], NEW fd \in Fd, NEW p \in Program, NEW m \in Package,
           sock' = Put(sock, fd, p, m)
    PROVE  /\ sock' \in [Fd -> Socket] /\ EndsKept
           /\ \A g \in Fd, q \in Program : \A n \in Unread(sock'[g], q) :
                n \in Unread(sock[g], q) \/ (g = fd /\ q = p /\ n = m)
<1>1. /\ sock[fd] \in Socket /\ sock[fd].in \in [Program -> Seq(Package)]
      /\ sock[fd].in[p] \in Seq(Package)
  BY DEF Socket
<1> USE DEF Put
<1>2. sock'[fd] = [sock[fd] EXCEPT !.in[p] = Append(@, m)]
  OBVIOUS
<1>3. sock'[fd] \in Socket
  <2>1. Append(sock[fd].in[p], m) \in Seq(Package)
    BY <1>1, AppendUnread
  <2>2. [sock[fd].in EXCEPT ![p] = Append(@, m)] \in [Program -> Seq(Package)]
    BY <1>1, <2>1
  <2>3. sock'[fd] = [sock[fd] EXCEPT !.in = [sock[fd].in EXCEPT ![p] = Append(@, m)]]
    BY <1>1, <1>2 DEF Socket
  <2> QED
    BY <1>1, <2>2, <2>3 DEF Socket
<1>4. sock' \in [Fd -> Socket]
  BY <1>3
<1>5. EndsKept
  BY <1>1, <1>2 DEF EndsKept, Socket
<1>6. \A g \in Fd, q \in Program : \A n \in Unread(sock'[g], q) :
              n \in Unread(sock[g], q) \/ (g = fd /\ q = p /\ n = m)
  BY <1>1, <1>2, AppendUnread DEF Unread, Socket
<1> QED
  BY <1>4, <1>5, <1>6

\* Closing an end leaves the other as it is, and loses packages only.
LEMMA Closed ==
    ASSUME sock \in [Fd -> Socket], NEW fd \in Fd, NEW p \in Program, sock' = CloseEnd(sock, fd, p)
    PROVE  /\ sock' \in [Fd -> Socket] /\ NothingSent
           /\ \A g \in Fd \ {fd} : sock'[g] = sock[g]
           /\ sock'[fd][p] = "closed" /\ sock'[fd][Other(p)] = sock[fd][Other(p)]
           /\ Unread(sock'[fd], p) = {}
<1>1. sock[fd] \in Socket /\ Other(p) \in Program /\ Other(p) # p
  BY Sides
<1>2. \A g \in Fd \ {fd} : sock'[g] = sock[g]
  BY DEF CloseEnd
<1>3. CASE sock[fd][Other(p)] = "closed"
  <2>1. sock'[fd] = FreeSocket
    BY <1>3 DEF CloseEnd
  <2>2. \A q \in Program : FreeSocket[q] = "closed" /\ Unread(FreeSocket, q) = {}
    BY EmptySeq DEF FreeSocket, Unread, Program
  <2>3. sock' \in [Fd -> Socket]
    BY <2>1, FreeIsSocket DEF CloseEnd
  <2> QED
    BY <1>1, <1>2, <1>3, <2>1, <2>2, <2>3 DEF NothingSent
<1>4. CASE sock[fd][Other(p)] # "closed"
  <2>1. sock'[fd] = [sock[fd] EXCEPT ![p] = "closed", !.in[p] = <<>>]
    BY <1>4 DEF CloseEnd
  <2>2. <<>> \in Seq(Package) /\ DOMAIN <<>> = {}
    BY EmptySeq
  <2>3. /\ sock'[fd] \in Socket /\ sock'[fd][p] = "closed" /\ sock'[fd][Other(p)] = sock[fd][Other(p)]
        /\ sock'[fd].in[p] = <<>> /\ sock'[fd].in[Other(p)] = sock[fd].in[Other(p)]
    <3>1. CASE p = "client"
      <4>1. [sock[fd].in EXCEPT !["client"] = <<>>] \in [Program -> Seq(Package)]
        BY <1>1, <2>2 DEF Socket
      <4>2. sock'[fd] = [sock[fd] EXCEPT !.client = "closed", !.in = [@ EXCEPT !["client"] = <<>>]]
        BY <2>1, <3>1 DEF Socket
      <4> QED
        BY <1>1, <3>1, <4>1, <4>2, ZenonT(60) DEF Socket, Program, Other
    <3>2. CASE p = "server"
      <4>1. [sock[fd].in EXCEPT !["server"] = <<>>] \in [Program -> Seq(Package)]
        BY <1>1, <2>2 DEF Socket
      <4>2. sock'[fd] = [sock[fd] EXCEPT !.server = "closed", !.in = [@ EXCEPT !["server"] = <<>>]]
        BY <2>1, <3>2 DEF Socket
      <4> QED
        BY <1>1, <3>2, <4>1, <4>2, ZenonT(60) DEF Socket, Program, Other
    <3> QED
      BY <3>1, <3>2 DEF Program
  <2>4. sock' \in [Fd -> Socket]
    BY <2>3 DEF CloseEnd
  <2>5. \A q \in Program : q = p \/ q = Other(p)
    BY DEF Program, Other
  <2>6. Unread(sock'[fd], p) = {} /\ Unread(sock'[fd], Other(p)) = Unread(sock[fd], Other(p))
    BY <2>2, <2>3 DEF Unread
  <2> QED
    BY <1>2, <2>3, <2>4, <2>5, <2>6 DEF NothingSent
<1> QED
  BY <1>3, <1>4

-----------------------------------------------------------------------------
(* The start, and parts of the invariant that most steps leave alone.      *)

\* Nothing is open at the start.
LEMMA InitHandshake == HInit => HInv
<1> SUFFICES ASSUME HInit PROVE HInv
  OBVIOUS
<1> USE DEF HInit
<1>1. <<>> \in Seq([socket : Fd, dist_version : {0, 5}, cnode : Caller])
  BY EmptySeq
<1>2. Types
  BY <1>1, FreeIsSocket, HandshakeConstants
     DEF Types, NoCall, Call, DialPc, AcceptPc, Flags, Value, Cookie, Table
<1>3. Steps
  BY HandshakeConstants DEF Steps, NoCall, AcceptPc, DialPc, Unconnected, Unversioned
<1>4. \A fd \in Fd, p \in Program : sock[fd][p] = "closed"
  BY DEF FreeSocket, Program
<1>5. \A fd \in Fd, p \in Program : Unread(sock[fd], p) = {}
  BY EmptySeq DEF FreeSocket, Unread
<1>6. \A x \in Caller, fd \in Fd : ~Owns(x, fd)
  BY HandshakeConstants DEF Owns, NoCall
<1>7. Owned
  BY <1>4, <1>6, HandshakeConstants DEF Owned, NoCall
<1>8. Recorded
  BY DEF Recorded
<1>9. Queued /\ Packages
  BY <1>4, <1>5 DEF Queued, Packages, Program, Caller
<1>10. Known
  BY DEF Known, NoCall
<1>11. Matched
  BY <1>5, <1>6, HandshakeConstants
     DEF Matched, RepliesMatch, ChallengesMatch, CallsMatch, NoCall, Program, Caller
<1> QED
  BY <1>2, <1>3, <1>7, <1>8, <1>9, <1>10, <1>11 DEF HInv

\* Owners stay the same when neither ends nor descriptors change.
LEMMA OwnedKept ==
    ASSUME Owned, EndsKept, held' = held, \A y \in Caller : call'[y].fd = call[y].fd
    PROVE  Owned'
<1>1. \A y \in Caller, fd \in Fd : Owns(y, fd)' <=> Owns(y, fd)
  BY DEF Owns
<1>2. \A fd \in Fd, p \in Program : sock'[fd][p] = sock[fd][p]
  BY DEF EndsKept, Program
<1> QED
  BY <1>1, <1>2, Sides DEF Owned

\* The table stays true when it does not change and nothing more is held.
LEMMA RecordedKept ==
    ASSUME Recorded, info' = info, \A y \in Caller : held'[y] \subseteq held[y]
    PROVE  Recorded'
  BY DEF Recorded

\* Packages stay true when none is sent.
LEMMA PackagesKept ==
    ASSUME Packages, NothingSent, UNCHANGED <<node, ec>>
    PROVE  Packages'
<1>1. \A m : (FromClient(m)' <=> FromClient(m)) /\ (FromServer(m)' <=> FromServer(m))
  BY DEF FromClient, FromServer
<1> QED
  BY <1>1 DEF Packages, NothingSent, Program

\* A call past the first steps is on a socket whose own end is open.
LEMMA Connected ==
    ASSUME HInv, NEW x \in Caller, call[x].pc \notin Unconnected
    PROVE  /\ call[x].fd \in Fd /\ sock[call[x].fd] \in Socket
           /\ sock[call[x].fd][Side(x)] = "open"
           /\ Owns(x, call[x].fd)
           /\ \A y \in Caller : Side(y) = Side(x) /\ call[y].fd = call[x].fd => y = x
           /\ call[x] \in Call
<1>1. call[x].fd \in Fd /\ Owns(x, call[x].fd) /\ call[x] \in Call
  BY DEF HInv, Types, Steps, Owns, Call
<1>2. \A y \in Caller : call[y].fd = call[x].fd => Owns(y, call[x].fd)
  BY DEF Owns
<1> QED
  BY <1>1, <1>2 DEF HInv, Types, Owned

\* Reading a package that has arrived.
LEMMA ReadOne ==
    ASSUME HInv, NEW x \in Caller, call[x].pc \notin Unconnected, Arrived(x) # <<>>,
           sock' = [sock EXCEPT ![call[x].fd].in[Side(x)] = Tail(@)],
           call' \in [Caller -> Call], \A y \in Caller \ {x} : call'[y] = call[y],
           call'[x].fd = call[x].fd,
           UNCHANGED <<node, ec, info, held, epmd, asking, made>>
    PROVE  /\ Types' /\ Owned' /\ Recorded' /\ Queued' /\ Packages'
           /\ NothingSent
           /\ Head(Arrived(x)) \in Package
           /\ Head(Arrived(x)) \in Unread(sock[call[x].fd], Side(x))
<1>1. sock \in [Fd -> Socket] /\ call[x].fd \in Fd /\ Side(x) \in Program
  <2>1. sock \in [Fd -> Socket]
    BY Zenon DEF HInv, Types
  <2>2. call[x].fd \in Fd
    BY Connected
  <2>3. Side(x) \in Program
    BY Sides, ZenonT(60)
  <2> QED
    BY <2>1, <2>2, <2>3, Zenon
<1>2. /\ sock' \in [Fd -> Socket] /\ EndsKept /\ NothingSent
      /\ Head(Arrived(x)) \in Package
      /\ Head(Arrived(x)) \in Unread(sock[call[x].fd], Side(x))
  BY <1>1, Reading1 DEF Arrived
<1>3. Types'
  BY <1>2 DEF HInv, Types
<1>4. Owned'
  BY <1>2, OwnedKept DEF HInv
<1>5. Recorded'
  BY RecordedKept DEF HInv
<1>6. Packages'
  BY <1>2, PackagesKept DEF HInv
<1>7. sock[call[x].fd].server # "queued"
  <2>1. CASE x = Server
    BY <2>1, <1>1, Connected, Sides
  <2>2. CASE x \in Dialer
    BY <2>2, <1>1, <1>2, Sides DEF HInv, Queued
  <2> QED
    BY <2>1, <2>2 DEF Caller
<1>8. Queued'
  <2> SUFFICES ASSUME NEW fd \in Fd, sock'[fd].server = "queued"
               PROVE  /\ Unread(sock'[fd], "client") = {}
                      /\ \A y \in Dialer :
                           /\ fd \notin held'[y]
                           /\ call'[y].fd = fd => call'[y].pc \in {"send_name", "recv_status"}
    BY DEF Queued
  <2>1. sock[fd].server = "queued" /\ fd # call[x].fd
    BY <1>2, <1>7, SMTT(60) DEF EndsKept
  <2>2. Unread(sock'[fd], "client") = {}
    <3>1. Unread(sock[fd], "client") = {}
      BY <2>1, ZenonT(60) DEF HInv, Queued
    <3> QED
      BY <1>2, <3>1, Zenon DEF NothingSent, Program
  <2> QED
    BY <2>1, <2>2, SMTT(60) DEF HInv, Queued, Caller
<1> QED
  BY <1>2, <1>3, <1>4, <1>5, <1>6, <1>8

\* Writing a package that says what its sender is and knows.
LEMMA WriteOne ==
    ASSUME HInv, NEW x \in Caller, call[x].pc \notin Unconnected, NEW m \in Package,
           sock' = IF PeerGone(x) THEN sock
                   ELSE [sock EXCEPT ![call[x].fd].in[Other(Side(x))] = Append(@, m)],
           call' \in [Caller -> Call], \A y \in Caller \ {x} : call'[y] = call[y],
           call'[x].fd = call[x].fd,
           x = Server \/ call[x].pc \notin {"send_name", "recv_status"}
               \/ call'[x].pc \in {"send_name", "recv_status"},
           IF x = Server THEN FromServer(m) ELSE FromClient(m),
           UNCHANGED <<node, ec, info, held, epmd, asking, made>>
    PROVE  /\ Types' /\ Owned' /\ Recorded' /\ Queued' /\ Packages'
           /\ \A g \in Fd, q \in Program : \A n \in Unread(sock'[g], q) :
                n \in Unread(sock[g], q) \/ (g = call[x].fd /\ q = Other(Side(x)) /\ n = m)
<1>1. sock \in [Fd -> Socket] /\ call[x].fd \in Fd /\ Other(Side(x)) \in Program
  BY Connected, Sides DEF HInv, Types
<1>2. /\ sock' \in [Fd -> Socket] /\ EndsKept
      /\ \A g \in Fd, q \in Program : \A n \in Unread(sock'[g], q) :
           n \in Unread(sock[g], q) \/ (g = call[x].fd /\ q = Other(Side(x)) /\ n = m)
  <2>1. CASE PeerGone(x)
    BY <2>1, <1>1 DEF EndsKept
  <2>2. CASE ~PeerGone(x)
    <3>1. sock' = Put(sock, call[x].fd, Other(Side(x)), m)
      BY <2>2 DEF Put
    <3>2. m \in Package
      OBVIOUS
    <3> QED
      BY ONLY <1>1, <3>1, <3>2, Appended
  <2> QED
    BY <2>1, <2>2
<1>3. Types'
  BY <1>2, SMTT(60) DEF HInv, Types
<1>4. Owned'
  BY <1>2, OwnedKept DEF HInv
<1>5. Recorded'
  <2>1. Recorded /\ info' = info /\ held' = held
    BY Zenon DEF HInv
  <2>2. \A y \in Caller : held'[y] \subseteq held[y]
    BY <2>1, SMTT(60)
  <2> QED
    BY <2>1, <2>2, RecordedKept, Zenon
<1>6. Packages'
  <2>1. \A n : (FromClient(n)' <=> FromClient(n)) /\ (FromServer(n)' <=> FromServer(n))
    BY DEF FromClient, FromServer
  <2>2. IF x = Server THEN Other(Side(x)) = "client" ELSE Other(Side(x)) = "server"
    BY DEF Other, Side
  <2>3. ASSUME NEW g \in Fd, NEW n \in Unread(sock'[g], "server") PROVE FromClient(n)
    <3>1. n \in Unread(sock[g], "server") \/ (n = m /\ x # Server)
      BY <1>2, <2>2 DEF Program
    <3> QED
      BY <3>1, SMTT(60) DEF HInv, Packages
  <2>4. ASSUME NEW g \in Fd, NEW n \in Unread(sock'[g], "client") PROVE FromServer(n)
    <3>1. n \in Unread(sock[g], "client") \/ (n = m /\ x = Server)
      BY <1>2, <2>2 DEF Program
    <3> QED
      BY <3>1 DEF HInv, Packages
  <2> QED
    BY <2>1, <2>3, <2>4 DEF Packages
<1>7. Queued'
  <2> SUFFICES ASSUME NEW fd \in Fd, sock'[fd].server = "queued"
               PROVE  /\ Unread(sock'[fd], "client") = {}
                      /\ \A y \in Dialer :
                           /\ fd \notin held'[y]
                           /\ call'[y].fd = fd => call'[y].pc \in {"send_name", "recv_status"}
    BY DEF Queued
  <2>1. sock[fd].server = "queued"
    BY <1>2 DEF EndsKept
  <2>2. x = Server => fd # call[x].fd /\ Other(Side(x)) = "client"
    BY <2>1, Connected, Sides DEF Other
  <2>3. x # Server => Other(Side(x)) = "server" /\ x \in Dialer
    BY SMTT(60) DEF Other, Side, Caller
  <2>4. Unread(sock'[fd], "client") = {}
    BY <2>1, <2>2, <2>3, <1>2 DEF HInv, Queued, Program
  <2> QED
    BY <2>1, <2>3, <2>4, <2>2, HandshakeConstants DEF HInv, Queued, Caller
<1> QED
  BY <1>2, <1>3, <1>4, <1>5, <1>6, <1>7

\* An end is closed by its owner; nobody else has it.
LEMMA EndClosed ==
    ASSUME HInv, NEW x \in Caller, NEW f \in Fd, Owns(x, f),
           sock' = CloseEnd(sock, f, Side(x)), Steps',
           \A y \in Caller, g \in Fd : Owns(y, g)' <=> Owns(y, g) /\ ~(y = x /\ g = f),
           held' \in [Caller -> SUBSET Fd], \A y \in Caller : held'[y] \subseteq held[y],
           call' \in [Caller -> Call],
           \A y \in Caller : \/ call'[y] = call[y]
                             \/ call'[y].pc = "idle" /\ call'[y].fd = NULL,
           UNCHANGED <<node, ec, info, epmd, asking, made>>
    PROVE  HInv'
<1> DEFINE p == Side(x)
<1>1. /\ sock[f] \in Socket /\ sock[f][p] = "open"
      /\ p \in Program /\ sock \in [Fd -> Socket]
  BY Sides DEF HInv, Types, Owned
<1>2. /\ sock' \in [Fd -> Socket] /\ NothingSent
      /\ \A g \in Fd \ {f} : sock'[g] = sock[g]
      /\ sock'[f][p] = "closed" /\ sock'[f][Other(p)] = sock[f][Other(p)]
      /\ Unread(sock'[f], p) = {}
  BY <1>1, Closed
<1>3. Types'
  BY <1>2 DEF HInv, Types
<1>4. \A q \in Program : q = p \/ q = Other(p)
  BY <1>1 DEF Program, Other
<1>5. Owned'
  <2>1. \A y \in Caller, g \in Fd : Owns(y, g)' => sock'[g][Side(y)] = "open"
    <3> SUFFICES ASSUME NEW y \in Caller, NEW g \in Fd, Owns(y, g)' PROVE sock'[g][Side(y)] = "open"
      OBVIOUS
    <3>1. Owns(y, g) /\ sock[g][Side(y)] = "open" /\ ~(y = x /\ g = f)
      BY DEF HInv, Owned
    <3>2. CASE g = f
      BY <3>1, <3>2, <1>1, <1>2, <1>4, Sides DEF HInv, Owned
    <3>3. CASE g # f
      BY <3>1, <3>3, <1>2
    <3> QED
      BY <3>2, <3>3
  <2>2. \A g \in Fd, q \in Program :
          sock'[g][q] = "open" => \E y \in Caller : Side(y) = q /\ Owns(y, g)'
    <3> SUFFICES ASSUME NEW g \in Fd, NEW q \in Program, sock'[g][q] = "open"
                 PROVE  \E y \in Caller : Side(y) = q /\ Owns(y, g)'
      OBVIOUS
    <3>1. sock[g][q] = "open" /\ ~(g = f /\ q = p)
      BY <1>2, <1>4
    <3>2. PICK y \in Caller : Side(y) = q /\ Owns(y, g)
      BY <3>1 DEF HInv, Owned
    <3> QED
      BY <3>1, <3>2
  <2>3. \A y, z \in Caller, g \in Fd :
          Side(y) = Side(z) /\ Owns(y, g)' /\ Owns(z, g)' => y = z
    BY DEF HInv, Owned
  <2>4. \A y \in Caller : call'[y].fd \notin held'[y]
    BY HandshakeConstants DEF HInv, Owned
  <2> QED
    BY <2>1, <2>2, <2>3, <2>4 DEF Owned
<1>6. Recorded'
  BY RecordedKept DEF HInv
<1>7. Packages'
  BY <1>2, PackagesKept DEF HInv
<1>8. Queued'
  <2>1. \A g \in Fd : sock'[g].server = "queued" => sock[g].server = "queued"
    BY <1>2, <1>4 DEF Program, Other
  <2>2. \A y \in Dialer, g \in Fd : call'[y].fd = g => call'[y] = call[y]
    BY HandshakeConstants DEF Caller
  <2>3. \A g \in Fd : Unread(sock'[g], "client") \subseteq Unread(sock[g], "client")
    BY <1>2 DEF NothingSent, Program
  <2>4. \A y \in Dialer : held'[y] \subseteq held[y]
    BY DEF Caller
  <2> QED
    BY <2>1, <2>2, <2>3, <2>4, ZenonT(60) DEF HInv, Queued
<1>9. Known'
  BY DEF HInv, Known, SameCookie
<1>10. Matched'
  <2>1. \A y \in Caller, g \in Fd : call'[y].fd = g => call'[y] = call[y]
    BY HandshakeConstants
  <2> QED
    BY <1>2, <2>1
       DEF HInv, Matched, RepliesMatch, ChallengesMatch, CallsMatch, NothingSent, Program, Caller
<1> QED
  BY <1>3, <1>5, <1>6, <1>7, <1>8, <1>9, <1>10 DEF HInv

\* A call that fails closes what it has opened.
LEMMA FailOne ==
    ASSUME HInv, NEW x \in Caller, call[x].pc \notin Unconnected, Fail(x),
           UNCHANGED <<node, ec, info, held, epmd, asking, made>>
    PROVE  HInv'
<1>1. call[x].fd \in Fd /\ Owns(x, call[x].fd)
  BY Connected
<1>2. sock' = CloseEnd(sock, call[x].fd, Side(x))
  BY DEF Fail
<1>3. /\ call' = [call EXCEPT ![x] = NoCall("error")] /\ NoCall("error") \in Call
      /\ NoCall("error").pc = "idle" /\ NoCall("error").fd = NULL
  BY DEF Fail, NoCall, Call, AcceptPc, Flags, Value
<1>4. /\ \A y \in Caller \ {x} : call'[y] = call[y]
      /\ call'[x].pc = "idle" /\ call'[x].fd = NULL /\ call' \in [Caller -> Call]
  BY <1>3 DEF HInv, Types
<1>5. Steps'
  BY <1>1, <1>4 DEF HInv, Steps, AcceptPc, DialPc, Unconnected, Unversioned
<1>6. \A y \in Caller, g \in Fd : Owns(y, g)' <=> Owns(y, g) /\ ~(y = x /\ g = call[x].fd)
  BY <1>1, <1>4, HandshakeConstants DEF Owns, HInv, Owned
<1>7. held' \in [Caller -> SUBSET Fd] /\ \A y \in Caller : held'[y] \subseteq held[y]
  BY DEF HInv, Types
<1> QED
  BY <1>1, <1>2, <1>4, <1>5, <1>6, <1>7, EndClosed

\* A call that is on no socket before the step, nor after it.
LEMMA OffSocket ==
    ASSUME HInv, NEW x \in Caller, call[x].pc \in Unconnected,
           call' \in [Caller -> Call], \A y \in Caller \ {x} : call'[y] = call[y],
           call'[x].pc \in Unconnected, call'[x].pc \in IF x = Server THEN AcceptPc ELSE DialPc,
           call'[x].fd = NULL, call'[x].pc # "idle" => ec[Side(x)] # NULL,
           call'[x].pc = "cnct" => call'[x].dist = 5,
           asking' = IF call'[x].pc = "port" THEN asking \cup {x} ELSE asking \ {x},
           UNCHANGED <<node, ec, sock, info, held>>,
           epmd' \in {"down", "up", "alive"}, made' \in 0..MaxConnects
    PROVE  HInv'
<1>1. call[x].fd = NULL
  BY DEF HInv, Steps
<1>2. EndsKept /\ NothingSent
  BY DEF EndsKept, NothingSent
<1>3. Types'
  BY DEF HInv, Types
<1>4. Steps'
  BY <1>1 DEF HInv, Steps, Unversioned, Unconnected
<1>5. Owned'
  BY <1>1, <1>2, OwnedKept DEF HInv
<1>6. Recorded'
  BY RecordedKept DEF HInv
<1>7. Packages'
  BY <1>2, PackagesKept DEF HInv
<1>8. Queued'
  BY HandshakeConstants DEF HInv, Queued, Caller
<1>9. Known'
  BY DEF HInv, Known, SameCookie, Unconnected
<1>10. Matched'
  BY HandshakeConstants DEF HInv, Matched, RepliesMatch, ChallengesMatch, CallsMatch, Caller
<1> QED
  BY <1>3, <1>4, <1>5, <1>6, <1>7, <1>8, <1>9, <1>10 DEF HInv

-----------------------------------------------------------------------------
(* The steps of the handshake: those of the client, then those of the      *)
(* server.  Each fails or goes on to the next.                             *)

\* A call that goes on stays on its socket, and has made sure of the version.
LEMMA GoesOn ==
    ASSUME HInv, NEW x \in Caller, call[x].pc \notin Unconnected,
           NEW c \in Call, call' = [call EXCEPT ![x] = c],
           c.pc \in IF x = Server THEN AcceptPc ELSE DialPc, c.pc \notin Unconnected,
           c.pc \notin Unversioned, c.fd = call[x].fd, c.dist = 5,
           UNCHANGED <<ec, asking>>
    PROVE  /\ Steps' /\ call' \in [Caller -> Call]
           /\ \A y \in Caller \ {x} : call'[y] = call[y]
           /\ call'[x] = c
<1>1. /\ call' \in [Caller -> Call] /\ \A y \in Caller \ {x} : call'[y] = call[y]
      /\ call'[x] = c
  BY DEF HInv, Types
<1> QED
  BY <1>1 DEF HInv, Steps, Unversioned, Unconnected

\* The client is let in.
LEMMA RecvStatus ==
    ASSUME HInv, NEW x \in Caller, recv_status(x)
    PROVE  HInv'
<1> DEFINE m == Head(Arrived(x))
<1>1. /\ call[x].pc = "recv_status" /\ call[x].pc \notin Unconnected
      /\ x \in Dialer /\ x # Server /\ Side(x) = "client" /\ call[x] \in Call
      /\ UNCHANGED <<node, ec, info, held, epmd, asking, made>>
  BY Sides, HandshakeConstants
     DEF recv_status, At, HInv, Types, Steps, Caller, Unconnected, AcceptPc, DialPc
<1>2. CASE ~Fail(x)
  <2>1. /\ Arrived(x) # <<>> /\ m.tag = "s" /\ m.status = "ok"
        /\ sock' = [sock EXCEPT ![call[x].fd].in[Side(x)] = Tail(@)]
        /\ call' = [call EXCEPT ![x] = Goto(x, "recv_challenge")]
    BY <1>2 DEF recv_status, read_2byte_package
  <2> DEFINE c == Goto(x, "recv_challenge")
  <2>2. m \in Package /\ m \in Unread(sock[call[x].fd], "client") /\ FromServer(m)
    <3>1. call[x].fd \in Fd /\ sock \in [Fd -> Socket] /\ "client" \in Program
      <4>1. call[x].fd \in Fd
        BY <1>1, Connected
      <4>2. sock \in [Fd -> Socket]
        BY Zenon DEF HInv, Types
      <4>3. "client" \in Program
        BY ZenonT(60) DEF Program
      <4> QED
        BY <4>1, <4>2, <4>3, Zenon
    <3>2. m \in Package /\ m \in Unread(sock[call[x].fd], "client")
      BY <1>1, <2>1, <3>1, Reading1 DEF Arrived
    <3> QED
      BY <3>1, <3>2 DEF HInv, Packages
  <2>3. /\ c \in Call /\ c.pc = "recv_challenge" /\ c.fd = call[x].fd /\ c.dist = 5
        /\ c.ours = call[x].ours
    BY <1>1, <2>1, <2>2 DEF Goto, Call, DialPc, AcceptPc, Value, Package, HInv, Steps, Unversioned
  <2>4. call' = [call EXCEPT ![x] = c]
    BY <2>1
  <2> HIDE DEF c, m
  <2>5. /\ Steps' /\ call' \in [Caller -> Call] /\ call'[x] = c
        /\ \A y \in Caller \ {x} : call'[y] = call[y]
    BY <1>1, <2>4, <2>3, GoesOn DEF Unconnected, Unversioned, DialPc, AcceptPc
  <2>6. Types' /\ Owned' /\ Recorded' /\ Queued' /\ Packages' /\ NothingSent
    BY <1>1, <2>1, <2>3, <2>5, ReadOne
  <2>7. Known'
    BY <1>1, <2>1, <2>2, <2>3, <2>5 DEF HInv, Known, SameCookie, FromClient, FromServer, gen_digest
  <2>8. Matched'
    <3>1. \A d \in Dialer \ {x} : Side(d) = Side(x) => call[d].fd # call[x].fd
      BY <1>1, Connected DEF Caller
    <3>2. \A d \in Dialer : Side(d) = "client" /\ d # Server /\ d \in Caller
      BY Sides, HandshakeConstants DEF Caller
    <3> SUFFICES ASSUME NEW d \in Dialer, NEW fd \in Fd
                 PROVE  (RepliesMatch(d, fd) /\ ChallengesMatch(fd) /\ CallsMatch(d, fd))'
      BY DEF Matched
    <3>3. RepliesMatch(d, fd) /\ ChallengesMatch(fd) /\ CallsMatch(d, fd)
      BY SMTT(60) DEF HInv, Matched
    <3>4. RepliesMatch(d, fd)'
      BY ZenonT(60), <1>1, <2>1, <2>2, <2>3, <2>5, <2>6, <3>1, <3>2, <3>3
         DEF RepliesMatch, NothingSent, Program, Caller, Answered
    <3>5. ChallengesMatch(fd)'
      BY <1>1, <2>1, <2>2, <2>3, <2>5, <2>6, <3>1, <3>2, <3>3
         DEF ChallengesMatch, NothingSent, Program, Caller, Challenged
    <3>6. CallsMatch(d, fd)'
      BY <1>1, <2>1, <2>2, <2>3, <2>5, <2>6, <3>1, <3>2, <3>3
         DEF RepliesMatch, ChallengesMatch, CallsMatch, Caller, Answered, Challenged
    <3> QED
      BY <3>4, <3>5, <3>6
  <2> QED
    BY <2>5, <2>6, <2>7, <2>8 DEF HInv
<1> QED
  BY <1>1, <1>2, FailOne

\* The client says its name, version and flags.
LEMMA SendName ==
    ASSUME HInv, NEW x \in Caller, send_name(x)
    PROVE  HInv'
<1>1. /\ call[x].pc = "send_name" /\ call[x].pc \notin Unconnected
      /\ x \in Dialer /\ x # Server /\ Side(x) = "client" /\ call[x] \in Call
      /\ UNCHANGED <<node, ec, info, held, epmd, asking, made>>
  BY SMTT(60), Sides, HandshakeConstants
     DEF send_name, At, HInv, Types, Steps, Caller, Unconnected, AcceptPc, DialPc
<1>2. CASE ~Fail(x)
  <2>1. /\ sock' = IF PeerGone(x) THEN sock
                   ELSE [sock EXCEPT ![call[x].fd].in[Other(Side(x))] = Append(@,
                         [tag |-> "n", version |-> call[x].dist,
                          flags |-> node[Side(x)].flags, challenge |-> NULL])]
        /\ call' = [call EXCEPT ![x] = Goto(x, "recv_status")]
    BY <1>2 DEF send_name, Write, send_name_or_challenge
  <2> DEFINE c == Goto(x, "recv_status")
             m == [tag |-> "n", version |-> call[x].dist,
                   flags |-> node[Side(x)].flags, challenge |-> NULL]
  <2>2. m \in Package /\ FromClient(m)
    BY SMTT(60), <1>1, HandshakeConstants
       DEF HInv, Types, Steps, Known, Package, Call, Value, Flags, Digest, gen_digest,
           FromClient, FromServer, Program
  <2>3. /\ c \in Call /\ c.pc = "recv_status" /\ c.fd = call[x].fd /\ c.dist = 5
        /\ c.ours = call[x].ours
    BY <1>1, <2>1, <2>2 DEF Goto, Call, DialPc, AcceptPc, Value, Package, HInv, Steps, Unversioned
  <2>4. call' = [call EXCEPT ![x] = c]
    BY <2>1
  <2> HIDE DEF c
  <2>5. /\ Steps' /\ call' \in [Caller -> Call] /\ call'[x] = c
        /\ \A y \in Caller \ {x} : call'[y] = call[y]
    BY <1>1, <2>4, <2>3, GoesOn DEF Unconnected, Unversioned, DialPc, AcceptPc
  <2> HIDE DEF m
  <2>6. /\ Types' /\ Owned' /\ Recorded' /\ Queued' /\ Packages'
        /\ \A g \in Fd, q \in Program : \A n \in Unread(sock'[g], q) :
             n \in Unread(sock[g], q) \/ (g = call[x].fd /\ q = Other(Side(x)) /\ n = m)
    <3>1. sock' = IF PeerGone(x) THEN sock
                  ELSE [sock EXCEPT ![call[x].fd].in[Other(Side(x))] = Append(@, m)]
      BY <2>1 DEF m
    <3> QED
      BY <1>1, <2>2, <2>3, <2>5, <3>1, WriteOne
  <2>7. Known'
    BY <1>1, <2>3, <2>5 DEF HInv, Known, SameCookie
  <2>8. Matched'
    <3>1. \A d \in Dialer \ {x} : Side(d) = Side(x) => call[d].fd # call[x].fd
      BY <1>1, Connected DEF Caller
    <3>2. \A d \in Dialer : Side(d) = "client" /\ d # Server /\ d \in Caller
      BY Sides, HandshakeConstants DEF Caller
    <3> SUFFICES ASSUME NEW d \in Dialer, NEW fd \in Fd
                 PROVE  (RepliesMatch(d, fd) /\ ChallengesMatch(fd) /\ CallsMatch(d, fd))'
      BY DEF Matched
    <3>3. RepliesMatch(d, fd) /\ ChallengesMatch(fd) /\ CallsMatch(d, fd)
      BY DEF HInv, Matched
    <3>4. RepliesMatch(d, fd)'
      BY <1>1, <2>3, <2>5, <2>6, <3>1, <3>2, <3>3
         DEF RepliesMatch, m, Other, Program, Caller, Answered
    <3>5. ChallengesMatch(fd)'
      BY <1>1, <2>3, <2>5, <2>6, <3>1, <3>2, <3>3
         DEF ChallengesMatch, m, Other, Program, Caller, Challenged
    <3>6. CallsMatch(d, fd)'
      BY <1>1, <2>3, <2>5, <2>6, <3>1, <3>2, <3>3
         DEF RepliesMatch, ChallengesMatch, CallsMatch, Caller, Answered, Challenged
    <3> QED
      BY <3>4, <3>5, <3>6
  <2> QED
    BY <2>5, <2>6, <2>7, <2>8 DEF HInv
<1> QED
  BY <1>1, <1>2, FailOne

\* The client holds the challenge of the server and makes one of its own.
LEMMA RecvChallenge ==
    ASSUME HInv, NEW x \in Caller, recv_challenge(x)
    PROVE  HInv'
<1> DEFINE m == Head(Arrived(x))
<1>1. /\ call[x].pc = "recv_challenge" /\ call[x].pc \notin Unconnected
      /\ x \in Dialer /\ x # Server /\ Side(x) = "client" /\ call[x] \in Call
      /\ UNCHANGED <<node, ec, info, held, epmd, asking, made>>
  BY SMTT(60), Sides, HandshakeConstants
     DEF recv_challenge, At, HInv, Types, Steps, Caller, Unconnected, AcceptPc, DialPc
<1>2. CASE ~Fail(x)
  <2>1. PICK ours \in Challenge :
        /\ Arrived(x) # <<>> /\ m.tag = "n" /\ Capable(m.flags)
        /\ sock' = [sock EXCEPT ![call[x].fd].in[Side(x)] = Tail(@)]
        /\ call' = [call EXCEPT ![x] = [Goto(x, "send_challenge_reply") EXCEPT
                          !.hers = m.challenge, !.ours = ours, !.flags = m.flags]]
    BY <1>2 DEF recv_challenge, read_2byte_package
  <2> DEFINE c == [Goto(x, "send_challenge_reply") EXCEPT
                          !.hers = m.challenge, !.ours = ours, !.flags = m.flags]
  <2>2. m \in Package /\ m \in Unread(sock[call[x].fd], "client") /\ FromServer(m)
    <3>1. call[x].fd \in Fd /\ sock \in [Fd -> Socket] /\ "client" \in Program
      <4>1. call[x].fd \in Fd
        BY <1>1, Connected
      <4>2. sock \in [Fd -> Socket]
        BY Zenon DEF HInv, Types
      <4>3. "client" \in Program
        BY ZenonT(60) DEF Program
      <4> QED
        BY <4>1, <4>2, <4>3, Zenon
    <3>2. m \in Package /\ m \in Unread(sock[call[x].fd], "client")
      BY <1>1, <2>1, <3>1, Reading1, ZenonT(60) DEF Arrived
    <3> QED
      BY <3>1, <3>2 DEF HInv, Packages
  <2>3. /\ c \in Call /\ c.pc = "send_challenge_reply" /\ c.fd = call[x].fd /\ c.dist = 5
        /\ c.hers = m.challenge
    BY <1>1, <2>1, <2>2 DEF Goto, Call, DialPc, AcceptPc, Value, Package, HInv, Steps, Unversioned
  <2>4. call' = [call EXCEPT ![x] = c]
    BY <2>1
  <2> HIDE DEF c, m
  <2>5. /\ Steps' /\ call' \in [Caller -> Call] /\ call'[x] = c
        /\ \A y \in Caller \ {x} : call'[y] = call[y]
    BY <1>1, <2>4, <2>3, GoesOn DEF Unconnected, Unversioned, DialPc, AcceptPc
  <2>6. Types' /\ Owned' /\ Recorded' /\ Queued' /\ Packages' /\ NothingSent
    BY <1>1, <2>1, <2>3, <2>5, ReadOne
  <2>7. Known'
    BY <1>1, <2>1, <2>2, <2>3, <2>5 DEF HInv, Known, SameCookie, FromClient, FromServer, gen_digest
  <2>8. Matched'
    <3>1. \A d \in Dialer \ {x} : Side(d) = Side(x) => call[d].fd # call[x].fd
      BY <1>1, Connected DEF Caller
    <3>2. \A d \in Dialer : Side(d) = "client" /\ d # Server /\ d \in Caller
      BY Sides, HandshakeConstants DEF Caller
    <3> SUFFICES ASSUME NEW d \in Dialer, NEW fd \in Fd
                 PROVE  (RepliesMatch(d, fd) /\ ChallengesMatch(fd) /\ CallsMatch(d, fd))'
      BY DEF Matched
    <3>3. RepliesMatch(d, fd) /\ ChallengesMatch(fd) /\ CallsMatch(d, fd)
      BY SMTT(60) DEF HInv, Matched
    <3>4. RepliesMatch(d, fd)'
      BY <1>1, <2>1, <2>2, <2>3, <2>5, <2>6, <3>1, <3>2, <3>3
         DEF RepliesMatch, NothingSent, Program, Caller, Answered
    <3>5. ChallengesMatch(fd)'
      BY <1>1, <2>1, <2>2, <2>3, <2>5, <2>6, <3>1, <3>2, <3>3
         DEF ChallengesMatch, NothingSent, Program, Caller, Challenged
    <3>6. CallsMatch(d, fd)'
      BY ZenonT(60), <1>1, <2>1, <2>2, <2>3, <2>5, <2>6, <3>1, <3>2, <3>3
         DEF RepliesMatch, ChallengesMatch, CallsMatch, Caller, Answered, Challenged
    <3> QED
      BY <3>4, <3>5, <3>6
  <2> QED
    BY <2>5, <2>6, <2>7, <2>8 DEF HInv
<1> QED
  BY <1>1, <1>2, FailOne

\* The client answers with the digest of the challenge and its cookie.
LEMMA SendChallengeReply ==
    ASSUME HInv, NEW x \in Caller, send_challenge_reply(x)
    PROVE  HInv'
<1>1. /\ call[x].pc = "send_challenge_reply" /\ call[x].pc \notin Unconnected
      /\ x \in Dialer /\ x # Server /\ Side(x) = "client" /\ call[x] \in Call
      /\ UNCHANGED <<node, ec, info, held, epmd, asking, made>>
  BY Sides, HandshakeConstants
     DEF send_challenge_reply, At, HInv, Types, Steps, Caller, Unconnected, AcceptPc, DialPc
<1>2. CASE ~Fail(x)
  <2>1. /\ sock' = IF PeerGone(x) THEN sock
                   ELSE [sock EXCEPT ![call[x].fd].in[Other(Side(x))] = Append(@, [tag |-> "r", challenge |-> call[x].ours, digest |-> gen_digest(call[x].hers, ec[Side(x)])])]
        /\ call' = [call EXCEPT ![x] = Goto(x, "recv_challenge_ack")]
    BY <1>2 DEF send_challenge_reply, Write
  <2> DEFINE c == Goto(x, "recv_challenge_ack")
             m == [tag |-> "r", challenge |-> call[x].ours, digest |-> gen_digest(call[x].hers, ec[Side(x)])]
  <2>2. m \in Package /\ FromClient(m)
    BY <1>1, HandshakeConstants
       DEF HInv, Types, Steps, Known, Package, Call, Value, Flags, Digest, gen_digest,
           FromClient, FromServer, Program
  <2>3. /\ c \in Call /\ c.pc = "recv_challenge_ack" /\ c.fd = call[x].fd /\ c.dist = 5
        /\ c.hers = call[x].hers /\ c.ours = call[x].ours
    BY <1>1, <2>1, <2>2 DEF Goto, Call, DialPc, AcceptPc, Value, Package, HInv, Steps, Unversioned
  <2>4. call' = [call EXCEPT ![x] = c]
    BY <2>1
  <2> HIDE DEF c
  <2>5. /\ Steps' /\ call' \in [Caller -> Call] /\ call'[x] = c
        /\ \A y \in Caller \ {x} : call'[y] = call[y]
    BY <1>1, <2>4, <2>3, GoesOn DEF Unconnected, Unversioned, DialPc, AcceptPc
  <2> HIDE DEF m
  <2>6. /\ Types' /\ Owned' /\ Recorded' /\ Queued' /\ Packages'
        /\ \A g \in Fd, q \in Program : \A n \in Unread(sock'[g], q) :
             n \in Unread(sock[g], q) \/ (g = call[x].fd /\ q = Other(Side(x)) /\ n = m)
    <3>1. sock' = IF PeerGone(x) THEN sock
                  ELSE [sock EXCEPT ![call[x].fd].in[Other(Side(x))] = Append(@, m)]
      BY <2>1 DEF m
    <3> QED
      BY <1>1, <2>2, <2>3, <2>5, <3>1, WriteOne
  <2>7. Known'
    BY <1>1, <2>3, <2>5 DEF HInv, Known, SameCookie
  <2>8. Matched'
    <3>1. \A d \in Dialer \ {x} : Side(d) = Side(x) => call[d].fd # call[x].fd
      BY <1>1, Connected DEF Caller
    <3>2. \A d \in Dialer : Side(d) = "client" /\ d # Server /\ d \in Caller
      BY Sides, HandshakeConstants DEF Caller
    <3> SUFFICES ASSUME NEW d \in Dialer, NEW fd \in Fd
                 PROVE  (RepliesMatch(d, fd) /\ ChallengesMatch(fd) /\ CallsMatch(d, fd))'
      BY DEF Matched
    <3>3. RepliesMatch(d, fd) /\ ChallengesMatch(fd) /\ CallsMatch(d, fd)
      BY DEF HInv, Matched
    <3>4. RepliesMatch(d, fd)'
      BY <1>1, <2>3, <2>5, <2>6, <3>1, <3>2, <3>3
         DEF RepliesMatch, m, Other, Program, Caller, Answered
    <3>5. ChallengesMatch(fd)'
      BY <1>1, <2>3, <2>5, <2>6, <3>1, <3>2, <3>3
         DEF ChallengesMatch, m, Other, Program, Caller, Challenged
    <3>6. CallsMatch(d, fd)'
      BY <1>1, <2>3, <2>5, <2>6, <3>1, <3>2, <3>3
         DEF RepliesMatch, ChallengesMatch, CallsMatch, Caller, Answered, Challenged
    <3> QED
      BY <3>4, <3>5, <3>6
  <2> QED
    BY <2>5, <2>6, <2>7, <2>8 DEF HInv
<1> QED
  BY <1>1, <1>2, FailOne

\* The server has proved its cookie; the connection is made at the client.
LEMMA RecvChallengeAck ==
    ASSUME HInv, NEW x \in Caller, recv_challenge_ack(x)
    PROVE  HInv'
<1> DEFINE m == Head(Arrived(x))
<1>1. /\ call[x].pc = "recv_challenge_ack" /\ call[x].pc \notin Unconnected
      /\ x \in Dialer /\ x # Server /\ Side(x) = "client" /\ call[x] \in Call
      /\ UNCHANGED <<node, ec, info, held, epmd, asking, made>>
  BY Sides, HandshakeConstants
     DEF recv_challenge_ack, At, HInv, Types, Steps, Caller, Unconnected, AcceptPc, DialPc
<1>2. CASE ~Fail(x)
  <2>1. /\ Arrived(x) # <<>> /\ m.tag = "a" /\ m.digest = gen_digest(call[x].ours, ec[Side(x)])
        /\ sock' = [sock EXCEPT ![call[x].fd].in[Side(x)] = Tail(@)]
        /\ call' = [call EXCEPT ![x] = Goto(x, "put")]
    BY <1>2 DEF recv_challenge_ack, read_2byte_package
  <2> DEFINE c == Goto(x, "put")
  <2>2. m \in Package /\ m \in Unread(sock[call[x].fd], "client") /\ FromServer(m)
    <3>1. call[x].fd \in Fd /\ sock \in [Fd -> Socket] /\ "client" \in Program
      <4>1. call[x].fd \in Fd
        BY <1>1, Connected
      <4>2. sock \in [Fd -> Socket]
        BY Zenon DEF HInv, Types
      <4>3. "client" \in Program
        BY Zenon, ZenonT(60) DEF Program
      <4> QED
        BY <4>1, <4>2, <4>3, Zenon
    <3>2. m \in Package /\ m \in Unread(sock[call[x].fd], "client")
      BY <1>1, <2>1, <3>1, Reading1 DEF Arrived
    <3> QED
      BY <3>1, <3>2 DEF HInv, Packages
  <2>3. /\ c \in Call /\ c.pc = "put" /\ c.fd = call[x].fd /\ c.dist = 5
        /\ c.hers = call[x].hers /\ c.ours = call[x].ours
    BY <1>1, <2>1, <2>2 DEF Goto, Call, DialPc, AcceptPc, Value, Package, HInv, Steps, Unversioned
  <2>4. call' = [call EXCEPT ![x] = c]
    BY <2>1
  <2> HIDE DEF c, m
  <2>5. /\ Steps' /\ call' \in [Caller -> Call] /\ call'[x] = c
        /\ \A y \in Caller \ {x} : call'[y] = call[y]
    BY <1>1, <2>4, <2>3, GoesOn DEF Unconnected, Unversioned, DialPc, AcceptPc
  <2>6. Types' /\ Owned' /\ Recorded' /\ Queued' /\ Packages' /\ NothingSent
    BY <1>1, <2>1, <2>3, <2>5, ReadOne
  <2>7. Known'
    BY <1>1, <2>1, <2>2, <2>3, <2>5 DEF HInv, Known, SameCookie, FromClient, FromServer, gen_digest
  <2>8. Matched'
    <3>1. \A d \in Dialer \ {x} : Side(d) = Side(x) => call[d].fd # call[x].fd
      BY <1>1, Connected DEF Caller
    <3>2. \A d \in Dialer : Side(d) = "client" /\ d # Server /\ d \in Caller
      BY Sides, HandshakeConstants DEF Caller
    <3> SUFFICES ASSUME NEW d \in Dialer, NEW fd \in Fd
                 PROVE  (RepliesMatch(d, fd) /\ ChallengesMatch(fd) /\ CallsMatch(d, fd))'
      BY DEF Matched
    <3>3. RepliesMatch(d, fd) /\ ChallengesMatch(fd) /\ CallsMatch(d, fd)
      BY DEF HInv, Matched
    <3>4. RepliesMatch(d, fd)'
      BY ZenonT(60), <1>1, <2>1, <2>2, <2>3, <2>5, <2>6, <3>1, <3>2, <3>3
         DEF RepliesMatch, NothingSent, Program, Caller, Answered
    <3>5. ChallengesMatch(fd)'
      BY <1>1, <2>1, <2>2, <2>3, <2>5, <2>6, <3>1, <3>2, <3>3
         DEF ChallengesMatch, NothingSent, Program, Caller, Challenged
    <3>6. CallsMatch(d, fd)'
      BY <1>1, <2>1, <2>2, <2>3, <2>5, <2>6, <3>1, <3>2, <3>3
         DEF RepliesMatch, ChallengesMatch, CallsMatch, Caller, Answered, Challenged
    <3> QED
      BY <3>4, <3>5, <3>6
  <2> QED
    BY <2>5, <2>6, <2>7, <2>8 DEF HInv
<1> QED
  BY <1>1, <1>2, FailOne

\* The server learns what the client is, and turns away one that can do too little.
LEMMA RecvName ==
    ASSUME HInv, NEW x \in Caller, recv_name(x)
    PROVE  HInv'
<1> DEFINE m == Head(Arrived(x))
<1>1. /\ call[x].pc = "recv_name" /\ call[x].pc \notin Unconnected
      /\ x = Server /\ Side(x) = "server" /\ call[x] \in Call
      /\ UNCHANGED <<node, ec, info, held, epmd, asking, made>>
  BY Sides, HandshakeConstants
     DEF recv_name, At, HInv, Types, Steps, Caller, Unconnected, AcceptPc, DialPc
<1>2. CASE ~Fail(x)
  <2>1. /\ Arrived(x) # <<>> /\ m.tag = "n" /\ Capable(m.flags) /\ m.version > 4
        /\ sock' = [sock EXCEPT ![call[x].fd].in[Side(x)] = Tail(@)]
        /\ call' = [call EXCEPT ![x] = [Goto(x, "send_status") EXCEPT !.dist = m.version, !.flags = m.flags]]
    BY <1>2 DEF recv_name, read_2byte_package
  <2> DEFINE c == [Goto(x, "send_status") EXCEPT !.dist = m.version, !.flags = m.flags]
  <2>2. m \in Package /\ m \in Unread(sock[call[x].fd], "server") /\ FromClient(m)
    <3>1. call[x].fd \in Fd /\ sock \in [Fd -> Socket] /\ "server" \in Program
      <4>1. call[x].fd \in Fd
        BY <1>1, Connected
      <4>2. sock \in [Fd -> Socket]
        BY Zenon DEF HInv, Types
      <4>3. "server" \in Program
        BY ZenonT(60) DEF Program
      <4> QED
        BY <4>1, <4>2, <4>3, Zenon
    <3>2. m \in Package /\ m \in Unread(sock[call[x].fd], "server")
      BY <1>1, <2>1, <3>1, Reading1 DEF Arrived
    <3> QED
      BY <3>1, <3>2 DEF HInv, Packages
  <2>3. m.version = 5 /\ m.flags \in Flags
    BY <2>1, <2>2 DEF Package
  <2>4. /\ c \in Call /\ c.pc = "send_status" /\ c.fd = call[x].fd /\ c.dist = 5
    BY ZenonT(60), <1>1, <2>1, <2>2, <2>3
       DEF Goto, Call, DialPc, AcceptPc, Value, Package, HInv, Steps, Unversioned
  <2>5. call' = [call EXCEPT ![x] = c]
    BY <2>1
  <2> HIDE DEF c, m
  <2>6. /\ Steps' /\ call' \in [Caller -> Call] /\ call'[x] = c
        /\ \A y \in Caller \ {x} : call'[y] = call[y]
    BY <1>1, <2>5, <2>4, GoesOn DEF Unconnected, Unversioned, DialPc, AcceptPc
  <2>7. Types' /\ Owned' /\ Recorded' /\ Queued' /\ Packages' /\ NothingSent
    BY <1>1, <2>1, <2>4, <2>6, ReadOne
  <2>8. Known'
    BY <1>1, <2>1, <2>2, <2>4, <2>6 DEF HInv, Known, SameCookie, FromClient, FromServer, gen_digest
  <2>9. Matched'
    <3>1. \A d \in Dialer \ {x} : Side(d) = Side(x) => call[d].fd # call[x].fd
      BY <1>1, Connected DEF Caller
    <3>2. \A d \in Dialer : Side(d) = "client" /\ d # Server /\ d \in Caller
      BY Sides, HandshakeConstants DEF Caller
    <3> SUFFICES ASSUME NEW d \in Dialer, NEW fd \in Fd
                 PROVE  (RepliesMatch(d, fd) /\ ChallengesMatch(fd) /\ CallsMatch(d, fd))'
      BY DEF Matched
    <3>3. RepliesMatch(d, fd) /\ ChallengesMatch(fd) /\ CallsMatch(d, fd)
      BY SMTT(60) DEF HInv, Matched
    <3>4. RepliesMatch(d, fd)'
      BY <1>1, <2>1, <2>2, <2>4, <2>6, <2>7, <3>1, <3>2, <3>3
         DEF RepliesMatch, NothingSent, Program, Caller, Answered
    <3>5. ChallengesMatch(fd)'
      BY <1>1, <2>1, <2>2, <2>4, <2>6, <2>7, <3>1, <3>2, <3>3
         DEF ChallengesMatch, NothingSent, Program, Caller, Challenged
    <3>6. CallsMatch(d, fd)'
      BY <1>1, <2>1, <2>2, <2>4, <2>6, <2>7, <3>1, <3>2, <3>3
         DEF RepliesMatch, ChallengesMatch, CallsMatch, Caller, Answered, Challenged
    <3> QED
      BY <3>4, <3>5, <3>6
  <2> QED
    BY <2>6, <2>7, <2>8, <2>9 DEF HInv
<1> QED
  BY <1>1, <1>2, FailOne

\* The server lets the client in.
LEMMA SendStatus ==
    ASSUME HInv, NEW x \in Caller, send_status(x)
    PROVE  HInv'
<1>1. /\ call[x].pc = "send_status" /\ call[x].pc \notin Unconnected
      /\ x = Server /\ Side(x) = "server" /\ call[x] \in Call
      /\ UNCHANGED <<node, ec, info, held, epmd, asking, made>>
  BY Sides, HandshakeConstants
     DEF send_status, At, HInv, Types, Steps, Caller, Unconnected, AcceptPc, DialPc
<1>2. CASE ~Fail(x)
  <2>1. /\ sock' = IF PeerGone(x) THEN sock
                   ELSE [sock EXCEPT ![call[x].fd].in[Other(Side(x))] = Append(@, [tag |-> "s", status |-> node[Side(x)].status])]
        /\ call' = [call EXCEPT ![x] = Goto(x, "send_challenge")]
    BY <1>2 DEF send_status, Write
  <2> DEFINE c == Goto(x, "send_challenge")
             m == [tag |-> "s", status |-> node[Side(x)].status]
  <2>2. m \in Package /\ FromServer(m)
    BY SMTT(60), <1>1, HandshakeConstants
       DEF HInv, Types, Steps, Known, Package, Call, Value, Flags, Digest, gen_digest,
           FromClient, FromServer, Program
  <2>3. /\ c \in Call /\ c.pc = "send_challenge" /\ c.fd = call[x].fd /\ c.dist = 5
    BY <1>1, <2>1, <2>2, ZenonT(60) DEF Goto, Call, DialPc, AcceptPc, Value, Package, HInv, Steps, Unversioned
  <2>4. call' = [call EXCEPT ![x] = c]
    BY <2>1
  <2> HIDE DEF c
  <2>5. /\ Steps' /\ call' \in [Caller -> Call] /\ call'[x] = c
        /\ \A y \in Caller \ {x} : call'[y] = call[y]
    BY <1>1, <2>4, <2>3, GoesOn DEF Unconnected, Unversioned, DialPc, AcceptPc
  <2> HIDE DEF m
  <2>6. /\ Types' /\ Owned' /\ Recorded' /\ Queued' /\ Packages'
        /\ \A g \in Fd, q \in Program : \A n \in Unread(sock'[g], q) :
             n \in Unread(sock[g], q) \/ (g = call[x].fd /\ q = Other(Side(x)) /\ n = m)
    <3>1. sock' = IF PeerGone(x) THEN sock
                  ELSE [sock EXCEPT ![call[x].fd].in[Other(Side(x))] = Append(@, m)]
      BY <2>1 DEF m
    <3> QED
      BY <1>1, <2>2, <2>3, <2>5, <3>1, WriteOne, ZenonT(60)
  <2>7. Known'
    BY <1>1, <2>3, <2>5 DEF HInv, Known, SameCookie
  <2>8. Matched'
    <3>1. \A d \in Dialer \ {x} : Side(d) = Side(x) => call[d].fd # call[x].fd
      BY <1>1, Connected DEF Caller
    <3>2. \A d \in Dialer : Side(d) = "client" /\ d # Server /\ d \in Caller
      BY Sides, HandshakeConstants DEF Caller
    <3> SUFFICES ASSUME NEW d \in Dialer, NEW fd \in Fd
                 PROVE  (RepliesMatch(d, fd) /\ ChallengesMatch(fd) /\ CallsMatch(d, fd))'
      BY DEF Matched
    <3>3. RepliesMatch(d, fd) /\ ChallengesMatch(fd) /\ CallsMatch(d, fd)
      BY DEF HInv, Matched
    <3>4. RepliesMatch(d, fd)'
      BY <1>1, <2>3, <2>5, <2>6, <3>1, <3>2, <3>3
         DEF RepliesMatch, m, Other, Program, Caller, Answered
    <3>5. ChallengesMatch(fd)'
      BY <1>1, <2>3, <2>5, <2>6, <3>1, <3>2, <3>3
         DEF ChallengesMatch, m, Other, Program, Caller, Challenged
    <3>6. CallsMatch(d, fd)'
      BY <1>1, <2>3, <2>5, <2>6, <3>1, <3>2, <3>3
         DEF RepliesMatch, ChallengesMatch, CallsMatch, Caller, Answered, Challenged
    <3> QED
      BY <3>4, <3>5, <3>6
  <2> QED
    BY <2>5, <2>6, <2>7, <2>8, SMTT(60) DEF HInv
<1> QED
  BY <1>1, <1>2, FailOne

\* The server makes a challenge.
LEMMA SendChallenge ==
    ASSUME HInv, NEW x \in Caller, send_challenge(x)
    PROVE  HInv'
<1>1. /\ call[x].pc = "send_challenge" /\ call[x].pc \notin Unconnected
      /\ x = Server /\ Side(x) = "server" /\ call[x] \in Call
      /\ UNCHANGED <<node, ec, info, held, epmd, asking, made>>
  BY SMTT(60), Sides, HandshakeConstants
     DEF send_challenge, At, HInv, Types, Steps, Caller, Unconnected, AcceptPc, DialPc
<1>2. CASE ~Fail(x)
  <2>1. PICK ours \in Challenge :
        /\ sock' = IF PeerGone(x) THEN sock
                   ELSE [sock EXCEPT ![call[x].fd].in[Other(Side(x))] = Append(@,
                         [tag |-> "n", version |-> call[x].dist,
                          flags |-> node[Side(x)].flags, challenge |-> ours])]
        /\ call' = [call EXCEPT ![x] = [Goto(x, "recv_challenge_reply") EXCEPT !.ours = ours]]
    BY <1>2 DEF send_challenge, Write, send_name_or_challenge
  <2> DEFINE c == [Goto(x, "recv_challenge_reply") EXCEPT !.ours = ours]
             m == [tag |-> "n", version |-> call[x].dist,
                   flags |-> node[Side(x)].flags, challenge |-> ours]
  <2>2. m \in Package /\ FromServer(m)
    BY <1>1, HandshakeConstants
       DEF HInv, Types, Steps, Known, Package, Call, Value, Flags, Digest, gen_digest,
           FromClient, FromServer, Program
  <2>3. /\ c \in Call /\ c.pc = "recv_challenge_reply" /\ c.fd = call[x].fd /\ c.dist = 5
        /\ c.ours = ours
    BY <1>1, <2>1, <2>2, ZenonT(60) DEF Goto, Call, DialPc, AcceptPc, Value, Package, HInv, Steps, Unversioned
  <2>4. call' = [call EXCEPT ![x] = c]
    BY <2>1
  <2> HIDE DEF c
  <2>5. /\ Steps' /\ call' \in [Caller -> Call] /\ call'[x] = c
        /\ \A y \in Caller \ {x} : call'[y] = call[y]
    BY <1>1, <2>4, <2>3, GoesOn DEF Unconnected, Unversioned, DialPc, AcceptPc
  <2> HIDE DEF m
  <2>6. /\ Types' /\ Owned' /\ Recorded' /\ Queued' /\ Packages'
        /\ \A g \in Fd, q \in Program : \A n \in Unread(sock'[g], q) :
             n \in Unread(sock[g], q) \/ (g = call[x].fd /\ q = Other(Side(x)) /\ n = m)
    <3>1. sock' = IF PeerGone(x) THEN sock
                  ELSE [sock EXCEPT ![call[x].fd].in[Other(Side(x))] = Append(@, m)]
      BY <2>1 DEF m
    <3> QED
      BY <1>1, <2>2, <2>3, <2>5, <3>1, WriteOne, ZenonT(60)
  <2>7. Known'
    BY <1>1, <2>3, <2>5 DEF HInv, Known, SameCookie
  <2>8. Matched'
    <3>1. \A d \in Dialer \ {x} : Side(d) = Side(x) => call[d].fd # call[x].fd
      BY <1>1, Connected DEF Caller
    <3>2. \A d \in Dialer : Side(d) = "client" /\ d # Server /\ d \in Caller
      BY Sides, HandshakeConstants DEF Caller
    <3> SUFFICES ASSUME NEW d \in Dialer, NEW fd \in Fd
                 PROVE  (RepliesMatch(d, fd) /\ ChallengesMatch(fd) /\ CallsMatch(d, fd))'
      BY DEF Matched
    <3>3. RepliesMatch(d, fd) /\ ChallengesMatch(fd) /\ CallsMatch(d, fd)
      BY DEF HInv, Matched
    <3>4. RepliesMatch(d, fd)'
      BY <1>1, <2>3, <2>5, <2>6, <3>1, <3>2, <3>3
         DEF RepliesMatch, m, Other, Program, Caller, Answered
    <3>5. ChallengesMatch(fd)'
      BY <1>1, <2>3, <2>5, <2>6, <3>1, <3>2, <3>3
         DEF ChallengesMatch, m, Other, Program, Caller, Challenged
    <3>6. CallsMatch(d, fd)'
      BY <1>1, <2>3, <2>5, <2>6, <3>1, <3>2, <3>3
         DEF RepliesMatch, ChallengesMatch, CallsMatch, Caller, Answered, Challenged
    <3> QED
      BY <3>4, <3>5, <3>6
  <2> QED
    BY <2>5, <2>6, <2>7, <2>8 DEF HInv
<1> QED
  BY <1>1, <1>2, FailOne

\* The client has proved its cookie; the server holds its challenge.
LEMMA RecvChallengeReply ==
    ASSUME HInv, NEW x \in Caller, recv_challenge_reply(x)
    PROVE  HInv'
<1> DEFINE m == Head(Arrived(x))
<1>1. /\ call[x].pc = "recv_challenge_reply" /\ call[x].pc \notin Unconnected
      /\ x = Server /\ Side(x) = "server" /\ call[x] \in Call
      /\ UNCHANGED <<node, ec, info, held, epmd, asking, made>>
  BY Sides, HandshakeConstants
     DEF recv_challenge_reply, At, HInv, Types, Steps, Caller, Unconnected, AcceptPc, DialPc
<1>2. CASE ~Fail(x)
  <2>1. /\ Arrived(x) # <<>> /\ m.tag = "r" /\ m.digest = gen_digest(call[x].ours, ec[Side(x)])
        /\ sock' = [sock EXCEPT ![call[x].fd].in[Side(x)] = Tail(@)]
        /\ call' = [call EXCEPT ![x] = [Goto(x, "send_challenge_ack") EXCEPT !.hers = m.challenge]]
    BY <1>2 DEF recv_challenge_reply, read_2byte_package
  <2> DEFINE c == [Goto(x, "send_challenge_ack") EXCEPT !.hers = m.challenge]
  <2>2. m \in Package /\ m \in Unread(sock[call[x].fd], "server") /\ FromClient(m)
    <3>1. call[x].fd \in Fd /\ sock \in [Fd -> Socket] /\ "server" \in Program
      <4>1. call[x].fd \in Fd
        BY <1>1, Connected
      <4>2. sock \in [Fd -> Socket]
        BY Zenon DEF HInv, Types
      <4>3. "server" \in Program
        BY Zenon, ZenonT(60) DEF Program
      <4> QED
        BY <4>1, <4>2, <4>3, Zenon
    <3>2. m \in Package /\ m \in Unread(sock[call[x].fd], "server")
      BY <1>1, <2>1, <3>1, Reading1 DEF Arrived
    <3> QED
      BY <3>1, <3>2 DEF HInv, Packages
  <2>3. /\ c \in Call /\ c.pc = "send_challenge_ack" /\ c.fd = call[x].fd /\ c.dist = 5
        /\ c.hers = m.challenge /\ c.ours = call[x].ours
    BY <1>1, <2>1, <2>2, ZenonT(60) DEF Goto, Call, DialPc, AcceptPc, Value, Package, HInv, Steps, Unversioned
  <2>4. call' = [call EXCEPT ![x] = c]
    BY <2>1
  <2> HIDE DEF c, m
  <2>5. /\ Steps' /\ call' \in [Caller -> Call] /\ call'[x] = c
        /\ \A y \in Caller \ {x} : call'[y] = call[y]
    BY <1>1, <2>4, <2>3, GoesOn DEF Unconnected, Unversioned, DialPc, AcceptPc
  <2>6. Types' /\ Owned' /\ Recorded' /\ Queued' /\ Packages' /\ NothingSent
    BY <1>1, <2>1, <2>3, <2>5, ReadOne
  <2>7. Known'
    BY <1>1, <2>1, <2>2, <2>3, <2>5 DEF HInv, Known, SameCookie, FromClient, FromServer, gen_digest
  <2>8. Matched'
    <3>1. \A d \in Dialer \ {x} : Side(d) = Side(x) => call[d].fd # call[x].fd
      BY <1>1, Connected DEF Caller
    <3>2. \A d \in Dialer : Side(d) = "client" /\ d # Server /\ d \in Caller
      BY Sides, HandshakeConstants DEF Caller
    <3> SUFFICES ASSUME NEW d \in Dialer, NEW fd \in Fd
                 PROVE  (RepliesMatch(d, fd) /\ ChallengesMatch(fd) /\ CallsMatch(d, fd))'
      BY DEF Matched
    <3>3. RepliesMatch(d, fd) /\ ChallengesMatch(fd) /\ CallsMatch(d, fd)
      BY SMTT(60) DEF HInv, Matched
    <3>4. RepliesMatch(d, fd)'
      BY <1>1, <2>1, <2>2, <2>3, <2>5, <2>6, <3>1, <3>2, <3>3
         DEF RepliesMatch, NothingSent, Program, Caller, Answered
    <3>5. ChallengesMatch(fd)'
      BY <1>1, <2>1, <2>2, <2>3, <2>5, <2>6, <3>1, <3>2, <3>3, ZenonT(60)
         DEF ChallengesMatch, NothingSent, Program, Caller, Challenged
    <3>6. CallsMatch(d, fd)'
      BY <1>1, <2>1, <2>2, <2>3, <2>5, <2>6, <3>1, <3>2, <3>3, ZenonT(60)
         DEF RepliesMatch, ChallengesMatch, CallsMatch, Caller, Answered, Challenged
    <3> QED
      BY <3>4, <3>5, <3>6
  <2> QED
    BY <2>5, <2>6, <2>7, <2>8 DEF HInv
<1> QED
  BY <1>1, <1>2, FailOne

\* The server proves its own cookie.
LEMMA SendChallengeAck ==
    ASSUME HInv, NEW x \in Caller, send_challenge_ack(x)
    PROVE  HInv'
<1>1. /\ call[x].pc = "send_challenge_ack" /\ call[x].pc \notin Unconnected
      /\ x = Server /\ Side(x) = "server" /\ call[x] \in Call
      /\ UNCHANGED <<node, ec, info, held, epmd, asking, made>>
  BY Sides, HandshakeConstants
     DEF send_challenge_ack, At, HInv, Types, Steps, Caller, Unconnected, AcceptPc, DialPc
<1>2. CASE ~Fail(x)
  <2>1. /\ sock' = IF PeerGone(x) THEN sock
                   ELSE [sock EXCEPT ![call[x].fd].in[Other(Side(x))] = Append(@, [tag |-> "a", digest |-> gen_digest(call[x].hers, ec[Side(x)])])]
        /\ call' = [call EXCEPT ![x] = Goto(x, "put")]
    BY <1>2 DEF send_challenge_ack, Write
  <2> DEFINE c == Goto(x, "put")
             m == [tag |-> "a", digest |-> gen_digest(call[x].hers, ec[Side(x)])]
  <2>2. m \in Package /\ FromServer(m)
    BY <1>1, HandshakeConstants
       DEF HInv, Types, Steps, Known, Package, Call, Value, Flags, Digest, gen_digest,
           FromClient, FromServer, Program
  <2>3. /\ c \in Call /\ c.pc = "put" /\ c.fd = call[x].fd /\ c.dist = 5
        /\ c.hers = call[x].hers /\ c.ours = call[x].ours
    BY <1>1, <2>1, <2>2 DEF Goto, Call, DialPc, AcceptPc, Value, Package, HInv, Steps, Unversioned
  <2>4. call' = [call EXCEPT ![x] = c]
    BY <2>1
  <2> HIDE DEF c
  <2>5. /\ Steps' /\ call' \in [Caller -> Call] /\ call'[x] = c
        /\ \A y \in Caller \ {x} : call'[y] = call[y]
    BY <1>1, <2>4, <2>3, GoesOn DEF Unconnected, Unversioned, DialPc, AcceptPc
  <2> HIDE DEF m
  <2>6. /\ Types' /\ Owned' /\ Recorded' /\ Queued' /\ Packages'
        /\ \A g \in Fd, q \in Program : \A n \in Unread(sock'[g], q) :
             n \in Unread(sock[g], q) \/ (g = call[x].fd /\ q = Other(Side(x)) /\ n = m)
    <3>1. sock' = IF PeerGone(x) THEN sock
                  ELSE [sock EXCEPT ![call[x].fd].in[Other(Side(x))] = Append(@, m)]
      BY <2>1 DEF m
    <3> QED
      BY <1>1, <2>2, <2>3, <2>5, <3>1, WriteOne, ZenonT(60)
  <2>7. Known'
    BY <1>1, <2>3, <2>5 DEF HInv, Known, SameCookie
  <2>8. Matched'
    <3>1. \A d \in Dialer \ {x} : Side(d) = Side(x) => call[d].fd # call[x].fd
      BY <1>1, Connected DEF Caller
    <3>2. \A d \in Dialer : Side(d) = "client" /\ d # Server /\ d \in Caller
      BY Sides, HandshakeConstants DEF Caller
    <3> SUFFICES ASSUME NEW d \in Dialer, NEW fd \in Fd
                 PROVE  (RepliesMatch(d, fd) /\ ChallengesMatch(fd) /\ CallsMatch(d, fd))'
      BY DEF Matched
    <3>3. RepliesMatch(d, fd) /\ ChallengesMatch(fd) /\ CallsMatch(d, fd)
      BY DEF HInv, Matched
    <3>4. RepliesMatch(d, fd)'
      BY <1>1, <2>3, <2>5, <2>6, <3>1, <3>2, <3>3
         DEF RepliesMatch, m, Other, Program, Caller, Answered
    <3>5. ChallengesMatch(fd)'
      BY <1>1, <2>3, <2>5, <2>6, <3>1, <3>2, <3>3
         DEF ChallengesMatch, m, Other, Program, Caller, Challenged
    <3>6. CallsMatch(d, fd)'
      BY <1>1, <2>3, <2>5, <2>6, <3>1, <3>2, <3>3
         DEF RepliesMatch, ChallengesMatch, CallsMatch, Caller, Answered, Challenged
    <3> QED
      BY <3>4, <3>5, <3>6
  <2> QED
    BY <2>5, <2>6, <2>7, <2>8 DEF HInv
<1> QED
  BY <1>1, <1>2, FailOne


-----------------------------------------------------------------------------
(* The table of descriptors, and descriptors that are returned and closed. *)

\* After an entry has been put every entry of its descriptor says the same; the
\* others were there before.
LEMMA PutEntry ==
    ASSUME NEW t \in Table, NEW fd \in Fd, NEW x \in Caller, NEW new,
           new = put_ei_socket_info(t, fd, 5, x)
    PROVE  /\ new \in Table
           /\ \A i \in DOMAIN new.sockets :
                \/ new.sockets[i] = Entry(fd, 5, x)
                \/ /\ new.sockets[i].socket # fd
                   /\ \E j \in DOMAIN t.sockets : new.sockets[i] = t.sockets[j]
<1> DEFINE E == [socket : Fd, dist_version : {0, 5}, cnode : Caller]
           s == t.sockets
<1>1. s \in Seq(E) /\ t.size \in Nat /\ Entry(fd, 5, x) \in E
  BY DEF Table, Entry
<1>2. s \in [1..Len(s) -> E] /\ DOMAIN s = 1..Len(s) /\ Len(s) \in Nat
  BY <1>1, LenProperties
<1>3. CASE \E i \in DOMAIN s : s[i].socket = fd
  <2> DEFINE u == [i \in DOMAIN s |-> IF s[i].socket = fd THEN Entry(fd, 5, x) ELSE s[i]]
  <2>1. new = [t EXCEPT !.sockets = u]
    BY <1>3 DEF put_ei_socket_info
  <2>2. u \in [1..Len(s) -> E]
    BY <1>1, <1>2
  <2>3. u \in Seq(E)
    BY <1>2, <2>2, IsASeq
  <2>4. new \in Table /\ new.sockets = u
    BY <2>1, <2>3 DEF Table
  <2> QED
    BY <1>2, <2>4
<1>4. CASE ~(\E i \in DOMAIN s : s[i].socket = fd) /\ Len(s) = t.size
  <2>1. new = [sockets |-> Append(s, Entry(fd, 5, x)), size |-> t.size + 5]
    BY <1>4 DEF put_ei_socket_info
  <2>2. /\ Append(s, Entry(fd, 5, x)) \in Seq(E)
        /\ Len(Append(s, Entry(fd, 5, x))) = Len(s) + 1
        /\ \A i \in 1..Len(s) : Append(s, Entry(fd, 5, x))[i] = s[i]
        /\ Append(s, Entry(fd, 5, x))[Len(s) + 1] = Entry(fd, 5, x)
    BY <1>1, AppendProperties
  <2>3. new \in Table /\ new.sockets = Append(s, Entry(fd, 5, x))
    <3>1. t.size + 5 \in Nat
      BY <1>1
    <3>2. Append(s, Entry(fd, 5, x)) \in Seq(E)
      BY <2>2
    <3> HIDE DEF E
    <3> DEFINE l == Append(s, Entry(fd, 5, x))
               k == t.size + 5
    <3>3. new = [sockets |-> l, size |-> k]
      BY <2>1
    <3>4. l \in Seq(E) /\ k \in Nat
      BY <3>1, <3>2
    <3> HIDE DEF l, k
    <3>5. new \in [sockets : Seq(E), size : Nat] /\ new.sockets = l
      BY <3>3, <3>4
    <3>6. new \in [sockets : Seq(E), size : Nat] /\ new.sockets = Append(s, Entry(fd, 5, x))
      BY <3>5 DEF l
    <3> QED
      BY <3>6 DEF Table, E
  <2>4. DOMAIN new.sockets = 1..(Len(s) + 1)
    BY <2>2, <2>3, LenProperties
  <2>5. \A i \in 1..(Len(s) + 1) : i \in 1..Len(s) \/ i = Len(s) + 1
    BY <1>2
  <2> QED
    BY <1>2, <1>4, <2>2, <2>3, <2>4, <2>5
<1>5. CASE ~(\E i \in DOMAIN s : s[i].socket = fd) /\ Len(s) # t.size
  BY <1>5 DEF put_ei_socket_info
<1> QED
  BY <1>3, <1>4, <1>5

\* A call returns its descriptor, and records it when there is room.
LEMMA Returned ==
    ASSUME HInv, NEW x \in Caller, Return(x)
    PROVE  HInv'
<1> DEFINE fd == call[x].fd
           new == put_ei_socket_info(info[Side(x)], fd, 5, x)
<1>1. call[x].pc = "put" /\ call[x].pc \notin Unconnected /\ call[x].dist = 5
  BY DEF Return, At, Unconnected, HInv, Steps, Unversioned
<1>2. /\ fd \in Fd /\ sock[fd][Side(x)] = "open" /\ Owns(x, fd) /\ fd \notin held[x]
      /\ Side(x) \in Program /\ info[Side(x)] \in Table
  BY <1>1, Connected, Sides DEF HInv, Types, Owned
<1>3. /\ UNCHANGED <<node, ec, sock, epmd, asking, made>>
      /\ held' = [held EXCEPT ![x] = @ \cup {fd}]
      /\ call' = [call EXCEPT ![x] = NoCall("fd")]
      /\ \/ info' = [info EXCEPT ![Side(x)] = new]
         \/ info' = [info EXCEPT ![Side(x)] = [sockets |-> <<>>, size |-> 0]]
  BY <1>1 DEF Return
<1> HIDE DEF new
<1>4. /\ new \in Table
      /\ \A i \in DOMAIN new.sockets :
           \/ new.sockets[i] = Entry(fd, 5, x)
           \/ /\ new.sockets[i].socket # fd
              /\ \E j \in DOMAIN info[Side(x)].sockets :
                   new.sockets[i] = info[Side(x)].sockets[j]
  BY <1>2, PutEntry DEF new
<1>5. NoCall("fd") \in Call /\ NoCall("fd").pc = "idle" /\ NoCall("fd").fd = NULL
  BY DEF NoCall, Call, AcceptPc, Flags, Value
<1>6. /\ call' \in [Caller -> Call] /\ \A y \in Caller \ {x} : call'[y] = call[y] /\ held'[y] = held[y]
      /\ call'[x].pc = "idle" /\ call'[x].fd = NULL
      /\ held' \in [Caller -> SUBSET Fd] /\ held'[x] = held[x] \cup {fd}
  BY <1>2, <1>3, <1>5 DEF HInv, Types
<1>7. [sockets |-> <<>>, size |-> 0] \in Table
  BY EmptySeq DEF Table
<1>8. info' \in [Program -> Table]
  BY <1>2, <1>3, <1>4, <1>7 DEF HInv, Types
<1>9. Types'
  BY <1>3, <1>6, <1>8 DEF HInv, Types
<1>10. Steps'
  BY <1>1, <1>3, <1>6 DEF HInv, Steps, AcceptPc, DialPc, Unconnected, Unversioned
<1>11. \A y \in Caller, g \in Fd : Owns(y, g)' <=> Owns(y, g)
  BY <1>6, <1>2, HandshakeConstants DEF Owns
<1>12. Owned'
  <2>1. \A y \in Caller : call'[y].fd \notin held'[y]
    BY <1>6, HandshakeConstants DEF HInv, Owned
  <2> QED
    BY <1>3, <1>11, <2>1 DEF HInv, Owned
<1>13. Recorded'
  <2> SUFFICES ASSUME NEW y \in Caller, NEW g \in held'[y],
                      NEW i \in DOMAIN info'[Side(y)].sockets,
                      info'[Side(y)].sockets[i].socket = g
               PROVE  info'[Side(y)].sockets[i] = Entry(g, 5, y)
    BY DEF Recorded
  <2>1. Side(y) \in Program /\ g \in Fd /\ Owns(y, g)
    BY Sides, <1>6, <1>11 DEF Owns
  <2>2. CASE Side(y) # Side(x)
    <3>1. info'[Side(y)] = info[Side(y)] /\ g \in held[y]
      BY <2>1, <2>2, <1>2, <1>3, <1>6 DEF HInv, Types
    <3> QED
      BY <3>1 DEF HInv, Recorded
  <2>3. CASE Side(y) = Side(x) /\ info' = [info EXCEPT ![Side(x)] = new]
    <3>1. info'[Side(y)] = new
      BY <2>3, <1>2 DEF HInv, Types
    <3>2. CASE g = fd
      <4>1. y = x
        BY <2>1, <2>3, <3>2, <1>2 DEF HInv, Owned
      <4> QED
        BY <4>1, <3>1, <3>2, <1>4
    <3>3. CASE g # fd
      <4>1. g \in held[y]
        BY <3>3, <1>6
      <4>2. PICK j \in DOMAIN info[Side(x)].sockets : new.sockets[i] = info[Side(x)].sockets[j]
        BY <3>1, <3>3, <1>4 DEF Entry
      <4> QED
        BY <4>1, <4>2, <3>1, <2>3 DEF HInv, Recorded
    <3> QED
      BY <3>2, <3>3
  <2>4. CASE Side(y) = Side(x) /\ info' = [info EXCEPT ![Side(x)] = [sockets |-> <<>>, size |-> 0]]
    <3>1. info'[Side(y)].sockets = <<>>
      BY <2>4, <1>2 DEF HInv, Types
    <3> QED
      BY <3>1
  <2> QED
    BY <1>3, <2>2, <2>3, <2>4
<1>14. Queued'
  <2>1. x \in Dialer => sock[fd].server # "queued"
    BY <1>1, <1>2 DEF HInv, Queued
  <2>2. \A g \in Fd : sock[g].server = "queued" => \A y \in Dialer : g \notin held'[y]
    BY <2>1, <1>6 DEF HInv, Queued, Caller
  <2> QED
    BY <2>2, <1>3, <1>6, HandshakeConstants DEF HInv, Queued, Caller
<1>15. Packages'
  BY <1>3, PackagesKept DEF HInv, NothingSent
<1>16. Known'
  BY <1>3, <1>6 DEF HInv, Known, SameCookie
<1>17. Matched'
  <2>1. \A y \in Caller, g \in Fd : call'[y].fd = g => call'[y] = call[y]
    BY <1>6, HandshakeConstants
  <2> QED
    BY <1>3, <2>1 DEF HInv, Matched, RepliesMatch, ChallengesMatch, CallsMatch, Caller
<1> QED
  BY <1>9, <1>10, <1>12, <1>13, <1>14, <1>15, <1>16, <1>17 DEF HInv

\* A thread closes a descriptor that was returned to it.
LEMMA CloseConnection ==
    ASSUME HInv, NEW x \in Caller, erl_close_connection(x)
    PROVE  HInv'
<1>1. PICK fd \in held[x] :
        /\ sock' = CloseEnd(sock, fd, Side(x))
        /\ held' = [held EXCEPT ![x] = @ \ {fd}]
        /\ UNCHANGED <<node, ec, call, info, epmd, asking, made>>
  BY DEF erl_close_connection
<1>2. fd \in Fd /\ Owns(x, fd) /\ call[x].fd # fd
  BY <1>1 DEF HInv, Types, Owned, Owns
<1>3. /\ held' \in [Caller -> SUBSET Fd] /\ held'[x] = held[x] \ {fd}
      /\ \A y \in Caller \ {x} : held'[y] = held[y]
      /\ \A y \in Caller : held'[y] \subseteq held[y]
  BY <1>1 DEF HInv, Types
<1>4. Steps'
  BY <1>1 DEF HInv, Steps
<1>5. \A y \in Caller, g \in Fd : Owns(y, g)' <=> Owns(y, g) /\ ~(y = x /\ g = fd)
  BY <1>1, <1>2, <1>3 DEF Owns
<1>6. call' \in [Caller -> Call] /\ \A y \in Caller : call'[y] = call[y]
  BY <1>1 DEF HInv, Types
<1> QED
  BY <1>1, <1>2, <1>3, <1>4, <1>5, <1>6, EndClosed

-----------------------------------------------------------------------------
(* Calls that are on no socket yet, and what happens to the programs.      *)

\* Looking up names, publishing them and beginning to accept touch no socket.
LEMMA OffSocketCalls ==
    ASSUME HInv, NEW x \in Caller,
           \/ ei_connect_tmo(x) \/ ei_accept_tmo(x) \/ ei_epmd_r4_publish(x)
           \/ ei_unpublish_tmo(x) \/ ei_epmd_connect_tmo(x) \/ ei_epmd_r4_port(x)
    PROVE  HInv'
<1>1. /\ call[x] \in Call /\ call \in [Caller -> Call] /\ asking \subseteq Caller
      /\ epmd \in {"down", "up", "alive"} /\ made \in 0..MaxConnects
      /\ x \in asking <=> call[x].pc = "port"
      /\ call[x].pc \in Unconnected <=> call[x].fd = NULL
      /\ x \in Dialer => x # Server
      /\ x # Server => x \in Dialer
      /\ call[x].pc # "idle" => ec[Side(x)] # NULL
      /\ call[x].pc \in IF x = Server THEN AcceptPc ELSE DialPc
  BY HandshakeConstants DEF HInv, Types, Steps, Caller
<1>2. \A r \in {NULL, "error", "no_port", "fd", "ok"} :
        NoCall(r) \in Call /\ NoCall(r).pc = "idle" /\ NoCall(r).fd = NULL
  BY DEF NoCall, Call, AcceptPc, Flags, Value
<1>3. "idle" \in Unconnected /\ "idle" \in AcceptPc /\ "idle" \in DialPc
  BY DEF Unconnected, AcceptPc, DialPc
<1>4. CASE ei_connect_tmo(x)
  <2>1. [NoCall(NULL) EXCEPT !.pc = "epmd"] \in Call
    BY DEF NoCall, Call, DialPc, Flags, Value
  <2>2. PICK c \in {[NoCall(NULL) EXCEPT !.pc = "epmd"], NoCall("error")} :
          call' = [call EXCEPT ![x] = c]
    BY <1>4 DEF ei_connect_tmo
  <2>3. c \in Call /\ c.pc \in {"epmd", "idle"} /\ c.fd = NULL
    BY <1>2, <2>1, <2>2 DEF NoCall
  <2>4. call' \in [Caller -> Call] /\ call'[x] = c /\ \A y \in Caller \ {x} : call'[y] = call[y]
    BY <1>1, <2>2, <2>3
  <2>5. /\ x \in Dialer /\ call[x].pc = "idle" /\ ec[Side(x)] # NULL /\ made' \in 0..MaxConnects
        /\ UNCHANGED <<node, ec, sock, info, held, epmd, asking>>
    BY <1>1, <1>4, HandshakeConstants DEF ei_connect_tmo, Ready, At
  <2>6. call'[x].pc \in Unconnected /\ call'[x].pc \in DialPc /\ x # Server /\ x \notin asking
    BY <1>1, <2>3, <2>4, <2>5 DEF Unconnected, DialPc
  <2> QED
    BY <1>1, <1>3, <2>3, <2>4, <2>5, <2>6, OffSocket
<1>5. CASE ei_accept_tmo(x)
  <2>1. /\ x = Server /\ call[x].pc = "idle" /\ ec[Side(x)] # NULL
        /\ call' = [call EXCEPT ![x] = Goto(x, "accept")]
        /\ UNCHANGED <<node, ec, sock, info, held, epmd, asking, made>>
    BY <1>5 DEF ei_accept_tmo, Ready, At
  <2>2. Goto(x, "accept") \in Call /\ Goto(x, "accept").pc = "accept" /\ Goto(x, "accept").fd = NULL
    BY <1>1, <1>3, <2>1 DEF Goto, Call, AcceptPc
  <2>3. /\ call' \in [Caller -> Call] /\ call'[x].pc = "accept" /\ call'[x].fd = NULL
        /\ \A y \in Caller \ {x} : call'[y] = call[y]
    BY <1>1, <2>1, <2>2
  <2>4. "accept" \in Unconnected /\ "accept" \in AcceptPc
    BY DEF Unconnected, AcceptPc
  <2> QED
    BY <1>1, <1>3, <2>1, <2>3, <2>4, OffSocket
<1>6. CASE ei_epmd_r4_publish(x) \/ ei_unpublish_tmo(x)
  <2>1. PICK r \in {"fd", "ok", "error"} : call' = [call EXCEPT ![x] = NoCall(r)]
    BY <1>6 DEF ei_epmd_r4_publish, ei_unpublish_tmo
  <2>2. /\ x = Server /\ call[x].pc = "idle" /\ epmd' \in {"down", "up", "alive"}
        /\ UNCHANGED <<node, ec, sock, info, held, asking, made>>
    BY <1>1, <1>6 DEF ei_epmd_r4_publish, ei_unpublish_tmo, Ready, At
  <2>3. /\ call' \in [Caller -> Call] /\ call'[x].pc = "idle" /\ call'[x].fd = NULL
        /\ \A y \in Caller \ {x} : call'[y] = call[y]
    BY <1>1, <1>2, <2>1
  <2> QED
    BY <1>1, <1>3, <2>2, <2>3, OffSocket
<1>7. CASE ei_epmd_connect_tmo(x)
  <2>1. /\ call[x].pc = "epmd" /\ x \notin asking /\ x \in Dialer /\ x # Server /\ ec[Side(x)] # NULL
        /\ UNCHANGED <<node, ec, sock, info, held, epmd, made>>
    BY <1>1, <1>7 DEF ei_epmd_connect_tmo, At, AcceptPc
  <2>2. CASE asking' = asking \cup {x} /\ call' = [call EXCEPT ![x] = Goto(x, "port")]
    <3>1. Goto(x, "port") \in Call /\ Goto(x, "port").pc = "port" /\ Goto(x, "port").fd = NULL
      BY <1>1, <2>1 DEF Goto, Call, DialPc, Unconnected
    <3>2. /\ call' \in [Caller -> Call] /\ call'[x].pc = "port" /\ call'[x].fd = NULL
          /\ \A y \in Caller \ {x} : call'[y] = call[y]
      BY <1>1, <2>2, <3>1
    <3>3. "port" \in Unconnected /\ "port" \in DialPc /\ call[x].pc \in Unconnected
      BY <2>1 DEF Unconnected, DialPc
    <3> QED
      BY <1>1, <2>1, <2>2, <3>2, <3>3, OffSocket
  <2>3. CASE asking' = asking /\ call' = [call EXCEPT ![x] = NoCall("no_port")]
    <3>1. /\ call' \in [Caller -> Call] /\ call'[x].pc = "idle" /\ call'[x].fd = NULL
          /\ \A y \in Caller \ {x} : call'[y] = call[y]
      BY <1>1, <1>2, <2>3
    <3>2. call[x].pc \in Unconnected /\ asking' = asking \ {x}
      BY <2>1, <2>3 DEF Unconnected
    <3> QED
      BY <1>1, <1>3, <2>1, <3>1, <3>2, OffSocket
  <2> QED
    BY <1>7, <2>2, <2>3 DEF ei_epmd_connect_tmo
<1>8. CASE ei_epmd_r4_port(x)
  <2>1. /\ call[x].pc = "port" /\ x \in Dialer /\ x # Server /\ ec[Side(x)] # NULL
        /\ asking' = asking \ {x}
        /\ UNCHANGED <<node, ec, sock, info, held, epmd, made>>
    BY <1>1, <1>8 DEF ei_epmd_r4_port, At, AcceptPc
  <2>2. CASE /\ node["server"].version >= 5
             /\ call' = [call EXCEPT ![x] = [Goto(x, "cnct") EXCEPT !.dist = Highest(node["server"].version)]]
    <3>1. node["server"].version \in Nat
      BY HandshakeConstants DEF HInv, Types, Program
    <3>2. Highest(node["server"].version) = 5
      BY <2>2, <3>1 DEF Highest
    <3> DEFINE c == [Goto(x, "cnct") EXCEPT !.dist = 5]
    <3>3. c \in Call /\ c.pc = "cnct" /\ c.fd = NULL /\ c.dist = 5
      BY <1>1, <2>1 DEF Goto, Call, DialPc, Unconnected
    <3>4. call' = [call EXCEPT ![x] = c]
      BY <2>2, <3>2
    <3> HIDE DEF c
    <3>5. /\ call' \in [Caller -> Call] /\ call'[x] = c
          /\ \A y \in Caller \ {x} : call'[y] = call[y]
      BY <1>1, <3>3, <3>4
    <3>6. "cnct" \in Unconnected /\ "cnct" \in DialPc /\ call[x].pc \in Unconnected
      BY <2>1 DEF Unconnected, DialPc
    <3> QED
      BY <1>1, <2>1, <3>3, <3>5, <3>6, OffSocket
  <2>3. CASE call' = [call EXCEPT ![x] = NoCall("no_port")]
    <3>1. /\ call' \in [Caller -> Call] /\ call'[x].pc = "idle" /\ call'[x].fd = NULL
          /\ \A y \in Caller \ {x} : call'[y] = call[y]
      BY <1>1, <1>2, <2>3
    <3>2. call[x].pc \in Unconnected
      BY <2>1, ZenonT(60) DEF Unconnected
    <3> QED
      BY <1>1, <1>3, <2>1, <3>1, <3>2, OffSocket
  <2> QED
    BY <1>8, <2>2, <2>3 DEF ei_epmd_r4_port
<1> QED
  BY <1>4, <1>5, <1>6, <1>7, <1>8

\* A new socket is one that nobody owns.
LEMMA Connects ==
    ASSUME HInv, NEW x \in Caller, cnct(x)
    PROVE  HInv'
<1>1. /\ call[x] \in Call /\ call \in [Caller -> Call] /\ call[x].pc = "cnct" /\ call[x].dist = 5
      /\ x \in Dialer /\ x # Server /\ Side(x) = "client" /\ ec[Side(x)] # NULL /\ x \notin asking
      /\ call[x].pc \in Unconnected /\ call[x].fd = NULL
      /\ UNCHANGED <<node, ec, info, held, epmd, asking, made>>
  BY Sides, HandshakeConstants
     DEF cnct, At, HInv, Types, Steps, Caller, AcceptPc, Unconnected, Unversioned
<1>2. CASE call' = [call EXCEPT ![x] = NoCall("connect_fail")] /\ sock' = sock
  <2>1. NoCall("connect_fail") \in Call /\ NoCall("connect_fail").pc = "idle"
        /\ NoCall("connect_fail").fd = NULL
    BY DEF NoCall, Call, AcceptPc, Flags, Value
  <2>2. /\ call' \in [Caller -> Call] /\ call'[x].pc = "idle" /\ call'[x].fd = NULL
        /\ \A y \in Caller \ {x} : call'[y] = call[y]
    BY <1>1, <1>2, <2>1
  <2>3. "idle" \in Unconnected /\ "idle" \in DialPc /\ asking' = asking \ {x}
    BY <1>1 DEF Unconnected, DialPc
  <2>4. epmd' \in {"down", "up", "alive"} /\ made' \in 0..MaxConnects
    BY <1>1 DEF HInv, Types
  <2> QED
    BY <1>1, <1>2, <2>2, <2>3, <2>4, OffSocket
<1>3. ASSUME NEW fd \in Fd, sock[fd] = FreeSocket,
             sock' = [sock EXCEPT ![fd].client = "open", ![fd].server = "queued", ![fd].up = TRUE],
             call' = [call EXCEPT ![x] = [Goto(x, "send_name") EXCEPT !.fd = fd]]
      PROVE  HInv'
  <2> DEFINE c == [Goto(x, "send_name") EXCEPT !.fd = fd]
             s == [FreeSocket EXCEPT !.client = "open", !.server = "queued", !.up = TRUE]
  <2>1. c \in Call /\ c.pc = "send_name" /\ c.fd = fd /\ c.dist = 5
    BY <1>1 DEF Goto, Call, DialPc
  <2>2. /\ call' \in [Caller -> Call] /\ call'[x] = c
        /\ \A y \in Caller \ {x} : call'[y] = call[y]
    BY <1>1, <1>3, <2>1
  <2>3. /\ s \in Socket /\ s.client = "open" /\ s.server = "queued"
        /\ \A p \in Program : Unread(s, p) = {}
    <3>1. s \in Socket /\ s.client = "open" /\ s.server = "queued" /\ s.in = FreeSocket.in
      BY FreeIsSocket DEF Socket
    <3>2. \A p \in Program : FreeSocket.in[p] = <<>>
      BY DEF FreeSocket
    <3> QED
      BY <3>1, <3>2, EmptySeq DEF Unread
  <2>4. sock \in [Fd -> Socket] /\ sock'[fd] = s
    BY <1>3 DEF HInv, Types
  <2> HIDE DEF c, s
  <2>5. sock' \in [Fd -> Socket] /\ \A g \in Fd \ {fd} : sock'[g] = sock[g]
    BY <1>3, <2>3, <2>4
  <2>6. sock[fd].client = "closed" /\ sock[fd].server = "closed"
    BY <1>3 DEF FreeSocket
  <2>7. \A y \in Caller : ~Owns(y, fd)
    BY <1>3, <2>6 DEF HInv, Owned, Side
  <2>8. \A y \in Caller, g \in Fd : Owns(y, g)' <=> Owns(y, g) \/ (y = x /\ g = fd)
    BY <1>1, <2>1, <2>2, HandshakeConstants DEF Owns
  <2>9. Types'
    BY <1>1, <2>2, <2>5 DEF HInv, Types
  <2>10. Steps'
    BY <1>1, <2>1, <2>2, HandshakeConstants DEF HInv, Steps, DialPc, Unconnected, Unversioned
  <2>11. Owned'
    <3>1. \A y \in Caller, g \in Fd : Owns(y, g)' => sock'[g][Side(y)] = "open"
      <4>1. \A y \in Caller, g \in Fd \ {fd} : Owns(y, g)' => sock'[g][Side(y)] = "open"
        BY <2>5, <2>8 DEF HInv, Owned
      <4>2. \A y \in Caller : Owns(y, fd)' => y = x
        BY <2>7, <2>8
      <4> QED
        BY <1>1, <4>1, <4>2, <2>3, <2>4
    <3>2. \A g \in Fd, p \in Program :
            sock'[g][p] = "open" => \E y \in Caller : Side(y) = p /\ Owns(y, g)'
      <4>1. \A g \in Fd \ {fd}, p \in Program :
              sock'[g][p] = "open" => \E y \in Caller : Side(y) = p /\ Owns(y, g)'
        BY <2>5, <2>8 DEF HInv, Owned
      <4>2. \A p \in Program : sock'[fd][p] = "open" => Side(x) = p /\ Owns(x, fd)'
        BY <1>1, <2>3, <2>4, <2>8 DEF Program
      <4> QED
        BY <4>1, <4>2
    <3>3. \A y, z \in Caller, g \in Fd :
            Side(y) = Side(z) /\ Owns(y, g)' /\ Owns(z, g)' => y = z
      BY <2>7, <2>8 DEF HInv, Owned
    <3>4. \A y \in Caller : call'[y].fd \notin held'[y]
      BY <1>1, <2>1, <2>2, <2>7 DEF HInv, Owned, Owns
    <3> QED
      BY <3>1, <3>2, <3>3, <3>4 DEF Owned
  <2>12. Recorded'
    BY <1>1, RecordedKept DEF HInv
  <2>13. Queued'
    <3>1. \A y \in Dialer : fd \notin held'[y] /\ (call'[y].fd = fd => call'[y].pc = "send_name")
      BY <1>1, <2>1, <2>2, <2>7 DEF Owns, Caller
    <3>2. \A y \in Dialer, g \in Fd \ {fd} : call'[y].fd = g => call'[y] = call[y]
      BY <2>1, <2>2 DEF Caller
    <3> QED
      BY <1>1, <2>3, <2>4, <2>5, <3>1, <3>2 DEF HInv, Queued, Program
  <2>14. Packages'
    <3>1. NothingSent
      BY <2>3, <2>4, <2>5 DEF NothingSent
    <3> QED
      BY <1>1, <3>1, PackagesKept DEF HInv
  <2>15. Known'
    BY <1>1, <2>1, <2>2 DEF HInv, Known, SameCookie
  <2>16. Matched'
    <3> SUFFICES ASSUME NEW d \in Dialer, NEW g \in Fd
                 PROVE  (RepliesMatch(d, g) /\ ChallengesMatch(g) /\ CallsMatch(d, g))'
      BY DEF Matched
    <3>1. RepliesMatch(d, g) /\ ChallengesMatch(g) /\ CallsMatch(d, g)
      BY DEF HInv, Matched
    <3>2. CASE g = fd
      <4>1. call'[Server].fd # fd
        BY <1>1, <2>2, <2>7 DEF Owns, Caller
      <4> QED
        BY <3>2, <4>1, <2>3, <2>4 DEF RepliesMatch, ChallengesMatch, CallsMatch, Program
    <3>3. CASE g # fd
      <4>1. /\ call'[d].fd = g => call'[d] = call[d]
            /\ call'[Server] = call[Server] /\ sock'[g] = sock[g]
        BY <1>1, <3>3, <2>1, <2>2, <2>5 DEF Caller
      <4> QED
        BY <3>1, <4>1 DEF RepliesMatch, ChallengesMatch, CallsMatch
    <3> QED
      BY <3>2, <3>3
  <2> QED
    BY <2>9, <2>10, <2>11, <2>12, <2>13, <2>14, <2>15, <2>16 DEF HInv
<1> QED
  BY <1>2, <1>3 DEF cnct

\* The socket that is accepted had no owner at the server, and its client waits
\* for an answer.
LEMMA Accepted ==
    ASSUME HInv, NEW x \in Caller, ei_accept_t(x)
    PROVE  HInv'
<1>1. /\ call[x] \in Call /\ call \in [Caller -> Call] /\ call[x].pc = "accept"
      /\ x = Server /\ Side(x) = "server" /\ ec[Side(x)] # NULL /\ x \notin asking
      /\ call[x].pc \in Unconnected /\ call[x].fd = NULL
      /\ UNCHANGED <<node, ec, info, held, epmd, asking, made>>
  BY Sides, HandshakeConstants
     DEF ei_accept_t, At, HInv, Types, Steps, Caller, DialPc, Unconnected
<1>2. CASE call' = [call EXCEPT ![x] = NoCall("error")] /\ sock' = sock
  <2>1. NoCall("error") \in Call /\ NoCall("error").pc = "idle" /\ NoCall("error").fd = NULL
    BY DEF NoCall, Call, AcceptPc, Flags, Value
  <2>2. /\ call' \in [Caller -> Call] /\ call'[x].pc = "idle" /\ call'[x].fd = NULL
        /\ \A y \in Caller \ {x} : call'[y] = call[y]
    BY <1>1, <1>2, <2>1
  <2>3. "idle" \in Unconnected /\ "idle" \in AcceptPc /\ asking' = asking \ {x}
    BY <1>1 DEF Unconnected, AcceptPc
  <2>4. epmd' \in {"down", "up", "alive"} /\ made' \in 0..MaxConnects
    BY <1>1 DEF HInv, Types
  <2> QED
    BY <1>1, <1>2, <2>2, <2>3, <2>4, OffSocket
<1>3. ASSUME NEW fd \in Fd, sock[fd].server = "queued",
             sock' = [sock EXCEPT ![fd].server = "open"],
             call' = [call EXCEPT ![x] = [Goto(x, "recv_name") EXCEPT !.fd = fd]]
      PROVE  HInv'
  <2> DEFINE c == [Goto(x, "recv_name") EXCEPT !.fd = fd]
  <2>1. c \in Call /\ c.pc = "recv_name" /\ c.fd = fd
    BY <1>1, ZenonT(60) DEF Goto, Call, AcceptPc
  <2>2. /\ call' \in [Caller -> Call] /\ call'[x] = c
        /\ \A y \in Caller \ {x} : call'[y] = call[y]
    BY <1>1, <1>3, <2>1
  <2> HIDE DEF c
  <2>3. sock \in [Fd -> Socket] /\ sock'[fd] = [sock[fd] EXCEPT !.server = "open"]
    BY <1>3 DEF HInv, Types
  <2>4. /\ sock'[fd] \in Socket /\ sock'[fd].client = sock[fd].client /\ sock'[fd].server = "open"
        /\ sock'[fd].in = sock[fd].in
    BY <2>3, ZenonT(60) DEF Socket
  <2>5. sock' \in [Fd -> Socket] /\ \A g \in Fd \ {fd} : sock'[g] = sock[g]
    BY <1>3, <2>3, <2>4
  <2>6. \A g \in Fd, p \in Program : Unread(sock'[g], p) = Unread(sock[g], p)
    BY <2>4, <2>5 DEF Unread
  <2>7. \A y \in Caller : Side(y) = "server" => ~Owns(y, fd)
    BY <1>3 DEF HInv, Owned
  <2>8. \A y \in Caller, g \in Fd : Owns(y, g)' <=> Owns(y, g) \/ (y = x /\ g = fd)
    BY <1>1, <2>1, <2>2, HandshakeConstants DEF Owns
  <2>9. Types'
    BY <1>1, <2>2, <2>5 DEF HInv, Types
  <2>10. Steps'
    BY <1>1, <2>1, <2>2, HandshakeConstants DEF HInv, Steps, AcceptPc, Unconnected, Unversioned
  <2>11. Owned'
    <3>1. \A y \in Caller, g \in Fd : Owns(y, g)' => sock'[g][Side(y)] = "open"
      <4> SUFFICES ASSUME NEW y \in Caller, NEW g \in Fd, Owns(y, g)'
                   PROVE  sock'[g][Side(y)] = "open"
        OBVIOUS
      <4>1. CASE y = x /\ g = fd
        BY <1>1, <2>4, <4>1
      <4>2. CASE ~(y = x /\ g = fd)
        <5>1. Owns(y, g) /\ sock[g][Side(y)] = "open"
          BY <2>8, <4>2 DEF HInv, Owned
        <5>2. g = fd => Side(y) = "client"
          BY <2>7, <5>1, Sides DEF Program
        <5> QED
          BY <5>1, <5>2, <2>4, <2>5
      <4> QED
        BY <4>1, <4>2
    <3>2. \A g \in Fd, p \in Program :
            sock'[g][p] = "open" => \E y \in Caller : Side(y) = p /\ Owns(y, g)'
      <4> SUFFICES ASSUME NEW g \in Fd, NEW p \in Program, sock'[g][p] = "open"
                   PROVE  \E y \in Caller : Side(y) = p /\ Owns(y, g)'
        OBVIOUS
      <4>1. CASE g = fd /\ p = "server"
        BY <1>1, <2>8, <4>1
      <4>2. CASE ~(g = fd /\ p = "server")
        <5>1. sock[g][p] = "open"
          BY <2>4, <2>5, <4>2 DEF Program
        <5>2. PICK y \in Caller : Side(y) = p /\ Owns(y, g)
          BY <5>1 DEF HInv, Owned
        <5> QED
          BY <5>2, <2>8
      <4> QED
        BY <4>1, <4>2
    <3>3. \A y, z \in Caller, g \in Fd :
            Side(y) = Side(z) /\ Owns(y, g)' /\ Owns(z, g)' => y = z
      BY <1>1, <2>7, <2>8 DEF HInv, Owned
    <3>4. \A y \in Caller : call'[y].fd \notin held'[y]
      BY <1>1, <2>1, <2>2, <2>7 DEF HInv, Owned, Owns
    <3> QED
      BY <3>1, <3>2, <3>3, <3>4 DEF Owned
  <2>12. Recorded'
    BY <1>1, RecordedKept DEF HInv
  <2>13. Queued'
    <3>1. \A g \in Fd : sock'[g].server = "queued" => sock[g].server = "queued" /\ g # fd
      BY <2>4, <2>5
    <3>2. \A y \in Dialer : y \in Caller /\ y # x
      BY <1>1, HandshakeConstants DEF Caller
    <3> QED
      BY <1>1, <2>2, <2>6, <3>1, <3>2 DEF HInv, Queued, Program
  <2>14. Packages'
    BY <1>1, <2>6, PackagesKept DEF HInv, NothingSent
  <2>15. Known'
    BY <1>1, <2>1, <2>2 DEF HInv, Known, SameCookie
  <2>16. Matched'
    <3> SUFFICES ASSUME NEW d \in Dialer, NEW g \in Fd
                 PROVE  (RepliesMatch(d, g) /\ ChallengesMatch(g) /\ CallsMatch(d, g))'
      BY DEF Matched
    <3>1. RepliesMatch(d, g) /\ ChallengesMatch(g) /\ CallsMatch(d, g)
      BY DEF HInv, Matched
    <3>2. call'[d] = call[d] /\ d # Server
      BY <1>1, <2>2, HandshakeConstants DEF Caller
    <3>3. /\ Unread(sock'[g], "server") = Unread(sock[g], "server")
          /\ Unread(sock'[g], "client") = Unread(sock[g], "client")
      BY <2>6 DEF Program
    <3>4. CASE g = fd
      <4>1. /\ Unread(sock[g], "client") = {}
            /\ call[d].fd = fd => call[d].pc \in {"send_name", "recv_status"}
        BY <1>3, <3>4 DEF HInv, Queued
      <4> QED
        BY <1>1, <2>1, <2>2, <3>1, <3>2, <3>3, <3>4, <4>1
           DEF RepliesMatch, ChallengesMatch, CallsMatch
    <3>5. CASE g # fd
      <4>1. call'[Server].fd # g
        BY <1>1, <3>5, <2>1, <2>2
      <4> QED
        BY <3>1, <3>2, <3>3, <4>1 DEF RepliesMatch, ChallengesMatch, CallsMatch
    <3> QED
      BY <3>4, <3>5
  <2> QED
    BY <2>9, <2>10, <2>11, <2>12, <2>13, <2>14, <2>15, <2>16 DEF HInv
<1> QED
  BY <1>2, <1>3 DEF ei_accept_t

\* A socket that breaks or goes away loses what is on it; open ends stay open.
LEMMA SocketLost ==
    ASSUME HInv, BreakSocket \/ Withdrawn
    PROVE  HInv'
<1>1. UNCHANGED <<node, ec, call, info, held, epmd, asking, made>>
  BY DEF BreakSocket, Withdrawn
<1>2. /\ sock' \in [Fd -> Socket] /\ NothingSent
      /\ \A g \in Fd : /\ sock'[g].client = sock[g].client
                       /\ \/ sock'[g].server = sock[g].server
                          \/ sock[g].server = "queued" /\ sock'[g].server = "closed"
  <2>1. sock \in [Fd -> Socket]
    BY DEF HInv, Types
  <2>2. CASE BreakSocket
    <3> DEFINE none == [p \in Program |-> <<>>]
    <3>1. PICK fd \in Fd :
            sock' = [sock EXCEPT ![fd].up = FALSE, ![fd].in = none,
                                 ![fd].server = IF @ = "queued" THEN "closed" ELSE @]
      BY <2>2 DEF BreakSocket
    <3>2. none \in [Program -> Seq(Package)] /\ \A p \in Program : none[p] = <<>>
      BY EmptySeq
    <3> HIDE DEF none
    <3>3. sock'[fd] = [sock[fd] EXCEPT !.up = FALSE, !.in = none,
                                       !.server = IF @ = "queued" THEN "closed" ELSE @]
      BY <2>1, <3>1 DEF Socket
    <3>4. /\ sock'[fd] \in Socket /\ sock'[fd].client = sock[fd].client
          /\ \/ sock'[fd].server = sock[fd].server
             \/ sock[fd].server = "queued" /\ sock'[fd].server = "closed"
          /\ \A p \in Program : sock'[fd].in[p] = <<>>
      <4>1. sock[fd] \in Socket
        BY <2>1
      <4>2. sock'[fd] \in Socket
        BY <4>1, <3>2, <3>3 DEF Socket
      <4>3. /\ sock'[fd].client = sock[fd].client /\ sock'[fd].in = none
            /\ sock'[fd].server = IF sock[fd].server = "queued" THEN "closed" ELSE sock[fd].server
        BY <4>1, <3>3 DEF Socket
      <4> QED
        BY <4>2, <4>3, <3>2
    <3>5. sock' \in [Fd -> Socket] /\ \A g \in Fd \ {fd} : sock'[g] = sock[g]
      BY <2>1, <3>1, <3>4
    <3>6. NothingSent
      BY <3>4, <3>5 DEF NothingSent, Unread
    <3> QED
      BY <3>4, <3>5, <3>6, SMTT(60)
  <2>3. CASE Withdrawn
    <3>1. PICK fd \in Fd : /\ sock[fd].server = "queued" /\ sock[fd].client = "closed"
                           /\ sock' = [sock EXCEPT ![fd] = FreeSocket]
      BY <2>3 DEF Withdrawn
    <3>2. /\ FreeSocket.client = "closed" /\ FreeSocket.server = "closed"
          /\ \A p \in Program : Unread(FreeSocket, p) = {}
      BY EmptySeq DEF FreeSocket, Unread
    <3>3. sock' \in [Fd -> Socket] /\ sock'[fd] = FreeSocket /\ \A g \in Fd \ {fd} : sock'[g] = sock[g]
      BY <2>1, <3>1, FreeIsSocket
    <3> QED
      BY <3>1, <3>2, <3>3 DEF NothingSent
  <2> QED
    BY <2>2, <2>3
<1>3. Types'
  BY <1>1, <1>2 DEF HInv, Types
<1>4. Steps' /\ Known'
  BY <1>1 DEF HInv, Steps, Known, SameCookie
<1>5. Owned'
  <2>1. \A y \in Caller, g \in Fd : Owns(y, g)' <=> Owns(y, g)
    BY <1>1 DEF Owns
  <2>2. \A g \in Fd, p \in Program : sock'[g][p] = "open" <=> sock[g][p] = "open"
    BY <1>2 DEF Program
  <2> QED
    BY <1>1, <2>1, <2>2, Sides DEF HInv, Owned
<1>6. Recorded'
  BY <1>1, RecordedKept DEF HInv
<1>7. Packages'
  BY <1>1, <1>2, PackagesKept DEF HInv
<1>8. Queued'
  BY <1>1, <1>2 DEF HInv, Queued, NothingSent, Program
<1>9. Matched'
  BY <1>1, <1>2
     DEF HInv, Matched, RepliesMatch, ChallengesMatch, CallsMatch, NothingSent, Program
<1> QED
  BY <1>3, <1>4, <1>5, <1>6, <1>7, <1>8, <1>9 DEF HInv

\* A cookie is set once, before the program makes its first call.
LEMMA Initialised ==
    ASSUME HInv, NEW p \in Program, ei_connect_init(p)
    PROVE  HInv'
<1>1. /\ ec[p] = NULL /\ ec' = [ec EXCEPT ![p] = ei_connect_xinit(node[p])]
      /\ UNCHANGED <<node, call, sock, info, held, epmd, asking, made>>
  BY DEF ei_connect_init
<1>2. ei_connect_xinit(node[p]) \in Cookie
  <2>1. /\ node[p].given \in {NULL, "c1", "c2"}
        /\ node[p].file \in {NULL} \cup [first : {"c1", "c2"}, more : BOOLEAN]
    BY HandshakeConstants DEF HInv, Types
  <2>2. node[p].file # NULL => node[p].file.first \in {"c1", "c2"}
    BY <2>1
  <2> QED
    BY <2>1, <2>2 DEF ei_connect_xinit, get_cookie, Cookie
<1>3. ec' \in [Program -> Cookie] /\ \A q \in Program : ec[q] # NULL => ec'[q] = ec[q]
  BY <1>1, <1>2 DEF HInv, Types
<1>4. Types'
  BY <1>1, <1>3 DEF HInv, Types
<1>5. Steps'
  <2>1. \A x \in Caller : Side(x) \in Program
    BY Sides
  <2> QED
    BY <1>1, <1>3, <2>1 DEF HInv, Steps
<1>6. Owned'
  BY <1>1, OwnedKept DEF HInv, EndsKept
<1>7. Recorded'
  BY <1>1, RecordedKept DEF HInv
<1>8. Queued' /\ Matched'
  BY <1>1 DEF HInv, Queued, Matched, RepliesMatch, ChallengesMatch, CallsMatch
<1>9. Packages'
  <2>1. \A m : (FromClient(m) => FromClient(m)') /\ (FromServer(m) => FromServer(m)')
    BY <1>1, <1>3 DEF FromClient, FromServer, Program
  <2> QED
    BY <1>1, <2>1 DEF HInv, Packages, Unread
<1>10. Known'
  <2>1. SameCookie => SameCookie'
    BY <1>3 DEF SameCookie, Program
  <2> QED
    BY <1>1, <2>1 DEF HInv, Known
<1> QED
  BY <1>4, <1>5, <1>6, <1>7, <1>8, <1>9, <1>10 DEF HInv

-----------------------------------------------------------------------------
(* The invariant, and what it implies.                                     *)

\* Every step of the programs preserves the invariant.
LEMMA HandshakeStep ==
    ASSUME HInv, [HNext]_hvars
    PROVE  HInv'
<1>1. CASE UNCHANGED hvars
  <2>1. \A fd \in Fd, p \in Program : Unread(sock'[fd], p) = Unread(sock[fd], p)
    BY <1>1 DEF hvars
  <2>2. EndsKept /\ NothingSent
    BY <1>1, <2>1 DEF hvars, EndsKept, NothingSent
  <2>3. Types' /\ Steps' /\ Known'
    BY <1>1 DEF hvars, HInv, Types, Steps, Known, SameCookie
  <2>4. Owned' /\ Recorded' /\ Packages'
    BY <1>1, <2>2, OwnedKept, RecordedKept, PackagesKept DEF hvars, HInv
  <2>5. Queued' /\ Matched'
    BY <1>1 DEF hvars, HInv, Queued, Matched, RepliesMatch, ChallengesMatch, CallsMatch
  <2> QED
    BY <2>3, <2>4, <2>5 DEF HInv
<1>2. ASSUME NEW x \in Caller,
             \/ ei_connect_tmo(x) \/ ei_accept_tmo(x) \/ ei_epmd_r4_publish(x)
             \/ ei_unpublish_tmo(x) \/ ei_epmd_connect_tmo(x) \/ ei_epmd_r4_port(x)
      PROVE  HInv'
  BY <1>2, OffSocketCalls
<1>3. ASSUME NEW x \in Caller, cnct(x) \/ ei_accept_t(x) PROVE HInv'
  BY <1>3, Connects, Accepted
<1>4. ASSUME NEW x \in Caller, ei_xconnect_tmo(x) PROVE HInv'
  BY <1>4, SendName, RecvStatus, RecvChallenge, SendChallengeReply, RecvChallengeAck
     DEF ei_xconnect_tmo
<1>5. ASSUME NEW x \in Caller, Accepts(x) PROVE HInv'
  BY <1>5, RecvName, SendStatus, SendChallenge, RecvChallengeReply, SendChallengeAck
     DEF Accepts
<1>6. ASSUME NEW x \in Caller, Return(x) \/ erl_close_connection(x) PROVE HInv'
  BY <1>6, Returned, CloseConnection
<1>7. ASSUME NEW p \in Program, ei_connect_init(p) PROVE HInv'
  BY <1>7, Initialised
<1>8. CASE BreakSocket \/ Withdrawn
  BY <1>8, SocketLost
<1>9. CASE EpmdStops
  <2>1. /\ UNCHANGED <<node, ec, call, sock, info, held, asking, made>>
        /\ epmd' \in {"down", "up", "alive"}
    BY <1>9 DEF EpmdStops
  <2>2. EndsKept /\ NothingSent
    BY <2>1 DEF EndsKept, NothingSent
  <2>3. Types' /\ Steps' /\ Known'
    BY <2>1 DEF HInv, Types, Steps, Known, SameCookie
  <2>4. Owned' /\ Recorded' /\ Packages'
    BY <2>1, <2>2, OwnedKept, RecordedKept, PackagesKept DEF HInv
  <2>5. Queued' /\ Matched'
    BY <2>1 DEF HInv, Queued, Matched, RepliesMatch, ChallengesMatch, CallsMatch
  <2> QED
    BY <2>3, <2>4, <2>5 DEF HInv
<1> QED
  BY <1>1, <1>2, <1>3, <1>4, <1>5, <1>6, <1>7, <1>8, <1>9 DEF HNext, Proceed, Asks

\* Every package on its way, every step of a call and every end of a socket stays in
\* accord with the others, whatever fails and in whatever order the threads run.
THEOREM HandshakeInvariant == HSpec => []HInv
<1>1. HInv /\ [HNext]_hvars => HInv'
  BY HandshakeStep
<1> QED
  BY InitHandshake, <1>1, PTL DEF HSpec

\* A connection is returned only after its peer has proved that it holds the same
\* cookie and can do what is needed; both ends then agree on both challenges.
THEOREM PeersAuthenticated == HSpec => []Authenticated
<1>1. HInv => Authenticated
  <2> SUFFICES ASSUME HInv, NEW x \in Caller, Shaken(x)
               PROVE  /\ ec["client"] = ec["server"]
                      /\ Capable(node["client"].flags) /\ Capable(node["server"].flags)
                      /\ \A y \in Caller \ {x} : call[y].fd = call[x].fd /\ Shaken(y) =>
                           call[y].ours = call[x].hers /\ call[x].ours = call[y].hers
    BY DEF Authenticated
  <2>1. call[x].pc = "put" /\ call[x].pc \notin Unconnected
    BY DEF Shaken, Unconnected
  <2>2. /\ ec["client"] = ec["server"]
        /\ Capable(node["client"].flags) /\ Capable(node["server"].flags)
    BY <2>1 DEF HInv, Known, SameCookie
  <2>3. ASSUME NEW y \in Caller \ {x}, call[y].fd = call[x].fd, Shaken(y)
        PROVE  call[y].ours = call[x].hers /\ call[x].ours = call[y].hers
    <3>1. call[x].fd \in Fd /\ Side(y) # Side(x)
      BY <2>1, <2>3, Connected
    <3>2. (x = Server /\ y \in Dialer) \/ (y = Server /\ x \in Dialer)
      BY <2>3, <3>1, Sides DEF Caller
    <3>3. \A c \in Dialer : CallsMatch(c, call[x].fd)
      BY <3>1 DEF HInv, Matched
    <3> QED
      BY <2>1, <2>3, <3>2, <3>3 DEF CallsMatch, Shaken
  <2> QED
    BY <2>2, <2>3
<1> QED
  BY <1>1, HandshakeInvariant, PTL

\* A set of indices that is not empty has a least one.
LEMMA LeastIndex ==
    ASSUME NEW S \in SUBSET Nat, S # {}
    PROVE  Min(S) \in S /\ \A i \in S : Min(S) <= i
<1>1. PICK i \in S : \A j \in S : ~(<<j, i>> \in OpToRel(<, Nat))
  BY WFMin, NatLessThanWellFounded
<1>2. i \in S /\ \A j \in S : ~(j < i)
  BY <1>1 DEF OpToRel
<1>3. \A j \in S : j \in Nat
  OBVIOUS
<1>4. i \in S /\ \A j \in S : i =< j
  BY <1>2, <1>3
<1> QED
  BY <1>4 DEF Min

\* No descriptor is lost or has two owners, and what the table says of a descriptor
\* is true of the connection it stands for now.
THEOREM DescriptorsAreSound == HSpec => []DescriptorsSound
<1>1. HInv => HTypeOK
  <2> SUFFICES ASSUME HInv PROVE HTypeOK
    OBVIOUS
  <2>1. \A x \in Caller : call[x] \in Call
    BY DEF HInv, Types
  <2>2. \A fd \in Fd : sock[fd] \in Socket
    BY DEF HInv, Types
  <2>3. \A x \in Caller :
          /\ call[x].fd \in Fd \cup {NULL} /\ call[x].dist \in {0, 5}
          /\ {call[x].hers, call[x].ours} \subseteq Challenge \cup {NULL}
          /\ call[x].flags \subseteq {"refs", "pids", "floats"}
    BY <2>1 DEF Call, Value, Flags
  <2>4. \A fd \in Fd : /\ sock[fd].client \in {"open", "closed"}
                       /\ sock[fd].server \in {"open", "closed", "queued"}
    BY <2>2 DEF Socket
  <2> QED
    BY <2>3, <2>4 DEF HTypeOK, HInv, Types
<1>2. HInv => SocketsOwned
  <2> SUFFICES ASSUME HInv PROVE SocketsOwned
    OBVIOUS
  <2>1. ASSUME NEW fd \in Fd, NEW p \in Program, sock[fd][p] = "open"
        PROVE  Cardinality({x \in Caller : Side(x) = p /\ (call[x].fd = fd \/ fd \in held[x])}) = 1
    <3>1. PICK x \in Caller : Side(x) = p /\ Owns(x, fd)
      BY <2>1 DEF HInv, Owned
    <3>2. {y \in Caller : Side(y) = p /\ (call[y].fd = fd \/ fd \in held[y])} = {x}
      BY <3>1 DEF HInv, Owned, Owns
    <3> QED
      BY <3>2, FS_Singleton
  <2>2. \A x \in Caller :
          /\ call[x].fd # NULL => sock[call[x].fd][Side(x)] = "open"
          /\ \A fd \in held[x] : sock[fd][Side(x)] = "open"
          /\ x \in asking <=> At(x, "port")
    BY DEF HInv, Types, Owned, Owns, Steps, Call, At
  <2> QED
    BY <2>1, <2>2 DEF SocketsOwned
<1>3. HInv => TableCurrent
  <2> SUFFICES ASSUME HInv, NEW x \in Caller, NEW fd \in held[x],
                      get_ei_socket_info(Side(x), fd) # NULL
               PROVE  get_ei_socket_info(Side(x), fd) = Entry(fd, 5, x)
    BY DEF TableCurrent
  <2> DEFINE s == info[Side(x)].sockets
             found == {i \in DOMAIN s : s[i].socket = fd}
  <2>1. s \in Seq([socket : Fd, dist_version : {0, 5}, cnode : Caller])
    BY Sides DEF HInv, Types, Table
  <2>2. found \subseteq Nat
    BY <2>1, LenProperties
  <2>3. found # {} /\ get_ei_socket_info(Side(x), fd) = s[Min(found)]
    BY DEF get_ei_socket_info
  <2>4. Min(found) \in found
    BY <2>2, <2>3, LeastIndex
  <2> QED
    BY <2>3, <2>4 DEF HInv, Recorded
<1>4. HInv => DescriptorsSound
  BY <1>1, <1>2, <1>3 DEF DescriptorsSound
<1> QED
  BY <1>4, HandshakeInvariant, PTL
==============================================================================
