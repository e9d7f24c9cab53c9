------------------------------- MODULE UdsStream -------------------------------
(* The distribution over Unix sockets: two connected ports of uds_drv.c, the *)
(* driver of the kernel's uds_dist example.  The handshake sends and receives*)
(* packet by packet, in command mode; then the port is set to intermediate   *)
(* and to data mode, where the emulator sends what it likes and the driver   *)
(* delivers what arrives.                                                    *)
(*                                                                           *)
(* The instances of a driver share a lock, so a callback is one step.  A     *)
(* callback writes until the queue is empty or the socket full, and reads    *)
(* until a read finds too little: what the peer does meanwhile might as well *)
(* have been done before.                                                    *)
EXTENDS Integers, Sequences, SequencesExt, FiniteSets

CONSTANTS
    Lens,           \* the lengths of packets
    Capacity,       \* the bytes a socket holds
    CHUNK_SIZE,     \* the buffer grows in chunks
    MaxPackets      \* the packets each port sends

ASSUME StreamConstants ==
    Lens \subseteq 0..255 /\ Capacity \in Nat \ {0} /\ CHUNK_SIZE \in Nat \ {0} /\ MaxPackets \in Nat

VARIABLES
    ud,         \* the UdsData of each port: its type, buffer, header_pos, buffer_size, sent, received
    queue,      \* the driver queue of each port
    sel,        \* what each port has selected of read and write
    pipe,       \* the bytes on the way to each port
    asked,      \* what the owner waits for: S, R or nothing
    wrote,      \* the packets each port was asked to send
    got         \* the packets each port delivered

stvars == <<ud, queue, sel, pipe, asked, wrote, got>>

Port == {1, 2}

Peer(p) == 3 - p

HEADER_LENGTH == 4

StInit ==
    /\ ud = [p \in Port |-> [type |-> "command", buffer |-> <<>>, header_pos |-> 0, buffer_size |-> 0,
                             sent |-> 0, received |-> 0]]
    /\ queue = [p \in Port |-> <<>>] /\ sel = [p \in Port |-> {}] /\ pipe = [p \in Port |-> <<>>]
    /\ asked = [p \in Port |-> "none"] /\ wrote = [p \in Port |-> <<>>] /\ got = [p \in Port |-> <<>>]

Open(p) == ud[p].type \notin {"closed", "exited"}

\* The length as the driver writes and reads it.
put_packet_length(n) == <<(n \div 2^24) % 256, (n \div 2^16) % 256, (n \div 2^8) % 256, n % 256>>

get_packet_length(b) == ((b[1] * 256 + b[2]) * 256 + b[3]) * 256 + b[4]

Packet(data) == put_packet_length(Len(data)) \o data

-----------------------------------------------------------------------------
(* Sending. *)

Close(p, type) ==
    /\ ud' = [ud EXCEPT ![p].type = type]
    /\ queue' = [queue EXCEPT ![p] = <<>>] /\ sel' = [sel EXCEPT ![p] = {}]
    /\ asked' = [asked EXCEPT ![p] = "none"]
    /\ UNCHANGED <<pipe, wrote, got>>

\* The bytes the socket takes of those in hand.
Taken(p, bytes) ==
    IF Capacity - Len(pipe[Peer(p)]) < Len(bytes) THEN Capacity - Len(pipe[Peer(p)]) ELSE Len(bytes)

\* send_out_queue, with what do_send adds: the bytes go behind those of the
\* queue, as many as the socket takes are written, and Sok is sent in command
\* mode once all are.
send_out_queue(p, bytes) ==
    \E all \in {queue[p] \o bytes} : \E w \in {Taken(p, all)} :
        /\ pipe' = [pipe EXCEPT ![Peer(p)] = @ \o SubSeq(all, 1, w)]
        /\ queue' = [queue EXCEPT ![p] = SubSeq(all, w + 1, Len(all))]
        /\ ud' = [ud EXCEPT ![p].sent = @ + w]
        /\ sel' = [sel EXCEPT ![p] = IF w = Len(all) THEN @ \ {"write"} ELSE @ \cup {"write"}]
        /\ asked' = [asked EXCEPT ![p] = IF ud[p].type # "command" THEN @
                                         ELSE IF w = Len(all) THEN "none" ELSE "S"]

\* A write to a socket the peer closed fails.
do_send(p, data) ==
    IF Open(Peer(p))
    THEN send_out_queue(p, Packet(data)) /\ wrote' = [wrote EXCEPT ![p] = Append(@, data)] /\ UNCHANGED got
    ELSE Close(p, "closed")

\* The k-th packet of a port.
Payload(p, n) == [j \in 1..n |-> 10 * p + Len(wrote[p])]

\* S of the owner, who waits for the answer.
CommandSend(p) ==
    /\ ud[p].type = "command" /\ asked[p] = "none" /\ Len(wrote[p]) < MaxPackets
    /\ \E n \in Lens : do_send(p, Payload(p, n))

\* What the emulator sends once the node is up.
PassiveSend(p) ==
    /\ ud[p].type \in {"intermediate", "data"} /\ Len(wrote[p]) < MaxPackets
    /\ \E n \in Lens : do_send(p, Payload(p, n))

\* T of uds_control: a tick is an empty packet.
Tick(p) ==
    /\ ud[p].type = "data" /\ Len(wrote[p]) < MaxPackets
    /\ do_send(p, <<>>)

\* The socket can be written.
OutputReady(p) ==
    /\ Open(p) /\ "write" \in sel[p]
    /\ Len(pipe[Peer(p)]) < Capacity \/ ~Open(Peer(p))

\* In intermediate mode an assertion ends the program.
uds_output(p) ==
    /\ OutputReady(p)
    /\ IF ud[p].type = "intermediate" THEN Close(p, "exited")
       ELSE IF ~Open(Peer(p)) THEN Close(p, "closed")
       ELSE send_out_queue(p, <<>>) /\ UNCHANGED <<wrote, got>>

-----------------------------------------------------------------------------
(* Receiving.  d is the UdsData, n the bytes on the way, out the packets     *)
(* delivered so far, and res what the last read returned.                    *)

\* A buffer with room for num bytes more: packed first, then made larger.
Enlarged(d, need) ==
    IF need <= d.buffer_size THEN d ELSE [d EXCEPT !.buffer_size = ((need \div CHUNK_SIZE) + 1) * CHUNK_SIZE]

Packed(d) == [d EXCEPT !.buffer = SubSeq(@, d.header_pos + 1, Len(@)), !.header_pos = 0]

MakeRoom(d, num) ==
    IF Len(d.buffer) + num <= d.buffer_size THEN d
    ELSE Enlarged(Packed(d), Len(d.buffer) - d.header_pos + num)

\* The bytes one read gets: what there is, or what there is room for.
Gets(d, n) == IF d.buffer_size - Len(d.buffer) < Len(n) THEN d.buffer_size - Len(d.buffer) ELSE Len(n)

Nothing(d, open) == [d |-> d, n |-> <<>>, res |-> IF open THEN "again" ELSE "eof"]

ReadSome(d, n, num, g) ==
    [d |-> [d EXCEPT !.buffer = @ \o SubSeq(n, 1, g), !.received = @ + g],
     n |-> SubSeq(n, g + 1, Len(n)), res |-> IF g < num THEN "again" ELSE "ok"]

ReadInto(d, n, num, open) == IF n = <<>> THEN Nothing(d, open) ELSE ReadSome(d, n, num, Gets(d, n))

read_at_least(d, n, num, open) == ReadInto(MakeRoom(d, num), n, num, open)

\* The bytes missing up to an end behind the header.
Missing(d, end) == d.header_pos + end - Len(d.buffer)

Fill(r, end, open) ==
    IF r.res # "ok" \/ Missing(r.d, end) <= 0 THEN r ELSE read_at_least(r.d, r.n, Missing(r.d, end), open)

DataSize(d) == get_packet_length(SubSeq(d.buffer, d.header_pos + 1, d.header_pos + HEADER_LENGTH))

\* The header, then the packet.
Delivery(r, at, size) ==
    IF r.res # "ok" THEN [d |-> r.d, n |-> r.n, res |-> r.res, data |-> <<>>]
    ELSE [d |-> [r.d EXCEPT !.header_pos = at + size], n |-> r.n, res |-> "ok",
          data |-> SubSeq(r.d.buffer, at + 1, at + size)]

PacketFilled(r) == Delivery(r, r.d.header_pos + HEADER_LENGTH, IF r.res = "ok" THEN DataSize(r.d) ELSE 0)

HeaderFilled(r, open) ==
    PacketFilled(IF r.res # "ok" THEN r ELSE Fill(r, HEADER_LENGTH + DataSize(r.d), open))

buffered_read_package(d, n, open) ==
    HeaderFilled(Fill([d |-> d, n |-> n, res |-> "ok"], HEADER_LENGTH, open), open)

\* One packet in command mode, all there are in the other modes.
RECURSIVE Received(_, _, _, _)
Continued(r, out, open) ==
    IF r.res = "ok" /\ r.d.type # "command" THEN Received(r.d, r.n, Append(out, r.data), open)
    ELSE [d |-> r.d, n |-> r.n, res |-> r.res, out |-> IF r.res = "ok" THEN Append(out, r.data) ELSE out]

Received(d, n, out, open) == Continued(buffered_read_package(d, n, open), out, open)

\* What a read changes: r is what it returned, answered whether the port has
\* no use for more.
AfterRecv(p, r, answered) ==
    /\ pipe' = [pipe EXCEPT ![p] = r.n]
    /\ got' = [got EXCEPT ![p] = @ \o r.out]
    /\ ud' = [ud EXCEPT ![p] = IF r.res = "eof" THEN [r.d EXCEPT !.type = "closed"] ELSE r.d]
    /\ sel' = [sel EXCEPT ![p] = IF r.res = "eof" THEN {} ELSE IF answered THEN @ \ {"read"} ELSE @ \cup {"read"}]
    /\ asked' = [asked EXCEPT ![p] = IF answered \/ r.res = "eof" THEN "none"
                                     ELSE IF r.d.type = "command" THEN "R" ELSE @]
    /\ queue' = IF r.res = "eof" THEN [queue EXCEPT ![p] = <<>>] ELSE queue
    /\ UNCHANGED wrote

\* A bug of the mutants: reading is not asked for again in data mode.
RecvUnselected(p, d) ==
    \E r \in {Received(d, pipe[p], <<>>, Open(Peer(p)))} :
        AfterRecv(p, r, r.res = "ok" \/ (d.type = "data" /\ r.out # <<>>))

\* d is the port in its new type.
do_recv(p, d) ==
    \E r \in {Received(d, pipe[p], <<>>, Open(Peer(p)))} : AfterRecv(p, r, r.res = "ok")

\* R of the owner.
CommandRecv(p) == ud[p].type = "command" /\ asked[p] = "none" /\ do_recv(p, ud[p])

\* The socket can be read.
InputReady(p) == Open(p) /\ "read" \in sel[p] /\ (pipe[p] # <<>> \/ ~Open(Peer(p)))

uds_input(p) == InputReady(p) /\ do_recv(p, ud[p])

-----------------------------------------------------------------------------
(* The modes.  The handshake sets them one after the other.                  *)

SetIntermediate(p) ==
    /\ ud[p].type = "command" /\ asked[p] = "none"
    /\ ud' = [ud EXCEPT ![p].type = "intermediate"]
    /\ sel' = [sel EXCEPT ![p] = @ \ {"read"}]
    /\ UNCHANGED <<queue, pipe, asked, wrote, got>>

\* What was read behind the last packet of the handshake is delivered.
SetData(p) == ud[p].type = "intermediate" /\ do_recv(p, [ud[p] EXCEPT !.type = "data"])

StNext ==
    \E p \in Port :
        \/ CommandSend(p) \/ PassiveSend(p) \/ Tick(p) \/ CommandRecv(p)
        \/ uds_output(p) \/ uds_input(p)
        \/ SetIntermediate(p) \/ SetData(p)

-----------------------------------------------------------------------------
(* What the driver promises. *)

StTypeOK ==
    \A p \in Port :
        /\ ud[p].header_pos \in 0..Len(ud[p].buffer) /\ Len(ud[p].buffer) <= ud[p].buffer_size
        /\ Len(pipe[p]) <= Capacity /\ sel[p] \subseteq {"read", "write"}
        /\ asked[p] \in {"none", "S", "R"}

Packets(ps) == FlattenSeq([k \in DOMAIN ps |-> Packet(ps[k])])

\* The bytes read that were not delivered.
Unread(d) == SubSeq(d.buffer, d.header_pos + 1, Len(d.buffer))

\* Every byte of the packets to be sent is in one place: delivered, in the
\* buffer, on the way, or in the queue, and in that order, whatever was
\* written and read in part (uds_drv.c:707, 806, 850, 885).
NoneLost ==
    \A p \in Port :
        (Open(p) /\ Open(Peer(p))) =>
            Packets(wrote[p]) = Packets(got[Peer(p)]) \o Unread(ud[Peer(p)]) \o pipe[Peer(p)] \o queue[p]

\* The packets delivered are the first ones that were sent.
Delivered == \A p \in Port : IsPrefix(got[Peer(p)], wrote[p])

\* The counters the ticker asks for are the bytes written and read
\* (uds_drv.c:429).
CountersAgree ==
    \A p \in Port : /\ ud[p].sent = ud[Peer(p)].received + Len(pipe[Peer(p)])
                    /\ (Open(p) => ud[p].sent + Len(queue[p]) = Len(Packets(wrote[p])))

\* In data mode no whole packet waits in the buffer: no event would come for
\* it (uds_drv.c:456).
NoneWaits ==
    \A p \in Port :
        ud[p].type = "data" => /\ "read" \in sel[p]
                               /\ (Len(Unread(ud[p])) >= HEADER_LENGTH =>
                                      Len(Unread(ud[p])) < HEADER_LENGTH + DataSize(ud[p]))

\* The owner waits for Sok just as long as something is to be written, and
\* then a write event is awaited (uds_drv.c:815, 836).
OkWhenWritten ==
    \A p \in Port : Open(p) => /\ (queue[p] # <<>>) <=> ("write" \in sel[p])
                               /\ (asked[p] = "S") => (queue[p] # <<>>)
                               /\ (ud[p].type = "command" /\ queue[p] # <<>>) => asked[p] = "S"

\* Output is only asked for in command and in data mode (the assertion of
\* uds_drv.c:390).
OutputAsserted == \A p \in Port : ud[p].type = "intermediate" => "write" \notin sel[p]

\* What is sent to a port in data mode arrives, unless an end goes down: no
\* wakeup is lost (uds_drv.c:763, 836).
Arrives ==
    \A p \in Port, k \in 1..MaxPackets :
        (Len(wrote[p]) >= k /\ ud[Peer(p)].type = "data")
            ~> (Len(got[Peer(p)]) >= k \/ ~Open(p) \/ ~Open(Peer(p)) \/ ud[p].type = "intermediate")

\* The emulator signals what was selected: weak fairness of the two callbacks,
\* whose enabling conditions are written out.
StFairness ==
    \A p \in Port : /\ []<>(~OutputReady(p)) \/ []<><<uds_output(p)>>_stvars
                    /\ []<>(~InputReady(p)) \/ []<><<uds_input(p)>>_stvars

\* A connection carries packets whatever is read, written and buffered in part:
\* their bytes are in one place and in order, the counters agree with them, and
\* what can be delivered or written is (uds_drv.c).
StreamSound ==
    /\ StTypeOK /\ NoneLost /\ Delivered /\ CountersAgree /\ NoneWaits /\ OkWhenWritten

StSpec == StInit /\ [][StNext]_stvars /\ StFairness
=============================================================================
