----------------------------- MODULE EmemQueue -----------------------------
(* The threads of emem (erl_memory.c): one receives the trace of an          *)
(* emulator, one digests it and prints, one writes what was printed.  They   *)
(* are connected by two queues of buffers; a writer is given an area at the  *)
(* end of the last buffer and a reader all that has been published of the    *)
(* first, and both use their areas without holding the mutex.                *)
(*                                                                           *)
(* The unit of data is an operation of the trace, or a print.  External are  *)
(* the emulator, the parser, and what an operation prints (EmemInfo).        *)
EXTENDS Nil, Integers, Sequences, FiniteSets, SequencesExt

CONSTANTS
    Trace,          \* number of units of the trace; the last one stops it
    HeaderUnits,    \* of which the first are its header
    BufSize,        \* EM_DEFAULT_BUF_SZ
    MinRead,        \* EM_MIN_TRACE_READ_SIZE
    MaxBuf,         \* max_buf_size
    QFaults         \* "malloc", "thread", "socket", "bad", "write", "intr", "recv", "quick"

ASSUME QueueConstants ==
    /\ Trace \in Nat /\ BufSize \in Nat /\ MaxBuf \in Nat /\ MaxBuf >= BufSize
    /\ HeaderUnits \in 1..Trace - 1 /\ MinRead \in 1..BufSize
    /\ NULL \notin {"stopped", "truncated", "bad", "lost"}
    /\ QFaults \subseteq {"malloc", "thread", "socket", "bad", "write", "intr", "recv", "quick"}

VARIABLES
    input, output,  \* the queues
    peer,           \* units the emulator has sent, those received, and whether it has closed
    errno,          \* of the input thread: it outlives a call that succeeds
    recvr, main, writer,    \* the threads
    file,           \* what has been written
    ended           \* how the program has ended, NULL as long as it runs

qvars == <<input, output, peer, errno, recvr, main, writer, file, ended>>

NoArea == [id |-> NULL, at |-> 0, size |-> 0]

\* Buffers 1 and 2 are those within the queue, the others are allocated.
init_queue ==
    [bufs |-> <<>>, used |-> {}, mem |-> [i \in {1, 2} |-> [k \in 1..BufSize |-> 0]],
     tot |-> 0, no_writer |-> FALSE, no_reader |-> FALSE, waits |-> FALSE]

reset_buffer(id, size) == [id |-> id, write |-> TRUE, data |-> 0, data_end |-> 0, end |-> size]

cond_signal(q) == [q EXCEPT !.waits = FALSE]
\* Mutation: nobody is told that nothing more will come.
DisconnectQuietly(q) == [q EXCEPT !.no_writer = TRUE]

disconnect_queue_writer(q) == cond_signal([q EXCEPT !.no_writer = TRUE])
disconnect_queue_reader(q) == cond_signal([q EXCEPT !.no_reader = TRUE])

dequeue(q) ==
    LET buf == Head(q.bufs)
    IN  [q EXCEPT !.bufs = Tail(@), !.tot = @ - buf.end, !.used = @ \ {buf.id}]

enqueue(q, min_size) ==
    LET small == min_size <= BufSize
        size == IF small THEN BufSize ELSE min_size
        id == IF small /\ 1 \notin q.used THEN 1
              ELSE IF small /\ 2 \notin q.used THEN 2
              ELSE CHOOSE i \in 3..Cardinality(q.used) + 3 : i \notin q.used
        n == Len(q.bufs)
    IN  [q EXCEPT !.bufs = Append(IF n = 0 THEN @ ELSE [@ EXCEPT ![n].write = FALSE], reset_buffer(id, size)),
                  !.used = @ \cup {id}, !.tot = @ + size,
                  !.mem = IF id <= 2 THEN @
                          ELSE [i \in DOMAIN @ \cup {id} |-> IF i = id THEN [k \in 1..size |-> 0] ELSE @[i]]]

\* The last buffer has enough room behind what was published.
HasRoom(q, size) == q.bufs # <<>> /\ Last(q.bufs).end - Last(q.bufs).data_end >= size
Allocates(q, size) == ~HasRoom(q, size) /\ (size > BufSize \/ {1, 2} \subseteq q.used)

wrote_area(q, area) == cond_signal([q EXCEPT !.bufs[Len(q.bufs)].data_end = area.at + area.size])

\* A queue that has room for size more units.
Roomy(q, size) == IF HasRoom(q, size) THEN q ELSE enqueue(q, size)

Published(q, area) == IF area.size > 0 THEN wrote_area(q, area) ELSE q

Handed(q, buf, from) ==
    [q |-> q, area |-> [id |-> buf.id, at |-> from, size |-> buf.end - from], over |-> q.tot > MaxBuf]

\* Mutation: data that has not been read yet is written over.
HandedFromStart(q) == Handed(q, Last(q.bufs), Last(q.bufs).data)

HandedFromEnd(q) == Handed(q, Last(q.bufs), Last(q.bufs).data_end)

\* What was written before is published, and the rest of a buffer handed out.
get_next_write_area(q, area, size) == HandedFromEnd(Roomy(Published(q, area), size))

\* A buffer that has been read and gets no more data.
IsRead(b) == b.data = b.data_end /\ (~b.write \/ b.data = b.end)

\* It is dropped; there is never a second one behind it (OneToDrop), so the loop
\* has one round.
DropRead(q) == IF q.bufs # <<>> /\ IsRead(Head(q.bufs)) THEN dequeue(q) ELSE q

\* All that has been published of the first buffer; the reader waits for more, or
\* gets nothing when the writer is gone.
Readable(q) == q.bufs # <<>> /\ Head(q.bufs).data < Head(q.bufs).data_end

AreaOf(b) == [id |-> b.id, at |-> b.data, size |-> b.data_end - b.data]

NextReadArea(q) ==
    IF Readable(q)
    THEN [q |-> [q EXCEPT !.bufs[1].data = q.bufs[1].data_end], waits |-> FALSE, area |-> AreaOf(Head(q.bufs))]
    ELSE [q |-> [q EXCEPT !.waits = ~q.no_writer], waits |-> ~q.no_writer, area |-> NoArea]

get_next_read_area(q) == NextReadArea(DropRead(q))

\* The data of an area, and data put into an area.
DataOf(q, area) == [i \in 1..area.size |-> q.mem[area.id][area.at + i]]
Fill(q, area, units) ==
    [q EXCEPT !.mem[area.id] = [k \in DOMAIN @ |->
        IF k - area.at \in DOMAIN units THEN units[k - area.at] ELSE @[k]]]

Runs == ended = NULL
error_msg(how) == ended' = how /\ UNCHANGED <<input, output, peer, errno, recvr, main, writer, file>>

-----------------------------------------------------------------------------
(* The thread that receives (input_thread_func). *)

NextInputArea ==
    /\ Runs /\ recvr.pc = "area"
    /\ \E g \in {get_next_write_area(input, recvr.area, MinRead)} :
           \/ /\ ~g.over
              /\ input' = g.q /\ recvr' = [pc |-> "check", area |-> g.area]
              /\ UNCHANGED <<output, peer, errno, main, writer, file, ended>>
           \/ g.over /\ error_msg("overrun")
           \/ Allocates(Published(input, recvr.area), MinRead) /\ "malloc" \in QFaults /\ error_msg("segv")

CheckReader ==
    /\ Runs /\ recvr.pc = "check"
    /\ recvr' = [recvr EXCEPT !.pc = IF input.no_reader THEN "stop" ELSE "recv"]
    /\ UNCHANGED <<input, output, peer, errno, main, writer, file, ended>>

Received == \E n \in 1..recvr.area.size :
    /\ peer.got + n <= peer.sent
    /\ input' = Fill(input, recvr.area, [i \in 1..n |-> peer.got + i])
    /\ peer' = [peer EXCEPT !.got = @ + n]
    /\ recvr' = [pc |-> "area", area |-> [recvr.area EXCEPT !.size = n]]
    /\ UNCHANGED <<output, errno, main, writer, file, ended>>

Interrupted ==
    /\ "intr" \in QFaults /\ errno' = "EINTR"
    /\ recvr' = [recvr EXCEPT !.pc = "check"]
    /\ UNCHANGED <<input, output, peer, main, writer, file, ended>>

\* The connection is lost, with what has not been received.
ReceiveFails ==
    /\ "recv" \in QFaults /\ errno' = "lost"
    /\ recvr' = [recvr EXCEPT !.pc = "stop"]
    /\ UNCHANGED <<input, output, peer, main, writer, file, ended>>

\* recv returns 0 at the end and leaves errno as it was, yet errno is asked.
EndOfTrace ==
    /\ peer.closed /\ peer.got = peer.sent
    /\ recvr' = [recvr EXCEPT !.pc = IF errno = "EINTR" THEN "check" ELSE "stop"]
    /\ UNCHANGED <<input, output, peer, errno, main, writer, file, ended>>

Recv == Runs /\ recvr.pc = "recv" /\ (Received \/ Interrupted \/ ReceiveFails \/ EndOfTrace)

StopReceiving ==
    /\ Runs /\ recvr.pc = "stop"
    /\ input' = disconnect_queue_writer(input) /\ recvr' = [recvr EXCEPT !.pc = "done"]
    /\ UNCHANGED <<output, peer, errno, main, writer, file, ended>>

input_thread_func == NextInputArea \/ CheckReader \/ Recv \/ StopReceiving

-----------------------------------------------------------------------------
(* The thread that writes (output_thread_func). *)

NextOutputArea ==
    /\ Runs /\ writer.pc = "area" /\ ~output.waits
    /\ \E g \in {get_next_read_area(output)} :
           /\ output' = IF g.waits \/ g.area.size > 0 THEN g.q ELSE disconnect_queue_reader(g.q)
           /\ writer' = [pc |-> IF g.waits THEN "area" ELSE IF g.area.size > 0 THEN "write" ELSE "done",
                         area |-> g.area]
    /\ UNCHANGED <<input, peer, errno, recvr, main, file, ended>>

Write ==
    /\ Runs /\ writer.pc = "write"
    /\ \/ /\ file' = file \o DataOf(output, writer.area)
          /\ writer' = [pc |-> "area", area |-> NoArea]
          /\ UNCHANGED <<input, output, peer, errno, recvr, main, ended>>
       \/ "write" \in QFaults /\ error_msg("write")

output_thread_func == NextOutputArea \/ Write

-----------------------------------------------------------------------------
(* The main thread.  A print takes an area, fills it and publishes it; lines *)
(* counts what was printed. *)

\* print_string, print_main_header, print_info, print_main_footer
BeginPrint(size) ==
    \E g \in {get_next_write_area(output, NoArea, size)} :
        \/ /\ ~g.over
           /\ output' = g.q /\ main' = [main EXCEPT !.out = [g.area EXCEPT !.size = size]]
           /\ UNCHANGED <<input, peer, errno, recvr, writer, file, ended>>
        \/ g.over /\ error_msg("overrun")
        \/ Allocates(output, size) /\ "malloc" \in QFaults /\ error_msg("segv")

EndPrint(then) ==
    LET units == [i \in 1..main.out.size |-> main.lines + i]
    IN  /\ output' = wrote_area(Fill(output, main.out, units), main.out)
        /\ main' = [main EXCEPT !.out = NoArea, !.lines = @ + main.out.size, !.pc = then]
        /\ UNCHANGED <<input, peer, errno, recvr, writer, file, ended>>

Prints(size, then) == IF main.out.size = 0 THEN BeginPrint(size) ELSE EndPrint(then)

Goes(pc) ==
    /\ main' = [main EXCEPT !.pc = pc]
    /\ UNCHANGED <<input, output, peer, errno, recvr, writer, file, ended>>

\* init_connection: the address is printed, a connection awaited and confirmed.
init_connection ==
    \/ main.pc = "address" /\ Prints(1, "accept")
    \/ main.pc = "accept" /\ peer.sent > 0 /\ Goes("connected")
    \/ main.pc = "accept" /\ "socket" \in QFaults /\ error_msg("connection")
    \/ main.pc = "connected" /\ Prints(1, "create")

CreateInput ==
    /\ main.pc = "create"
    /\ \/ /\ recvr' = [recvr EXCEPT !.pc = "area"] /\ main' = [main EXCEPT !.pc = "read"]
          /\ UNCHANGED <<input, output, peer, errno, writer, file, ended>>
       \/ "thread" \in QFaults /\ error_msg("thread")

\* The next area of the trace, unless there is something left of the last one.
ReadTrace ==
    /\ main.pc = "read" /\ ~input.waits
    /\ IF main.area.size > 0 THEN Goes("parse")
       ELSE \E g \in {get_next_read_area(input)} :
                /\ input' = g.q
                /\ main' = [main EXCEPT !.area = g.area, !.res = IF g.waits \/ g.area.size > 0 THEN @ ELSE "truncated",
                            !.pc = IF g.waits THEN "read" ELSE IF g.area.size > 0 THEN "parse" ELSE "return"]
                /\ UNCHANGED <<output, peer, errno, recvr, writer, file, ended>>

\* One unit: of the header, after which the state is completed and a header
\* printed; or an operation, which prints; or the end.
Parse ==
    LET unit == Head(DataOf(input, main.area))
        next == [main EXCEPT !.area.at = @ + 1, !.area.size = @ - 1, !.seen = Append(@, unit)]
    IN  /\ main.pc = "parse"
        /\ \/ main' = [next EXCEPT !.pc = IF unit < HeaderUnits THEN "read" ELSE "print",
                                   !.res = IF unit = Trace THEN "stopped" ELSE @]
           \/ "bad" \in QFaults /\ main' = [main EXCEPT !.pc = "return", !.res = "bad"]
        /\ UNCHANGED <<input, output, peer, errno, recvr, writer, file, ended>>

PrintParsed ==
    main.pc = "print" /\ Prints(IF Len(main.seen) = HeaderUnits THEN BufSize + 1 ELSE 1,
                               IF main.res = "stopped" THEN "return" ELSE "read")

process_trace == ReadTrace \/ Parse \/ PrintParsed

\* The input thread is told, and waited for, which may be long.
Return ==
    \/ /\ main.pc = "return"
       /\ input' = disconnect_queue_reader(input) /\ main' = [main EXCEPT !.pc = "join"]
       /\ UNCHANGED <<output, peer, errno, recvr, writer, file, ended>>
    \/ main.pc = "join" /\ recvr.pc = "done" /\ Goes(IF main.res = "stopped" THEN "footer" ELSE "finish")

\* The average band width is computed by the time in milliseconds, which is 0 for
\* a trace that is stopped at once.
Footer ==
    /\ main.pc = "footer"
    /\ \/ Prints(2, "finish")
       \/ "quick" \in QFaults /\ error_msg("divided by zero")

Finish ==
    /\ main.pc = "finish"
    /\ output' = disconnect_queue_writer(output) /\ main' = [main EXCEPT !.pc = "last"]
    /\ UNCHANGED <<input, peer, errno, recvr, writer, file, ended>>

Exit ==
    /\ main.pc = "last" /\ writer.pc = "done"
    /\ error_msg(main.res)

MainThread == Runs /\ (init_connection \/ CreateInput \/ process_trace \/ Return \/ Footer \/ Finish \/ Exit)

\* The emulator sends the trace and closes the connection, at its end or before.
Emulator ==
    /\ Runs /\ ~peer.closed
    /\ \/ peer.sent < Trace /\ peer' = [peer EXCEPT !.sent = @ + 1]
       \/ peer.sent > 0 /\ peer' = [peer EXCEPT !.closed = TRUE]
    /\ UNCHANGED <<input, output, errno, recvr, main, writer, file, ended>>

QInit ==
    /\ input = init_queue /\ output = init_queue
    /\ peer = [sent |-> 0, got |-> 0, closed |-> FALSE] /\ errno = NULL
    /\ recvr = [pc |-> "none", area |-> NoArea]
    /\ main = [pc |-> "address", area |-> NoArea, out |-> NoArea, lines |-> 0, seen |-> <<>>, res |-> NULL]
    /\ writer = [pc |-> "area", area |-> NoArea]
    /\ file = <<>> /\ ended = NULL

QNext == input_thread_func \/ output_thread_func \/ MainThread \/ Emulator

\* When the threads can go on: their actions are enabled.
CanReceive ==
    Runs /\ (recvr.pc \in {"area", "check", "stop"}
             \/ (recvr.pc = "recv" /\ ({"intr", "recv"} \cap QFaults # {} \/ peer.got < peer.sent \/ peer.closed)))
CanWrite == Runs /\ (writer.pc = "write" \/ (writer.pc = "area" /\ ~output.waits))
CanProcess ==
    Runs /\ CASE main.pc = "accept" -> peer.sent > 0 \/ "socket" \in QFaults
              [] main.pc = "read" -> ~input.waits
              [] main.pc = "join" -> recvr.pc = "done"
              [] main.pc = "last" -> writer.pc = "done"
              [] OTHER -> TRUE
CanSend == Runs /\ ~peer.closed

\* The threads run, and the emulator does not keep the connection for ever; nor is
\* every call of recv that has something to receive interrupted by a signal.
QFairness ==
    /\ <>[]~(Runs /\ recvr.pc = "recv" /\ peer.got < peer.sent) \/ []<><<Recv /\ ~Interrupted>>_qvars
    /\ []<>~CanReceive \/ []<><<input_thread_func>>_qvars
    /\ []<>~CanWrite \/ []<><<output_thread_func>>_qvars
    /\ []<>~CanProcess \/ []<><<MainThread>>_qvars
    /\ []<>~CanSend \/ []<><<Emulator>>_qvars

QSpec == QInit /\ [][QNext]_qvars /\ QFairness

-----------------------------------------------------------------------------
(* Properties. *)

\* Behind a buffer that is dropped there is data to read, or one to be written.
OneToDrop(q) == Len(q.bufs) > 1 => ~IsRead(q.bufs[2])

QTypeOK ==
    /\ \A q \in {input, output} :
          /\ q.used = {q.bufs[i].id : i \in DOMAIN q.bufs}
          /\ \A i \in DOMAIN q.bufs : q.bufs[i].data <= q.bufs[i].data_end /\ q.bufs[i].data_end <= q.bufs[i].end
    /\ \A q \in {input, output} : OneToDrop(q)
    /\ recvr.pc \in {"none", "area", "check", "recv", "stop", "done"}
    /\ peer.got <= peer.sent /\ peer.sent <= Trace

Counted(n) == [i \in 1..n |-> i]

\* What passes through a queue arrives as it was put in: nothing is lost, doubled
\* or overwritten although areas are used without the mutex and the two buffers of
\* a queue are used again and again (get_next_write_area, get_next_read_area).
InOrder ==
    /\ main.seen = Counted(Len(main.seen))
    /\ file = Counted(Len(file))

\* A program that comes to its end has written all that was printed, and one that
\* has seen the end of the trace has digested all of it, or all that has come when
\* the connection was lost (main, input_thread_func).
AllWritten ==
    ended \in {"stopped", "truncated", "bad"} =>
        /\ file = Counted(main.lines)
        /\ ended = "stopped" => Len(main.seen) = Trace
        /\ ended = "truncated" =>
              /\ Len(main.seen) = peer.got
              /\ errno = "lost" \/ (peer.closed /\ peer.got = peer.sent)

\* The writer and a reader never use the same place: what a reader holds has been
\* published, and is not reused before the reader comes back (dequeue, enqueue).
AreasApart ==
    /\ recvr.pc \in {"check", "recv"} /\ main.area.size > 0 /\ recvr.area.id = main.area.id =>
          main.area.at + main.area.size <= recvr.area.at
    /\ main.out.size > 0 /\ writer.pc = "write" /\ main.out.id = writer.area.id =>
          writer.area.at + writer.area.size <= main.out.at

\* "If the emem program cannot process data as fast as it arrives, it is supposed
\* to crash when hitting the maximum buffersize": no queue grows beyond it.
QueuesBounded == Runs => input.tot <= MaxBuf /\ output.tot <= MaxBuf

\* The queues hand over everything, once and in order, within their bounds, to
\* threads that work on their areas without the mutex (get_next_write_area,
\* get_next_read_area).
QueuesSound == QTypeOK /\ InOrder /\ AllWritten /\ AreasApart /\ QueuesBounded

\* Once it has started, the program ends; unless a receive has been interrupted and the trace is then
\* cut off, when it asks for more for ever (input_thread_func).
EmemEnds == main.pc = "accept" ~> (~Runs \/ (errno = "EINTR" /\ peer.closed /\ peer.sent < Trace))
=============================================================================
