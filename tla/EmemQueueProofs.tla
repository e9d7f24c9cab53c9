--------------------------- MODULE EmemQueueProofs ---------------------------
(***************************************************************************)
(* The queues between the threads of emem, for traces, buffers and limits  *)
(* of any size: everything that is put into a queue comes out of it once   *)
(* and in order, although the areas are used without the mutex.            *)
(***************************************************************************)
EXTENDS EmemQueue, FiniteSetTheorems, SequenceTheorems, TLAPS

-----------------------------------------------------------------------------
(* The invariant of a queue.                                               *)

QFields == {"bufs", "used", "mem", "tot", "no_writer", "no_reader", "waits"}

Buffer == [id : Nat \ {0}, write : BOOLEAN, data : Nat, data_end : Nat, end : Nat]

Area == [id : Nat \cup {NULL}, at : Nat, size : Nat]

\* The buffers of a queue have memory of their own; only the last one gets data, and
\* it and the first one may be empty.
BuffersOk(q) ==
    /\ DOMAIN q = QFields /\ q.bufs \in Seq(Buffer) /\ q.tot \in Int
    /\ q.used = {q.bufs[i].id : i \in DOMAIN q.bufs} /\ IsFiniteSet(q.used)
    /\ \A i, j \in 1..Len(q.bufs) : q.bufs[i].id = q.bufs[j].id => i = j
    /\ \A i \in 1..Len(q.bufs) :
         /\ q.bufs[i].data <= q.bufs[i].data_end /\ q.bufs[i].data_end <= q.bufs[i].end
         /\ BufSize <= q.bufs[i].end
         /\ q.bufs[i].write <=> i = Len(q.bufs)
         /\ i < Len(q.bufs) => q.bufs[i].data_end > 0
         /\ i > 1 => q.bufs[i].data = 0

MemoryOk(q) ==
    /\ {1, 2} \subseteq DOMAIN q.mem /\ q.used \subseteq DOMAIN q.mem
    /\ DOMAIN q.mem[1] = 1..BufSize /\ DOMAIN q.mem[2] = 1..BufSize
    /\ \A i \in 1..Len(q.bufs) : DOMAIN q.mem[q.bufs[i].id] = 1..q.bufs[i].end

\* The i-th buffer holds what follows the first base[i] units.
Contents(q, base) ==
    \A i \in 1..Len(q.bufs) : \A k \in q.bufs[i].data + 1..q.bufs[i].data_end :
        q.mem[q.bufs[i].id][k] = base[i] + k

\* Of the units that were put into the queue so many have been taken.
Positions(q, base, taken, put) ==
    /\ \A i \in 2..Len(q.bufs) : base[i] = base[i - 1] + q.bufs[i - 1].data_end
    /\ q.bufs = <<>> => taken = put
    /\ q.bufs # <<>> => /\ taken = base[1] + q.bufs[1].data
                        /\ put = base[Len(q.bufs)] + q.bufs[Len(q.bufs)].data_end

Holds(q, taken, put) ==
    /\ BuffersOk(q) /\ MemoryOk(q) /\ taken \in Nat /\ put \in Nat
    /\ \E base \in Seq(Int) :
         Len(base) = Len(q.bufs) /\ Contents(q, base) /\ Positions(q, base, taken, put)

\* The reader's area is what it was handed of the first buffer: the units after the
\* first n.
Reading(q, r, n) ==
    /\ r \in Area
    /\ r.size > 0 => /\ q.bufs # <<>> /\ r.id = q.bufs[1].id
                     /\ r.at + r.size = q.bufs[1].data
                     /\ \A i \in 1..r.size : q.mem[r.id][r.at + i] = n + i

\* The writer's area is at the end of what was published of the last one.
Writing(q, w) ==
    /\ w \in Area
    /\ w.size > 0 => /\ q.bufs # <<>> /\ w.id = q.bufs[Len(q.bufs)].id
                     /\ w.at = q.bufs[Len(q.bufs)].data_end
                     /\ w.at + w.size <= q.bufs[Len(q.bufs)].end

QueueInv(q, r, n, w, put) ==
    n \in Nat /\ Holds(q, n + r.size, put) /\ Reading(q, r, n) /\ Writing(q, w)

\* The writer has put the next units into its area.
Filled(q, w, put) == \A i \in 1..w.size : q.mem[w.id][w.at + i] = put + i

-----------------------------------------------------------------------------
(* The invariant of the threads.                                           *)

PutIn == IF recvr.pc = "area" THEN peer.got - recvr.area.size ELSE peer.got

Receiving ==
    /\ QueueInv(input, main.area, Len(main.seen), recvr.area, PutIn)
    /\ input.tot <= MaxBuf
    /\ recvr.pc = "area" => Filled(input, recvr.area, PutIn)
    /\ recvr.pc \in {"check", "recv"} => recvr.area.size > 0
    /\ recvr.pc = "none" => recvr.area.size = 0
    /\ recvr.area.size = 0 => input.bufs = <<>>
    /\ main.pc = "parse" => main.area.size > 0

Printing ==
    /\ QueueInv(output, writer.area, Len(file), main.out, main.lines)
    /\ output.tot <= MaxBuf
    /\ writer.pc = "write" <=> writer.area.size > 0
    /\ main.out.size = 0 /\ output.bufs # <<>> => output.bufs[Len(output.bufs)].data_end > 0
    /\ main.out.size > 0 => main.pc \in {"address", "connected", "print", "footer"}

MainPc == {"address", "accept", "connected", "create", "read", "parse", "print", "return",
           "join", "footer", "finish", "last"}

Types ==
    /\ DOMAIN recvr = {"pc", "area"} /\ recvr.pc \in {"none", "area", "check", "recv", "stop", "done"}
    /\ recvr.pc = "none" <=> main.pc \in {"address", "accept", "connected", "create"}
    /\ DOMAIN writer = {"pc", "area"} /\ writer.pc \in {"area", "write", "done"}
    /\ DOMAIN main = {"pc", "area", "out", "lines", "seen", "res"} /\ main.pc \in MainPc
    /\ DOMAIN peer = {"sent", "got", "closed"}
    /\ peer.sent \in Nat /\ peer.got \in Nat /\ peer.closed \in BOOLEAN
    /\ peer.got <= peer.sent /\ peer.sent <= Trace
    /\ main.seen \in Seq(Nat) /\ file \in Seq(Nat) /\ main.lines \in Nat
    /\ InOrder

\* Who has told whom that it has gone, and what is known of the end.
Endings ==
    /\ input.no_reader <=> main.pc \in {"join", "footer", "finish", "last"}
    /\ input.no_writer <=> recvr.pc = "done"
    /\ recvr.pc \in {"stop", "done"} /\ ~input.no_reader =>
         errno = "lost" \/ (peer.closed /\ peer.got = peer.sent)
    /\ errno = "lost" => recvr.pc \in {"stop", "done"}
    /\ main.res = "stopped" =>
         /\ main.pc \in {"print", "return", "join", "footer", "finish", "last"}
         /\ Len(main.seen) = Trace
    /\ main.res = "truncated" =>
         /\ main.pc \in {"return", "join", "finish", "last"}
         /\ Len(main.seen) = peer.got /\ (errno = "lost" \/ (peer.closed /\ peer.got = peer.sent))
    /\ output.no_writer <=> main.pc = "last"
    /\ writer.pc = "done" => output.no_writer /\ Len(file) = main.lines
    /\ ended \in {"stopped", "truncated", "bad"} =>
         main.pc = "last" /\ writer.pc = "done" /\ ended = main.res

EInv == Types /\ Receiving /\ Printing /\ Endings

-----------------------------------------------------------------------------
(* Buffers.                                                                *)

\* The buffers of a queue, and their fields.
LEMMA BufferFacts ==
    ASSUME NEW q, BuffersOk(q)
    PROVE  /\ Len(q.bufs) \in Nat /\ DOMAIN q.bufs = 1..Len(q.bufs)
           /\ q.bufs = <<>> <=> Len(q.bufs) = 0
           /\ \A i \in 1..Len(q.bufs) :
                /\ q.bufs[i] \in Buffer
                /\ q.bufs[i].id \in Nat \ {0} /\ q.bufs[i].write \in BOOLEAN
                /\ q.bufs[i].data \in Nat /\ q.bufs[i].data_end \in Nat /\ q.bufs[i].end \in Nat
<1>1. q.bufs \in Seq(Buffer)
  BY DEF BuffersOk
<1>2. Len(q.bufs) \in Nat /\ DOMAIN q.bufs = 1..Len(q.bufs)
  BY <1>1, LenProperties
<1>3. q.bufs = <<>> <=> Len(q.bufs) = 0
  BY <1>1, EmptySeq
<1>4. \A i \in 1..Len(q.bufs) : q.bufs[i] \in Buffer
  BY <1>1, <1>2, ElementOfSeq
<1> QED
  BY <1>2, <1>3, <1>4 DEF Buffer

\* What is said of the buffers of a queue depends on its buffers and its memory.
LEMMA SameBuffers ==
    ASSUME NEW q, NEW p, BuffersOk(q), DOMAIN p = QFields, p.bufs = q.bufs, p.used = q.used, p.tot \in Int
    PROVE  BuffersOk(p)
<1>1. /\ p.bufs \in Seq(Buffer) /\ IsFiniteSet(p.used)
      /\ p.used = {p.bufs[i].id : i \in DOMAIN p.bufs}
  BY Zenon DEF BuffersOk
<1>2. \A i, j \in 1..Len(p.bufs) : p.bufs[i].id = p.bufs[j].id => i = j
  BY Zenon DEF BuffersOk
<1>3. \A i \in 1..Len(p.bufs) :
        /\ p.bufs[i].data <= p.bufs[i].data_end /\ p.bufs[i].data_end <= p.bufs[i].end
        /\ BufSize <= p.bufs[i].end
        /\ p.bufs[i].write <=> i = Len(p.bufs)
        /\ i < Len(p.bufs) => p.bufs[i].data_end > 0
        /\ i > 1 => p.bufs[i].data = 0
  BY Zenon DEF BuffersOk
<1> QED
  BY <1>1, <1>2, <1>3, Zenon DEF BuffersOk

\* So is what the buffers hold.
LEMMA SameContents ==
    ASSUME NEW q, NEW p, NEW base, Contents(q, base), p.bufs = q.bufs, p.mem = q.mem
    PROVE  Contents(p, base)
BY Zenon DEF Contents

\* So are the positions of the buffers in the trace.
LEMMA SamePositions ==
    ASSUME NEW q, NEW p, NEW base, NEW taken, NEW put, Positions(q, base, taken, put), p.bufs = q.bufs
    PROVE  Positions(p, base, taken, put)
BY Zenon DEF Positions

\* Each buffer of a queue has its memory.
LEMMA InMemory ==
    ASSUME NEW q, BuffersOk(q), MemoryOk(q), NEW i \in 1..Len(q.bufs)
    PROVE  q.bufs[i].id \in DOMAIN q.mem
<1>1. i \in DOMAIN q.bufs
  BY BufferFacts
<1>2. q.bufs[i].id \in q.used
  BY <1>1, Zenon DEF BuffersOk
<1> QED
  BY <1>2, Zenon DEF MemoryOk

\* The numbers of the buffers are what matters of them to the set of numbers.
LEMMA SameIds ==
    ASSUME NEW q, NEW bufs, BuffersOk(q), DOMAIN bufs = 1..Len(q.bufs),
           \A i \in 1..Len(q.bufs) : bufs[i].id = q.bufs[i].id
    PROVE  q.used = {bufs[i].id : i \in DOMAIN bufs}
<1>1. q.used = {q.bufs[i].id : i \in 1..Len(q.bufs)}
  <2>1. q.used = {q.bufs[i].id : i \in DOMAIN q.bufs}
    BY DEF BuffersOk
  <2>2. DOMAIN q.bufs = 1..Len(q.bufs)
    BY BufferFacts
  <2> QED
    BY <2>1, <2>2, Zenon
<1>2. {bufs[i].id : i \in 1..Len(q.bufs)} = {q.bufs[i].id : i \in 1..Len(q.bufs)}
  BY Zenon
<1> QED
  BY <1>1, <1>2, Zenon

-----------------------------------------------------------------------------
(* Publishing.                                                             *)

\* What has been written is published: it is behind what was put in before, and
\* the reader's area is not touched.
LEMMA WroteHolds ==
    ASSUME QueueConstants, NEW q, NEW r, NEW n, NEW w, NEW put, QueueInv(q, r, n, w, put),
           w.size > 0, Filled(q, w, put)
    PROVE  LET p == wrote_area(q, w)
           IN  /\ Holds(p, n + r.size, put + w.size) /\ Reading(p, r, n)
               /\ p.bufs # <<>> /\ p.bufs[Len(p.bufs)].data_end > 0
               /\ p.tot = q.tot /\ p.no_writer = q.no_writer /\ p.no_reader = q.no_reader
               /\ p.mem = q.mem
<1> DEFINE p == wrote_area(q, w)
           m == Len(q.bufs)
           b == [q.bufs[m] EXCEPT !.data_end = w.at + w.size]
<1>1. /\ BuffersOk(q) /\ MemoryOk(q) /\ n \in Nat /\ w \in Area /\ r \in Area
      /\ n + r.size \in Nat /\ put \in Nat
  BY DEF QueueInv, Holds, Reading, Writing
<1>2. /\ w.at \in Nat /\ w.size \in Nat /\ r.at \in Nat /\ r.size \in Nat
  BY <1>1 DEF Area
<1>3. /\ q.bufs # <<>> /\ w.id = q.bufs[m].id /\ w.at = q.bufs[m].data_end
      /\ w.at + w.size <= q.bufs[m].end
  BY DEF QueueInv, Writing
<1>4. m \in Nat \ {0} /\ m \in 1..m
  BY <1>1, <1>3, BufferFacts
<1>5. q.bufs[m] \in Buffer
  BY <1>1, <1>4, BufferFacts
<1>6. /\ b \in Buffer /\ b.id = q.bufs[m].id /\ b.write = q.bufs[m].write
      /\ b.data = q.bufs[m].data /\ b.data_end = w.at + w.size /\ b.end = q.bufs[m].end
  <2> DEFINE e == w.at + w.size
  <2>1. e \in Nat
    BY <1>2
  <2> HIDE DEF e
  <2>2. [q.bufs[m] EXCEPT !.data_end = e] \in Buffer
    BY <1>5, <2>1 DEF Buffer
  <2>3. /\ [q.bufs[m] EXCEPT !.data_end = e].id = q.bufs[m].id
        /\ [q.bufs[m] EXCEPT !.data_end = e].write = q.bufs[m].write
        /\ [q.bufs[m] EXCEPT !.data_end = e].data = q.bufs[m].data
        /\ [q.bufs[m] EXCEPT !.data_end = e].data_end = e
        /\ [q.bufs[m] EXCEPT !.data_end = e].end = q.bufs[m].end
    BY <1>5 DEF Buffer
  <2> QED
    BY <2>2, <2>3 DEF e
<1>7. /\ DOMAIN p = QFields /\ p.bufs = [q.bufs EXCEPT ![m] = b] /\ p.used = q.used
      /\ p.mem = q.mem /\ p.tot = q.tot
      /\ p.no_writer = q.no_writer /\ p.no_reader = q.no_reader
  BY <1>1 DEF BuffersOk, QFields, wrote_area, cond_signal
<1>8. /\ p.bufs \in Seq(Buffer) /\ Len(p.bufs) = m
      /\ \A i \in 1..m : p.bufs[i] = IF i = m THEN b ELSE q.bufs[i]
  <2> HIDE DEF b, p
  <2> QED
    BY <1>1, <1>4, <1>6, <1>7, ExceptSeq DEF BuffersOk
<1> HIDE DEF b, p
<1>9. /\ DOMAIN p.bufs = DOMAIN q.bufs /\ DOMAIN p.bufs = 1..m
      /\ \A i \in 1..m : p.bufs[i].id = q.bufs[i].id
  BY <1>1, <1>6, <1>7, <1>8, BufferFacts, LenProperties
<1>10. BuffersOk(p)
  <2>1. p.used = {p.bufs[i].id : i \in DOMAIN p.bufs}
    <3>1. DOMAIN p.bufs = 1..m /\ p.used = q.used /\ \A i \in 1..m : p.bufs[i].id = q.bufs[i].id
      BY <1>7, <1>9
    <3> QED
      BY <1>1, <3>1, SameIds, Zenon
  <2>2. \A i \in 1..m :
          /\ p.bufs[i].data <= p.bufs[i].data_end /\ p.bufs[i].data_end <= p.bufs[i].end
          /\ BufSize <= p.bufs[i].end
          /\ p.bufs[i].write <=> i = m
          /\ i < m => p.bufs[i].data_end > 0
          /\ i > 1 => p.bufs[i].data = 0
    <3> SUFFICES ASSUME NEW i \in 1..m
                 PROVE  /\ p.bufs[i].data <= p.bufs[i].data_end /\ p.bufs[i].data_end <= p.bufs[i].end
                        /\ BufSize <= p.bufs[i].end
                        /\ p.bufs[i].write <=> i = m
                        /\ i < m => p.bufs[i].data_end > 0
                        /\ i > 1 => p.bufs[i].data = 0
      OBVIOUS
    <3>1. /\ q.bufs[i].data <= q.bufs[i].data_end /\ q.bufs[i].data_end <= q.bufs[i].end
          /\ BufSize <= q.bufs[i].end
          /\ q.bufs[i].write <=> i = m
          /\ i < m => q.bufs[i].data_end > 0
          /\ i > 1 => q.bufs[i].data = 0
      BY <1>1 DEF BuffersOk
    <3>2. CASE i = m
      <4>1. p.bufs[i] = b /\ q.bufs[i].data \in Nat
        BY <1>1, <1>8, <3>2, BufferFacts
      <4> QED
        BY <1>2, <1>3, <1>6, <3>1, <3>2, <4>1
    <3>3. CASE i # m
      BY <1>8, <3>1, <3>3
    <3> QED
      BY <3>2, <3>3
  <2> QED
    BY <1>1, <1>7, <1>8, <1>9, <2>1, <2>2, SMTT(60) DEF BuffersOk
<1>11. MemoryOk(p)
  <2>1. \A i \in 1..m : p.bufs[i].end = q.bufs[i].end
    BY <1>6, <1>8
  <2> QED
    BY <1>1, <1>7, <1>8, <1>9, <2>1 DEF MemoryOk
<1>12. Holds(p, n + r.size, put + w.size)
  <2>1. PICK base \in Seq(Int) : /\ Len(base) = m /\ Contents(q, base)
                                 /\ Positions(q, base, n + r.size, put)
    BY DEF QueueInv, Holds
  <2>2. \A i \in 1..m : base[i] \in Int
    BY <2>1, ElementOfSeq
  <2>3. put = base[m] + q.bufs[m].data_end
    BY <1>3, <2>1 DEF Positions
  <2>4. Contents(p, base)
    <3> SUFFICES ASSUME NEW i \in 1..m, NEW k \in p.bufs[i].data + 1..p.bufs[i].data_end
                 PROVE  q.mem[q.bufs[i].id][k] = base[i] + k
      BY <1>7, <1>8, <1>9, SMTT(60) DEF Contents
    <3>1. CASE i # m
      BY <1>8, <2>1, <3>1 DEF Contents
    <3>2. CASE i = m /\ k \in q.bufs[m].data + 1..q.bufs[m].data_end
      BY <2>1, <3>2 DEF Contents
    <3>3. CASE i = m /\ k \notin q.bufs[m].data + 1..q.bufs[m].data_end
      <4>1. k - w.at \in 1..w.size /\ k = w.at + (k - w.at) /\ k \in Int
        <5>1. p.bufs[m].data = q.bufs[m].data /\ p.bufs[m].data_end = w.at + w.size
          BY <1>4, <1>6, <1>8
        <5>2. k \in q.bufs[m].data + 1..w.at + w.size
          BY <3>3, <5>1
        <5>3. q.bufs[m].data \in Nat
          BY <1>1, <1>4, BufferFacts
        <5>4. k \notin q.bufs[m].data + 1..w.at
          BY <1>3, <3>3
        <5> QED
          BY <1>2, <5>2, <5>3, <5>4, SMTT(60)
      <4>2. q.mem[w.id][w.at + (k - w.at)] = put + (k - w.at)
        BY <4>1 DEF Filled
      <4> QED
        <5>1. base[m] \in Int /\ put = base[m] + w.at /\ put \in Nat
          BY <1>1, <1>3, <1>4, <2>2, <2>3
        <5>2. q.mem[q.bufs[i].id][k] = put + (k - w.at)
          BY <1>3, <3>3, <4>1, <4>2
        <5> QED
          BY <1>2, <3>3, <4>1, <5>1, <5>2, SMTT(60)
    <3> QED
      BY <3>1, <3>2, <3>3
  <2>5. Positions(p, base, n + r.size, put + w.size)
    <3>1. \A i \in 2..m : base[i] = base[i - 1] + p.bufs[i - 1].data_end
      <4> SUFFICES ASSUME NEW i \in 2..m PROVE base[i] = base[i - 1] + p.bufs[i - 1].data_end
        OBVIOUS
      <4>1. i - 1 \in 1..m /\ i - 1 # m
        BY <1>4
      <4>2. p.bufs[i - 1] = q.bufs[i - 1]
        BY <1>8, <4>1
      <4> QED
        BY <2>1, <4>2 DEF Positions
    <3>2. n + r.size = base[1] + p.bufs[1].data
      BY <1>3, <1>4, <1>6, <1>8, <2>1 DEF Positions
    <3>3. put + w.size = base[m] + p.bufs[m].data_end
      <4>1. p.bufs[m].data_end = w.at + w.size
        BY <1>4, <1>6, <1>8
      <4>2. put = base[m] + w.at /\ base[m] \in Int
        BY <1>3, <1>4, <2>2, <2>3
      <4> QED
        BY <1>2, <4>1, <4>2, SMTT(60)
    <3> QED
      BY <1>4, <1>8, <3>1, <3>2, <3>3 DEF Positions
  <2> QED
    <3>1. put + w.size \in Nat
      BY <1>1, <1>2
    <3> QED
      BY <1>1, <1>8, <1>10, <1>11, <2>1, <2>4, <2>5, <3>1 DEF Holds
<1>13. Reading(p, r, n)
  <2>1. Reading(q, r, n)
    BY DEF QueueInv
  <2>2. p.bufs # <<>> /\ p.bufs[1].id = q.bufs[1].id /\ p.bufs[1].data = q.bufs[1].data
    BY <1>4, <1>6, <1>8
  <2> QED
    BY <1>7, <2>1, <2>2 DEF Reading
<1>14. p.bufs # <<>> /\ p.bufs[m].data_end > 0
  BY <1>2, <1>4, <1>6, <1>8
<1> QED
  BY <1>7, <1>8, <1>12, <1>13, <1>14 DEF p

-----------------------------------------------------------------------------
(* A new buffer.                                                           *)

\* Some number behind those of the buffers within the queue is free.
LEMMA FreeId ==
    ASSUME NEW used \in SUBSET Nat, IsFiniteSet(used)
    PROVE  LET i == CHOOSE i \in 3..Cardinality(used) + 3 : i \notin used
           IN  i \in Nat \ {0, 1, 2} /\ i \notin used
<1> DEFINE S == 3..Cardinality(used) + 3
<1>1. Cardinality(used) \in Nat
  BY FS_CardinalityType
<1>2. IsFiniteSet(S) /\ Cardinality(S) = Cardinality(used) + 1
  <2> DEFINE c == Cardinality(used) + 3
  <2>1. c \in Nat /\ 3 <= c
    BY <1>1
  <2> HIDE DEF c
  <2>2. IsFiniteSet(3..c) /\ Cardinality(3..c) = c - 3 + 1
    BY <2>1, FS_Interval
  <2> QED
    BY <1>1, <2>2 DEF c
<1>3. ~(S \subseteq used)
  BY <1>1, <1>2, FS_Subset
<1>4. \E i \in S : i \notin used
  BY <1>3
<1> DEFINE i == CHOOSE i \in S : i \notin used
<1>5. i \in S /\ i \notin used
  BY <1>4
<1> QED
  BY <1>1, <1>5

\* What enqueue makes of the parts of a queue.
NewId(q, small) ==
    IF small /\ 1 \notin q.used THEN 1
    ELSE IF small /\ 2 \notin q.used THEN 2
    ELSE CHOOSE i \in 3..Cardinality(q.used) + 3 : i \notin q.used

Closed(s) == IF Len(s) = 0 THEN s ELSE [s EXCEPT ![Len(s)].write = FALSE]

\* A buffer gets a number that no other has.
LEMMA NewIdFacts ==
    ASSUME NEW q, BuffersOk(q), NEW small \in BOOLEAN
    PROVE  /\ NewId(q, small) \in Nat \ {0} /\ NewId(q, small) \notin q.used
           /\ NewId(q, small) <= 2 => small
<1>1. q.used \in SUBSET Nat /\ IsFiniteSet(q.used)
  <2>1. /\ q.used = {q.bufs[i].id : i \in 1..Len(q.bufs)}
        /\ \A i \in 1..Len(q.bufs) : q.bufs[i].id \in Nat
    BY BufferFacts DEF BuffersOk
  <2> QED
    BY <2>1 DEF BuffersOk
<1> DEFINE i == CHOOSE i \in 3..Cardinality(q.used) + 3 : i \notin q.used
<1>2. i \in Nat \ {0, 1, 2} /\ i \notin q.used
  BY <1>1, FreeId
<1> HIDE DEF i
<1>3. NewId(q, small) = IF small /\ 1 \notin q.used THEN 1
                        ELSE IF small /\ 2 \notin q.used THEN 2 ELSE i
  BY DEF NewId, i
<1> QED
  BY <1>2, <1>3

\* The last buffer gets no more data.
LEMMA ClosedFacts ==
    ASSUME NEW q, BuffersOk(q)
    PROVE  LET s == Closed(q.bufs)
           IN  /\ s \in Seq(Buffer) /\ Len(s) = Len(q.bufs)
               /\ \A i \in 1..Len(s) :
                    /\ s[i].id = q.bufs[i].id /\ s[i].data = q.bufs[i].data
                    /\ s[i].data_end = q.bufs[i].data_end /\ s[i].end = q.bufs[i].end
                    /\ s[i].write = FALSE
<1> DEFINE m == Len(q.bufs)
           b == [q.bufs[m] EXCEPT !.write = FALSE]
<1>1. q.bufs \in Seq(Buffer) /\ m \in Nat /\ \A i \in 1..m : q.bufs[i].write <=> i = m
  BY BufferFacts DEF BuffersOk
<1>2. CASE m = 0
  BY <1>1, <1>2 DEF Closed
<1>3. CASE m # 0
  <2>1. m \in 1..m
    BY <1>1, <1>3
  <2>2. q.bufs[m] \in Buffer
    BY <2>1, BufferFacts
  <2>3. /\ b \in Buffer /\ b.id = q.bufs[m].id /\ b.write = FALSE
        /\ b.data = q.bufs[m].data /\ b.data_end = q.bufs[m].data_end /\ b.end = q.bufs[m].end
    BY <2>2 DEF Buffer
  <2>4. Closed(q.bufs) = [q.bufs EXCEPT ![m] = b]
    BY <1>3 DEF Closed
  <2> HIDE DEF b
  <2>5. /\ Closed(q.bufs) \in Seq(Buffer) /\ Len(Closed(q.bufs)) = m
        /\ \A i \in 1..m : Closed(q.bufs)[i] = IF i = m THEN b ELSE q.bufs[i]
    BY <1>1, <2>1, <2>3, <2>4, ExceptSeq
  <2>6. \A i \in 1..m : q.bufs[i] \in Buffer
    BY BufferFacts
  <2>7. \A i \in 1..m : i # m => q.bufs[i].write = FALSE
    BY <1>1, <2>6 DEF Buffer
  <2> QED
    BY <2>3, <2>5, <2>7
<1> QED
  BY <1>2, <1>3

\* A queue with one more buffer: what it holds stays where it was, and the new
\* buffer has room.
LEMMA EnqueueHolds ==
    ASSUME QueueConstants, NEW q, NEW taken, NEW put, Holds(q, taken, put),
           NEW size \in Nat \ {0}, q.bufs # <<>> => q.bufs[Len(q.bufs)].data_end > 0
    PROVE  LET p == enqueue(q, size)
           IN  /\ Holds(p, taken, put) /\ p.bufs # <<>>
               /\ p.bufs[Len(p.bufs)].data_end = 0 /\ size <= p.bufs[Len(p.bufs)].end
               /\ q.bufs # <<>> => p.bufs[1].id = q.bufs[1].id /\ p.bufs[1].data = q.bufs[1].data
               /\ \A i \in q.used : p.mem[i] = q.mem[i]
               /\ p.no_writer = q.no_writer /\ p.no_reader = q.no_reader
<1> DEFINE p == enqueue(q, size)
           m == Len(q.bufs)
           small == size <= BufSize
           end == IF small THEN BufSize ELSE size
           id == NewId(q, small)
           b == reset_buffer(id, end)
           s == Closed(q.bufs)
<1>1. /\ BuffersOk(q) /\ MemoryOk(q) /\ taken \in Nat /\ put \in Nat
      /\ m \in Nat /\ (q.bufs = <<>> <=> m = 0) /\ BufSize \in Nat \ {0}
  BY BufferFacts DEF Holds, QueueConstants
<1>2. /\ id \in Nat \ {0} /\ id \notin q.used /\ (id <= 2 => small)
  <2>1. small \in BOOLEAN
    OBVIOUS
  <2> HIDE DEF small
  <2> QED
    BY <1>1, <2>1, NewIdFacts
<1>3. end \in Nat /\ BufSize <= end /\ size <= end /\ (small => end = BufSize)
  BY <1>1
<1>4. /\ DOMAIN p = QFields /\ p.bufs = Append(s, b) /\ p.used = q.used \cup {id}
      /\ p.tot = q.tot + end /\ p.no_writer = q.no_writer /\ p.no_reader = q.no_reader
      /\ p.mem = IF id <= 2 THEN q.mem
                 ELSE [i \in DOMAIN q.mem \cup {id} |->
                          IF i = id THEN [k \in 1..end |-> 0] ELSE q.mem[i]]
  BY <1>1 DEF BuffersOk, QFields, enqueue, NewId, Closed
<1>5. b \in Buffer /\ b.id = id /\ b.write /\ b.data = 0 /\ b.data_end = 0 /\ b.end = end
  BY <1>2, <1>3 DEF reset_buffer, Buffer
<1>6. /\ s \in Seq(Buffer) /\ Len(s) = m
      /\ \A i \in 1..m : /\ s[i].id = q.bufs[i].id /\ s[i].data = q.bufs[i].data
                         /\ s[i].data_end = q.bufs[i].data_end /\ s[i].end = q.bufs[i].end
                         /\ s[i].write = FALSE
  BY <1>1, ClosedFacts
<1> HIDE DEF p, s, b, id, end, small
<1>7. /\ p.bufs \in Seq(Buffer) /\ Len(p.bufs) = m + 1 /\ p.bufs # <<>>
      /\ p.bufs[m + 1] = b /\ \A i \in 1..m : p.bufs[i] = s[i]
  <2>1. s \in Seq(Buffer) /\ b \in Buffer /\ Len(s) = m /\ p.bufs = Append(s, b)
    BY <1>4, <1>5, <1>6
  <2>2. /\ Append(s, b) \in Seq(Buffer) /\ Append(s, b) # <<>> /\ Len(Append(s, b)) = Len(s) + 1
        /\ Append(s, b)[Len(s) + 1] = b /\ \A i \in 1..Len(s) : Append(s, b)[i] = s[i]
    BY <2>1, AppendProperties
  <2> QED
    BY <2>1, <2>2
<1>8. DOMAIN p.bufs = 1..m + 1 /\ \A i \in 1..m + 1 : i \in 1..m \/ i = m + 1
  BY <1>1, <1>7, LenProperties
<1>9. \A i \in 1..m : q.bufs[i].id \in q.used
  BY <1>1, BufferFacts DEF BuffersOk
<1>10. BuffersOk(p)
  <2>1. p.used = {p.bufs[i].id : i \in DOMAIN p.bufs}
    <3>1. q.used = {q.bufs[i].id : i \in 1..m}
      BY <1>1, BufferFacts DEF BuffersOk
    <3>2. {p.bufs[i].id : i \in DOMAIN p.bufs} = {p.bufs[i].id : i \in 1..m} \cup {p.bufs[m + 1].id}
      <4>1. DOMAIN p.bufs = 1..m \cup {m + 1}
        BY <1>1, <1>8
      <4> QED
        BY <4>1, Zenon
    <3>3. {p.bufs[i].id : i \in 1..m} = {q.bufs[i].id : i \in 1..m}
      <4>1. \A i \in 1..m : p.bufs[i].id = q.bufs[i].id
        BY <1>6, <1>7
      <4> QED
        BY <4>1, Zenon
    <3> QED
      BY <1>4, <1>5, <1>7, <3>1, <3>2, <3>3
  <2>2. IsFiniteSet(p.used)
    <3>1. IsFiniteSet(q.used)
      BY <1>1 DEF BuffersOk
    <3> QED
      BY <1>4, <3>1, FS_AddElement
  <2>3. \A i, j \in 1..m + 1 : p.bufs[i].id = p.bufs[j].id => i = j
    <3>1. \A i, j \in 1..m : p.bufs[i].id = p.bufs[j].id => i = j
      <4>1. \A i, j \in 1..m : q.bufs[i].id = q.bufs[j].id => i = j
        BY <1>1 DEF BuffersOk
      <4>2. \A i \in 1..m : p.bufs[i].id = q.bufs[i].id
        BY <1>6, <1>7
      <4> QED
        BY <4>1, <4>2
    <3>2. \A i \in 1..m : p.bufs[i].id # p.bufs[m + 1].id
      BY <1>2, <1>5, <1>6, <1>7, <1>9
    <3> QED
      BY <1>8, <3>1, <3>2
  <2>4. \A i \in 1..m + 1 :
          /\ p.bufs[i].data <= p.bufs[i].data_end /\ p.bufs[i].data_end <= p.bufs[i].end
          /\ BufSize <= p.bufs[i].end
          /\ p.bufs[i].write <=> i = m + 1
          /\ i < m + 1 => p.bufs[i].data_end > 0
          /\ i > 1 => p.bufs[i].data = 0
    <3>1. CASE m = 0
      BY <1>1, <1>3, <1>5, <1>7, <1>8, <3>1
    <3>2. ASSUME NEW i \in 1..m
          PROVE  /\ p.bufs[i].data <= p.bufs[i].data_end /\ p.bufs[i].data_end <= p.bufs[i].end
                 /\ BufSize <= p.bufs[i].end
                 /\ p.bufs[i].write <=> i = m + 1
                 /\ i < m + 1 => p.bufs[i].data_end > 0
                 /\ i > 1 => p.bufs[i].data = 0
      <4>1. p.bufs[i] = s[i] /\ i < m + 1
        BY <1>1, <1>7
      <4>2. /\ q.bufs[i].data <= q.bufs[i].data_end /\ q.bufs[i].data_end <= q.bufs[i].end
            /\ BufSize <= q.bufs[i].end
            /\ i < m => q.bufs[i].data_end > 0
            /\ i > 1 => q.bufs[i].data = 0
        BY <1>1 DEF BuffersOk
      <4>3. i = m => q.bufs[i].data_end > 0
        BY <1>1
      <4> QED
        BY <1>1, <1>6, <4>1, <4>2, <4>3
    <3>3. p.bufs[m + 1] = b
      BY <1>7
    <3> QED
      BY <1>1, <1>3, <1>5, <1>8, <3>2, <3>3, SMTT(60)
  <2>5. p.tot \in Int
    BY <1>1, <1>3, <1>4 DEF BuffersOk
  <2> QED
    BY <1>4, <1>7, <2>1, <2>2, <2>3, <2>4, <2>5 DEF BuffersOk
<1>11. \A i \in DOMAIN q.mem : i # id => i \in DOMAIN p.mem /\ p.mem[i] = q.mem[i]
  BY <1>4
<1>12. /\ id \in DOMAIN p.mem /\ DOMAIN p.mem[id] = 1..end
       /\ {1, 2} \subseteq DOMAIN p.mem
       /\ DOMAIN p.mem[1] = 1..BufSize /\ DOMAIN p.mem[2] = 1..BufSize
  <2>1. CASE id <= 2
    <3>1. id \in {1, 2}
      BY <1>2, <2>1
    <3> QED
      BY <1>1, <1>2, <1>3, <1>4, <2>1, <3>1 DEF MemoryOk
  <2>2. CASE ~(id <= 2)
    <3>1. p.mem = [i \in DOMAIN q.mem \cup {id} |->
                     IF i = id THEN [k \in 1..end |-> 0] ELSE q.mem[i]]
      BY <1>4, <2>2
    <3>2. id # 1 /\ id # 2
      BY <1>2, <2>2
    <3> QED
      BY <1>1, <3>1, <3>2 DEF MemoryOk
  <2> QED
    BY <2>1, <2>2
<1>13. \A i \in q.used : i \in DOMAIN q.mem /\ i # id
  BY <1>1, <1>2 DEF MemoryOk
<1>14. MemoryOk(p)
  <2>1. \A i \in 1..m : DOMAIN p.mem[p.bufs[i].id] = 1..p.bufs[i].end
    <3> SUFFICES ASSUME NEW i \in 1..m PROVE DOMAIN p.mem[p.bufs[i].id] = 1..p.bufs[i].end
      OBVIOUS
    <3>1. p.bufs[i].id = q.bufs[i].id /\ p.bufs[i].end = q.bufs[i].end
      BY <1>6, <1>7
    <3>2. p.mem[q.bufs[i].id] = q.mem[q.bufs[i].id]
      BY <1>9, <1>11, <1>13
    <3>3. DOMAIN q.mem[q.bufs[i].id] = 1..q.bufs[i].end
      BY <1>1 DEF MemoryOk
    <3> QED
      BY <3>1, <3>2, <3>3
  <2>2. DOMAIN p.mem[p.bufs[m + 1].id] = 1..p.bufs[m + 1].end
    BY <1>5, <1>7, <1>12
  <2>3. p.used \subseteq DOMAIN p.mem
    BY <1>4, <1>11, <1>12, <1>13
  <2> QED
    BY <1>7, <1>8, <1>12, <2>1, <2>2, <2>3 DEF MemoryOk
<1>15. Holds(p, taken, put)
  <2>1. PICK base \in Seq(Int) : /\ Len(base) = m /\ Contents(q, base)
                                 /\ Positions(q, base, taken, put)
    BY DEF Holds
  <2> DEFINE c == Append(base, put)
  <2>2. /\ c \in Seq(Int) /\ Len(c) = m + 1 /\ c[m + 1] = put
        /\ \A i \in 1..m : c[i] = base[i]
    <3>1. put \in Int
      BY <1>1
    <3> QED
      BY <2>1, <3>1, AppendProperties
  <2> HIDE DEF c
  <2>3. Contents(p, c)
    <3>1. ASSUME NEW i \in 1..m, NEW k \in p.bufs[i].data + 1..p.bufs[i].data_end
          PROVE  p.mem[p.bufs[i].id][k] = c[i] + k
      <4>1. p.mem[p.bufs[i].id] = q.mem[q.bufs[i].id] /\ c[i] = base[i]
        <5>1. p.bufs[i].id = q.bufs[i].id /\ q.bufs[i].id \in q.used
          BY <1>6, <1>7, <1>9
        <5>2. p.mem[q.bufs[i].id] = q.mem[q.bufs[i].id]
          BY <1>11, <1>13, <5>1
        <5> QED
          BY <2>2, <5>1, <5>2
      <4>2. k \in q.bufs[i].data + 1..q.bufs[i].data_end
        BY <1>6, <1>7, <3>1
      <4> QED
        BY <2>1, <4>1, <4>2 DEF Contents
    <3>2. ASSUME NEW k \in p.bufs[m + 1].data + 1..p.bufs[m + 1].data_end PROVE FALSE
      BY <1>5, <1>7, <3>2
    <3> QED
      BY <1>7, <1>8, <3>1, <3>2 DEF Contents
  <2>4. Positions(p, c, taken, put)
    <3>1. ASSUME NEW i \in 2..m + 1 PROVE c[i] = c[i - 1] + p.bufs[i - 1].data_end
      <4>1. i - 1 \in 1..m /\ p.bufs[i - 1].data_end = q.bufs[i - 1].data_end /\ c[i - 1] = base[i - 1]
        <5>1. i - 1 \in 1..m
          BY <1>1, <3>1
        <5> QED
          BY <1>6, <1>7, <2>2, <5>1
      <4>2. CASE i \in 2..m
        <5>1. base[i] = base[i - 1] + q.bufs[i - 1].data_end
          BY <2>1, <4>2 DEF Positions
        <5>2. i \in 1..m
          BY <1>1, <4>2
        <5> QED
          BY <2>2, <4>1, <5>1, <5>2
      <4>3. CASE i = m + 1
        <5>1. m # 0 /\ i - 1 = m
          BY <1>1, <4>1, <4>3
        <5>2. put = base[m] + q.bufs[m].data_end
          BY <1>1, <2>1, <5>1 DEF Positions
        <5> QED
          BY <2>2, <4>1, <4>3, <5>1, <5>2
      <4> QED
        BY <1>1, <4>2, <4>3
    <3>2. taken = c[1] + p.bufs[1].data
      <4>1. CASE m = 0
        <5>1. taken = put /\ c[1] = put /\ p.bufs[1].data = 0
          BY <1>1, <1>5, <1>7, <2>1, <2>2, <4>1 DEF Positions
        <5> QED
          BY <1>1, <5>1
      <4>2. CASE m # 0
        <5>1. 1 \in 1..m
          BY <1>1, <4>2
        <5> QED
          BY <1>1, <1>6, <1>7, <2>1, <2>2, <4>2, <5>1, SMTT(60) DEF Positions
      <4> QED
        BY <4>1, <4>2
    <3>3. put = c[m + 1] + p.bufs[m + 1].data_end
      BY <1>1, <1>5, <1>7, <2>2
    <3> QED
      BY <1>7, <3>1, <3>2, <3>3 DEF Positions
  <2> QED
    BY <1>1, <1>7, <1>10, <1>14, <2>2, <2>3, <2>4 DEF Holds
<1>16. q.bufs # <<>> => p.bufs[1].id = q.bufs[1].id /\ p.bufs[1].data = q.bufs[1].data
  BY <1>1, <1>6, <1>7
<1>17. p.bufs[m + 1].data_end = 0 /\ size <= p.bufs[m + 1].end
  BY <1>3, <1>5, <1>7
<1>18. \A i \in q.used : p.mem[i] = q.mem[i]
  BY <1>11, <1>13
<1> QED
  BY <1>4, <1>7, <1>15, <1>16, <1>17, <1>18 DEF p

-----------------------------------------------------------------------------
(* The next area for the writer.                                           *)

\* What get_next_write_area leaves: all that was written is published, the area it
\* hands out is at the end of it and has the size that was asked for, and the
\* reader's area is not touched.
LEMMA NextWriteArea ==
    ASSUME QueueConstants, NEW q, NEW r, NEW n, NEW w, NEW put, QueueInv(q, r, n, w, put),
           Filled(q, w, put), NEW size \in Nat \ {0},
           q.bufs = <<>> \/ w.size > 0 \/ q.bufs[Len(q.bufs)].data_end > 0
    PROVE  LET g == get_next_write_area(q, w, size)
           IN  /\ QueueInv(g.q, r, n, g.area, put + w.size)
               /\ g.area.size >= size /\ g.q.bufs # <<>>
               /\ g.over = (g.q.tot > MaxBuf)
               /\ g.q.no_writer = q.no_writer /\ g.q.no_reader = q.no_reader
<1> DEFINE p == Published(q, w)
           t == Roomy(p, size)
           g == get_next_write_area(q, w, size)
<1>1. n \in Nat /\ Holds(q, n + r.size, put) /\ Reading(q, r, n) /\ w \in Area /\ put \in Nat
  BY DEF QueueInv, Holds, Writing
<1>2. w.size \in Nat
  BY <1>1 DEF Area
<1>3. /\ Holds(p, n + r.size, put + w.size) /\ Reading(p, r, n)
      /\ p.bufs # <<>> => p.bufs[Len(p.bufs)].data_end > 0
      /\ p.no_writer = q.no_writer /\ p.no_reader = q.no_reader
  <2>1. CASE w.size > 0
    <3>1. p = wrote_area(q, w)
      BY <2>1 DEF Published
    <3> HIDE DEF p
    <3> QED
      BY <2>1, <3>1, WroteHolds
  <2>2. CASE ~(w.size > 0)
    <3>1. p = q /\ put + w.size = put
      BY <1>1, <1>2, <2>2 DEF Published
    <3> HIDE DEF p
    <3>2. q.bufs # <<>> => q.bufs[Len(q.bufs)].data_end > 0
      BY <2>2
    <3> QED
      BY <1>1, <3>1, <3>2
  <2> QED
    BY <2>1, <2>2
<1> HIDE DEF p
<1>4. /\ Holds(t, n + r.size, put + w.size) /\ Reading(t, r, n) /\ t.bufs # <<>>
      /\ t.bufs[Len(t.bufs)].end - t.bufs[Len(t.bufs)].data_end >= size
      /\ t.no_writer = q.no_writer /\ t.no_reader = q.no_reader
  <2>1. CASE HasRoom(p, size)
    <3>1. t = p
      BY <2>1 DEF Roomy
    <3> HIDE DEF t
    <3> QED
      BY <1>3, <2>1, <3>1 DEF HasRoom, Last
  <2>2. CASE ~HasRoom(p, size)
    <3>1. t = enqueue(p, size)
      BY <2>2 DEF Roomy
    <3> HIDE DEF t
    <3>2. /\ Holds(t, n + r.size, put + w.size) /\ t.bufs # <<>>
          /\ t.bufs[Len(t.bufs)].data_end = 0 /\ size <= t.bufs[Len(t.bufs)].end
          /\ p.bufs # <<>> => t.bufs[1].id = p.bufs[1].id /\ t.bufs[1].data = p.bufs[1].data
          /\ \A i \in p.used : t.mem[i] = p.mem[i]
          /\ t.no_writer = p.no_writer /\ t.no_reader = p.no_reader
      BY <1>3, <3>1, EnqueueHolds
    <3>3. Reading(t, r, n)
      <4>1. Reading(p, r, n) /\ BuffersOk(p)
        BY <1>3 DEF Holds
      <4>2. p.bufs # <<>> => p.bufs[1].id \in p.used
        BY <4>1, BufferFacts DEF BuffersOk
      <4> QED
        BY <3>2, <4>1, <4>2 DEF Reading
    <3>4. t.bufs[Len(t.bufs)].end \in Nat
      <4>1. BuffersOk(t)
        BY <3>2 DEF Holds
      <4>2. Len(t.bufs) \in 1..Len(t.bufs)
        BY <3>2, <4>1, BufferFacts
      <4> QED
        BY <4>1, <4>2, BufferFacts
    <3> QED
      BY <1>3, <3>2, <3>3, <3>4
  <2> QED
    BY <2>1, <2>2
<1>5. g = HandedFromEnd(t)
  BY DEF get_next_write_area, p
<1> HIDE DEF t
<1> DEFINE b == t.bufs[Len(t.bufs)]
<1>6. /\ g.q = t /\ g.over = (t.tot > MaxBuf)
      /\ g.area = [id |-> b.id, at |-> b.data_end, size |-> b.end - b.data_end]
  BY <1>5 DEF HandedFromEnd, Handed, Last
<1> HIDE DEF g
<1>7. b.id \in Nat \ {0} /\ b.data_end \in Nat /\ b.end \in Nat
  <2>1. BuffersOk(t)
    BY <1>4 DEF Holds
  <2>2. Len(t.bufs) \in 1..Len(t.bufs)
    BY <1>4, <2>1, BufferFacts
  <2> QED
    BY <2>1, <2>2, BufferFacts
<1>8. Writing(t, g.area)
  <2>1. /\ b.end - b.data_end \in Nat /\ b.data_end + (b.end - b.data_end) <= b.end
    BY <1>4, <1>7
  <2>2. g.area \in Area
    BY <1>6, <1>7, <2>1 DEF Area
  <2> QED
    BY <1>4, <1>6, <2>1, <2>2 DEF Writing
<1> QED
  BY <1>1, <1>4, <1>6, <1>8 DEF QueueInv, g

-----------------------------------------------------------------------------
(* The next area for the reader.                                           *)

\* A buffer that is dropped was the only one, or has another behind it with data
\* to read or one to be written.
LEMMA DropHolds ==
    ASSUME QueueConstants, NEW q, NEW taken, NEW put, NEW w, Holds(q, taken, put), Writing(q, w)
    PROVE  LET p == DropRead(q)
           IN  /\ Holds(p, taken, put) /\ Writing(p, w) /\ p.mem = q.mem /\ p.tot <= q.tot
               /\ p.no_writer = q.no_writer /\ p.no_reader = q.no_reader
               /\ p.bufs # <<>> => /\ ~IsRead(p.bufs[1]) /\ q.bufs # <<>>
                                   /\ p.bufs[Len(p.bufs)] = q.bufs[Len(q.bufs)]
<1> DEFINE p == DropRead(q)
           m == Len(q.bufs)
           dropped == q.bufs # <<>> /\ IsRead(Head(q.bufs))
<1>1. /\ BuffersOk(q) /\ MemoryOk(q) /\ taken \in Nat /\ put \in Nat /\ w \in Area
      /\ m \in Nat /\ (q.bufs = <<>> <=> m = 0) /\ BufSize \in Nat \ {0}
  BY BufferFacts DEF Holds, Writing, QueueConstants
<1>2. q.tot \in Int /\ q.bufs \in Seq(Buffer)
  BY <1>1 DEF BuffersOk
<1>3. CASE ~dropped
  <2>1. p = q
    BY <1>3 DEF DropRead
  <2>2. q.bufs # <<>> => ~IsRead(q.bufs[1])
    <3>1. q.bufs # <<>> => Head(q.bufs) = q.bufs[1]
      BY <1>2, HeadTailProperties
    <3> QED
      BY <1>3, <3>1
  <2>3. q.tot <= q.tot
    BY <1>2
  <2> HIDE DEF p
  <2> QED
    BY <2>1, <2>2, <2>3 DEF p
<1>4. CASE dropped
  <2>1. p = dequeue(q)
    BY <1>4 DEF DropRead
  <2>2. Head(q.bufs) = q.bufs[1] /\ m # 0 /\ 1 \in 1..m
    <3>1. Head(q.bufs) = q.bufs[1]
      BY <1>2, <1>4, HeadTailProperties
    <3> QED
      BY <1>1, <1>4, <3>1
  <2> DEFINE b == q.bufs[1]
             s == Tail(q.bufs)
  <2>3. /\ DOMAIN p = QFields /\ p.bufs = s /\ p.tot = q.tot - b.end /\ p.used = q.used \ {b.id}
        /\ p.mem = q.mem /\ p.no_writer = q.no_writer /\ p.no_reader = q.no_reader
    BY <1>1, <2>1, <2>2 DEF BuffersOk, QFields, dequeue
  <2> HIDE DEF p
  <2>4. /\ b \in Buffer /\ b.data \in Nat /\ b.data_end \in Nat /\ b.end \in Nat
        /\ b.data = b.data_end /\ (~b.write \/ b.data = b.end)
        /\ b.write <=> m = 1
    <3>1. b \in Buffer /\ b.data \in Nat /\ b.data_end \in Nat /\ b.end \in Nat
      BY <1>1, <2>2, BufferFacts
    <3>2. b.data = b.data_end /\ (~b.write \/ b.data = b.end)
      BY <1>4, <2>2 DEF IsRead
    <3>3. b.write <=> m = 1
      BY <1>1, <2>2 DEF BuffersOk
    <3> QED
      BY <3>1, <3>2, <3>3
  <2>5. /\ s \in Seq(Buffer) /\ Len(s) = m - 1 /\ (s = <<>> <=> m = 1)
        /\ \A i \in 1..m - 1 : s[i] = q.bufs[i + 1]
    <3>1. s \in Seq(Buffer) /\ Len(s) = m - 1 /\ \A i \in 1..m - 1 : s[i] = q.bufs[i + 1]
      BY <1>2, <1>4, HeadTailProperties
    <3>2. s = <<>> <=> Len(s) = 0
      BY <3>1, EmptySeq
    <3> QED
      BY <1>1, <2>2, <3>1, <3>2
  <2>6. m \in Nat /\ m >= 1
    BY <1>1, <2>2
  <2>7. /\ m # 1 => /\ 1 \in 1..m - 1 /\ m - 1 \in 1..m - 1 /\ (m - 1) + 1 = m
                     /\ 2 \in 1..m /\ 2 \in 2..m
        /\ m <= 2 /\ m # 1 => m = 2
    <3> HIDE DEF m
    <3> QED
      BY <2>6
  <2> HIDE DEF b, s
  <2>8. \A i \in 1..m - 1 : i + 1 \in 1..m /\ i + 1 \in 2..m /\ i + 1 > 1
    BY <1>1
  <2>9. \A i, j \in 1..m : q.bufs[i].id = q.bufs[j].id => i = j
    BY <1>1 DEF BuffersOk
  <2>10. DOMAIN s = 1..m - 1
    BY <2>5, LenProperties
  <2>11. BuffersOk(p)
    <3>1. p.used = {p.bufs[i].id : i \in DOMAIN p.bufs}
      <4>1. q.used = {q.bufs[i].id : i \in 1..m}
        BY <1>1, BufferFacts DEF BuffersOk
      <4>2. \A i \in 1..m : i = 1 \/ i - 1 \in 1..m - 1
        BY <1>1
      <4>3. \A i \in 1..m - 1 : i + 1 # 1 /\ i + 1 \in 1..m /\ s[i] = q.bufs[i + 1]
        BY <1>1, <2>5
      <4>4. \A i \in 1..m - 1 : s[i].id \in q.used /\ s[i].id # b.id
        BY <2>2, <2>9, <4>1, <4>3 DEF b
      <4>5. ASSUME NEW x \in q.used, x # b.id PROVE \E i \in 1..m - 1 : x = s[i].id
        <5>1. PICK i \in 1..m : x = q.bufs[i].id
          BY <4>1, <4>5
        <5>2. i # 1
          BY <4>5, <5>1 DEF b
        <5>3. i - 1 \in 1..m - 1 /\ (i - 1) + 1 = i
          BY <4>2, <5>2
        <5>4. s[i - 1] = q.bufs[i]
          BY <2>5, <5>3
        <5> QED
          BY <5>1, <5>3, <5>4
      <4>6. {s[i].id : i \in 1..m - 1} = q.used \ {b.id}
        <5>1. \A x \in q.used \ {b.id} : \E i \in 1..m - 1 : x = s[i].id
          BY <4>5
        <5> QED
          BY <4>4, <5>1, SMTT(60)
      <4> QED
        BY <2>3, <2>10, <4>6
    <3>2. IsFiniteSet(p.used)
      <4>1. IsFiniteSet(q.used)
        BY <1>1 DEF BuffersOk
      <4> QED
        BY <2>3, <4>1, FS_RemoveElement
    <3>3. \A i, j \in 1..m - 1 : s[i].id = s[j].id => i = j
      <4> SUFFICES ASSUME NEW i \in 1..m - 1, NEW j \in 1..m - 1, s[i].id = s[j].id PROVE i = j
        OBVIOUS
      <4>1. i + 1 \in 1..m /\ j + 1 \in 1..m /\ s[i] = q.bufs[i + 1] /\ s[j] = q.bufs[j + 1]
        BY <2>5, <2>8
      <4>2. \A k, l \in 1..m : q.bufs[k].id = q.bufs[l].id => k = l
        BY <1>1 DEF BuffersOk
      <4>3. i + 1 = j + 1
        BY <4>1, <4>2, Zenon
      <4> QED
        BY <4>3
    <3>4. ASSUME NEW i \in 1..m - 1
          PROVE  /\ s[i].data <= s[i].data_end /\ s[i].data_end <= s[i].end
                 /\ BufSize <= s[i].end
                 /\ s[i].write <=> i = m - 1
                 /\ i < m - 1 => s[i].data_end > 0
                 /\ i > 1 => s[i].data = 0
      <4>1. i + 1 \in 1..m /\ s[i] = q.bufs[i + 1] /\ i + 1 > 1
        BY <2>5, <2>8
      <4>2. /\ q.bufs[i + 1].data <= q.bufs[i + 1].data_end
            /\ q.bufs[i + 1].data_end <= q.bufs[i + 1].end
            /\ BufSize <= q.bufs[i + 1].end
            /\ q.bufs[i + 1].write <=> i + 1 = m
            /\ i + 1 < m => q.bufs[i + 1].data_end > 0
            /\ i + 1 > 1 => q.bufs[i + 1].data = 0
        BY <1>1, <4>1 DEF BuffersOk
      <4>3. (i = m - 1 <=> i + 1 = m) /\ (i < m - 1 <=> i + 1 < m)
        BY <1>1
      <4> QED
        BY <4>1, <4>2, <4>3
    <3>5. p.tot \in Int
      BY <1>2, <2>3, <2>4
    <3>6. \A i \in 1..m - 1 :
            /\ s[i].data <= s[i].data_end /\ s[i].data_end <= s[i].end
            /\ BufSize <= s[i].end
            /\ s[i].write <=> i = m - 1
            /\ i < m - 1 => s[i].data_end > 0
            /\ i > 1 => s[i].data = 0
      BY <3>4
    <3>7. /\ p.bufs \in Seq(Buffer) /\ Len(p.bufs) = m - 1
          /\ \A i \in 1..m - 1 : p.bufs[i] = s[i]
      BY <2>3, <2>5
    <3> HIDE DEF m
    <3> QED
      BY <2>3, <3>1, <3>2, <3>3, <3>5, <3>6, <3>7 DEF BuffersOk
  <2>12. MemoryOk(p)
    <3>1. \A i \in 1..m - 1 : DOMAIN q.mem[s[i].id] = 1..s[i].end
      BY <1>1, <2>5, <2>8 DEF MemoryOk
    <3> QED
      BY <1>1, <2>3, <2>5, <3>1 DEF MemoryOk
  <2>13. Holds(p, taken, put)
    <3>1. PICK base \in Seq(Int) : /\ Len(base) = m /\ Contents(q, base)
                                   /\ Positions(q, base, taken, put)
      BY DEF Holds
    <3> DEFINE c == Tail(base)
    <3>2. c \in Seq(Int) /\ Len(c) = m - 1 /\ \A i \in 1..m - 1 : c[i] = base[i + 1]
      <4>1. base # <<>>
        BY <2>2, <3>1, EmptySeq
      <4> QED
        BY <3>1, <4>1, HeadTailProperties
    <3> HIDE DEF c
    <3>3. Contents(p, c)
      <4> SUFFICES ASSUME NEW i \in 1..m - 1, NEW k \in s[i].data + 1..s[i].data_end
                   PROVE  q.mem[s[i].id][k] = c[i] + k
        BY <2>3, <2>5 DEF Contents
      <4>1. i + 1 \in 1..m /\ s[i] = q.bufs[i + 1] /\ c[i] = base[i + 1]
        BY <2>5, <2>8, <3>2
      <4>2. k \in q.bufs[i + 1].data + 1..q.bufs[i + 1].data_end
        BY <4>1
      <4> QED
        BY <3>1, <4>1, <4>2, SMTT(60) DEF Contents
    <3>4. taken = base[1] + b.data_end /\ base[1] \in Int
      <4>1. base[1] \in Int
        BY <2>2, <3>1, ElementOfSeq
      <4> QED
        BY <1>1, <2>2, <2>4, <3>1, <4>1 DEF Positions, b
    <3>5. ASSUME NEW i \in 2..m - 1 PROVE c[i] = c[i - 1] + s[i - 1].data_end
      <4>1. i \in 1..m - 1 /\ i - 1 \in 1..m - 1 /\ (i - 1) + 1 = i /\ i + 1 \in 2..m /\ (i + 1) - 1 = i
        BY <1>1
      <4>2. base[i + 1] = base[i] + q.bufs[i].data_end
        BY <3>1, <4>1 DEF Positions
      <4>3. c[i] = base[i + 1] /\ c[i - 1] = base[i] /\ s[i - 1] = q.bufs[i]
        BY <2>5, <3>2, <4>1
      <4> QED
        BY <4>2, <4>3
    <3>6. CASE m = 1
      <4>1. p.bufs = <<>> /\ taken = put
        BY <2>2, <2>3, <2>5, <3>1, <3>4, <3>6 DEF Positions, b
      <4>2. Positions(p, c, taken, put)
        BY <2>3, <2>5, <3>5, <4>1 DEF Positions
      <4> QED
        BY <1>1, <2>3, <2>5, <2>11, <2>12, <3>2, <3>3, <4>2 DEF Holds
    <3>7. CASE m # 1
      <4>1. 1 \in 1..m - 1 /\ m - 1 \in 1..m - 1 /\ (m - 1) + 1 = m /\ 2 \in 2..m /\ 1 + 1 = 2 /\ 2 - 1 = 1
        BY <2>7, <3>7
      <4>2. c[1] = base[2] /\ base[2] = base[1] + b.data_end /\ s[1] = q.bufs[2] /\ s[1].data = 0
        <5>1. base[2] = base[1] + b.data_end
          BY <3>1, <4>1 DEF Positions, b
        <5>2. q.bufs[2].data = 0
          BY <1>1, <4>1 DEF BuffersOk
        <5> QED
          BY <2>5, <3>2, <4>1, <5>1, <5>2
      <4>3. taken = c[1] + s[1].data
        BY <1>1, <3>4, <4>2
      <4>4. put = c[m - 1] + s[m - 1].data_end
        BY <2>2, <2>5, <3>1, <3>2, <4>1, <1>4 DEF Positions
      <4>5. Positions(p, c, taken, put)
        BY <2>3, <2>5, <3>5, <3>7, <4>3, <4>4 DEF Positions
      <4> QED
        BY <1>1, <2>3, <2>5, <2>11, <2>12, <3>2, <3>3, <4>5 DEF Holds
    <3> QED
      BY <3>6, <3>7
  <2>14. m # 1 => s[m - 1] = q.bufs[m]
    <3>1. m # 1 => m - 1 \in 1..m - 1 /\ (m - 1) + 1 = m
      BY <2>7
    <3> QED
      BY <2>5, <3>1
  <2>15. Writing(p, w)
    <3>1. CASE m = 1
      <4>1. w.size > 0 => FALSE
        <5>1. b.data_end = b.end
          BY <2>4, <3>1
        <5>2. w.size > 0 => b.data_end + w.size <= b.end
          BY <1>1, <3>1 DEF Writing, b
        <5> QED
          BY <1>1, <2>4, <5>1, <5>2 DEF Area
      <4> QED
        BY <1>1, <4>1 DEF Writing
    <3>2. CASE m # 1
      BY <1>1, <2>3, <2>5, <2>14, <3>2 DEF Writing
    <3> QED
      BY <3>1, <3>2
  <2>16. p.bufs # <<>> => ~IsRead(p.bufs[1])
    <3> SUFFICES ASSUME m # 1, IsRead(s[1]) PROVE FALSE
      BY <2>3, <2>5
    <3>1. 1 \in 1..m - 1 /\ 1 + 1 = 2 /\ 2 \in 1..m /\ 2 > 1
      BY <2>7
    <3>2. s[1] = q.bufs[2]
      BY <2>5, <3>1
    <3>3. /\ s[1].data = 0 /\ BufSize <= s[1].end /\ (s[1].write <=> 2 = m)
          /\ 2 < m => s[1].data_end > 0
      BY <1>1, <3>1, <3>2, ZenonT(60) DEF BuffersOk
    <3>4. s[1].data = s[1].data_end /\ (~s[1].write \/ s[1].data = s[1].end)
      BY DEF IsRead
    <3>5. s[1].data_end \in Nat /\ s[1].end \in Nat /\ s[1].write \in BOOLEAN
      BY <1>1, <3>1, <3>2, BufferFacts
    <3>6. s[1].data_end = 0
      BY <3>3, <3>4
    <3>7. 2 = m
      <4>1. ~(2 < m)
        BY <3>3, <3>6
      <4>2. m <= 2
        BY <2>6, <4>1
      <4> QED
        BY <2>7, <4>2
    <3>8. s[1].end = 0
      BY <3>3, <3>4, <3>7
    <3> QED
      BY <1>1, <3>3, <3>8
  <2>17. p.tot <= q.tot
    BY <1>2, <2>3, <2>4
  <2>18. p.bufs # <<>> => p.bufs[Len(p.bufs)] = q.bufs[Len(q.bufs)]
    BY <2>3, <2>5, <2>14
  <2> QED
    BY <1>4, <2>3, <2>13, <2>15, <2>16, <2>17, <2>18 DEF p
<1> QED
  BY <1>3, <1>4

\* The reader gets the units that come next; when it gets nothing and does not
\* wait, the writer has gone and there are none.
LEMMA ReadAreaHolds ==
    ASSUME QueueConstants, NEW q, NEW r, NEW n, NEW w, NEW put, QueueInv(q, r, n, w, put), r.size = 0
    PROVE  LET g == get_next_read_area(q)
           IN  /\ QueueInv(g.q, g.area, n, w, put) /\ g.q.mem = q.mem /\ g.q.tot <= q.tot
               /\ g.q.no_writer = q.no_writer /\ g.q.no_reader = q.no_reader
               /\ g.waits => g.area.size = 0
               /\ g.area.size = 0 /\ ~g.waits => q.no_writer /\ n = put
               /\ g.q.bufs # <<>> =>
                    q.bufs # <<>> /\ g.q.bufs[Len(g.q.bufs)].data_end = q.bufs[Len(q.bufs)].data_end
<1> DEFINE p == DropRead(q)
           m == Len(p.bufs)
           g == get_next_read_area(q)
<1>1. n \in Nat /\ Holds(q, n, put) /\ Writing(q, w)
  <2>1. n \in Nat /\ n + r.size = n
    BY DEF QueueInv
  <2> QED
    BY <2>1 DEF QueueInv
<1>2. /\ Holds(p, n, put) /\ Writing(p, w) /\ p.mem = q.mem /\ p.tot <= q.tot
      /\ p.no_writer = q.no_writer /\ p.no_reader = q.no_reader
      /\ p.bufs # <<>> => /\ ~IsRead(p.bufs[1]) /\ q.bufs # <<>>
                          /\ p.bufs[Len(p.bufs)] = q.bufs[Len(q.bufs)]
  BY <1>1, DropHolds
<1>3. g = NextReadArea(p)
  BY DEF get_next_read_area
<1> HIDE DEF p
<1>4. /\ BuffersOk(p) /\ MemoryOk(p) /\ put \in Nat /\ m \in Nat /\ (p.bufs = <<>> <=> m = 0)
      /\ DOMAIN p = QFields
  BY <1>2, BufferFacts DEF Holds, BuffersOk
<1>5. p.bufs # <<>> => Head(p.bufs) = p.bufs[1] /\ 1 \in 1..m /\ m \in 1..m
  <2>1. p.bufs # <<>> => Head(p.bufs) = p.bufs[1]
    BY <1>4, HeadTailProperties DEF BuffersOk
  <2> QED
    BY <1>4, <2>1
<1>6. CASE ~Readable(p)
  <2>1. /\ g.q = [p EXCEPT !.waits = ~p.no_writer] /\ g.waits = ~p.no_writer /\ g.area = NoArea
    BY <1>3, <1>6 DEF NextReadArea
  <2> HIDE DEF g
  <2>2. /\ DOMAIN g.q = QFields /\ g.q.bufs = p.bufs /\ g.q.used = p.used /\ g.q.mem = p.mem
        /\ g.q.tot = p.tot /\ g.q.no_writer = p.no_writer /\ g.q.no_reader = p.no_reader
    BY <1>4, <2>1 DEF QFields
  <2>3. g.area \in Area /\ g.area.size = 0 /\ n + g.area.size = n
    BY <1>1, <2>1 DEF NoArea, Area
  <2>4. Holds(g.q, n, put) /\ Writing(g.q, w)
    <3>1. BuffersOk(g.q)
      BY <1>4, <2>2 DEF BuffersOk
    <3>2. MemoryOk(g.q)
      BY <1>4, <2>2 DEF MemoryOk
    <3>3. Writing(g.q, w)
      BY <1>2, <2>2 DEF Writing
    <3>4. PICK base \in Seq(Int) : Len(base) = m /\ Contents(p, base) /\ Positions(p, base, n, put)
      BY <1>2 DEF Holds
    <3>5. Contents(g.q, base)
      BY <2>2, <3>4 DEF Contents
    <3>6. Positions(g.q, base, n, put)
      BY <2>2, <3>4 DEF Positions
    <3> QED
      BY <1>1, <1>4, <2>2, <3>1, <3>2, <3>3, <3>4, <3>5, <3>6 DEF Holds
  <2>5. Reading(g.q, g.area, n)
    BY <2>3 DEF Reading
  <2>6. n = put
    <3>1. PICK base \in Seq(Int) : Len(base) = m /\ Positions(p, base, n, put)
      BY <1>2 DEF Holds
    <3>2. CASE p.bufs = <<>>
      BY <3>1, <3>2 DEF Positions
    <3>3. CASE p.bufs # <<>>
      <4>1. /\ p.bufs[1].data \in Nat /\ p.bufs[1].data_end \in Nat /\ p.bufs[1].write \in BOOLEAN
            /\ p.bufs[1].data <= p.bufs[1].data_end
            /\ p.bufs[1].write <=> 1 = m
        BY <1>4, <1>5, <3>3, BufferFacts DEF BuffersOk
      <4>2. p.bufs[1].data = p.bufs[1].data_end
        BY <1>5, <1>6, <3>3, <4>1 DEF Readable
      <4>3. m = 1
        BY <1>2, <3>3, <4>1, <4>2 DEF IsRead
      <4> QED
        BY <3>1, <3>3, <4>2, <4>3 DEF Positions
    <3> QED
      BY <3>2, <3>3
  <2> QED
    BY <1>1, <1>2, <2>1, <2>2, <2>3, <2>4, <2>5, <2>6 DEF QueueInv, g
<1>7. CASE Readable(p)
  <2> DEFINE b == p.bufs[1]
             c == [b EXCEPT !.data = b.data_end]
  <2>1. p.bufs # <<>> /\ Head(p.bufs) = b /\ 1 \in 1..m /\ m \in 1..m
    BY <1>5, <1>7 DEF Readable
  <2>2. b.data < b.data_end
    BY <1>7, <2>1 DEF Readable
  <2>3. g.q = [p EXCEPT !.bufs[1].data = b.data_end] /\ g.waits = FALSE /\ g.area = AreaOf(b)
    BY <1>3, <1>7, <2>1 DEF NextReadArea
  <2> HIDE DEF g
  <2>4. /\ DOMAIN g.q = QFields /\ g.q.bufs = [p.bufs EXCEPT ![1] = c] /\ g.q.used = p.used
        /\ g.q.mem = p.mem /\ g.q.tot = p.tot
        /\ g.q.no_writer = p.no_writer /\ g.q.no_reader = p.no_reader
    BY <1>4, <2>3 DEF QFields
  <2>5. /\ b \in Buffer /\ b.id \in Nat \ {0} /\ b.data \in Nat /\ b.data_end \in Nat /\ b.end \in Nat
        /\ b.write \in BOOLEAN
    BY <1>4, <2>1, BufferFacts
  <2>6. /\ c \in Buffer /\ c.id = b.id /\ c.write = b.write /\ c.data = b.data_end
        /\ c.data_end = b.data_end /\ c.end = b.end
    <3> DEFINE e == b.data_end
    <3>1. e \in Nat
      BY <2>5
    <3> HIDE DEF e
    <3>2. [b EXCEPT !.data = e] \in Buffer
      BY <2>5, <3>1 DEF Buffer
    <3>3. /\ [b EXCEPT !.data = e].id = b.id /\ [b EXCEPT !.data = e].write = b.write
          /\ [b EXCEPT !.data = e].data = e /\ [b EXCEPT !.data = e].data_end = b.data_end
          /\ [b EXCEPT !.data = e].end = b.end
      BY <2>5 DEF Buffer
    <3> QED
      BY <3>2, <3>3 DEF e
  <2> HIDE DEF c
  <2>7. /\ g.q.bufs \in Seq(Buffer) /\ Len(g.q.bufs) = m
        /\ \A i \in 1..m : g.q.bufs[i] = IF i = 1 THEN c ELSE p.bufs[i]
    BY <1>4, <2>1, <2>4, <2>6, ExceptSeq DEF BuffersOk
  <2>8. DOMAIN g.q.bufs = 1..m /\ DOMAIN p.bufs = 1..m /\ g.q.bufs # <<>>
    BY <1>4, <2>1, <2>7, LenProperties, EmptySeq, BufferFacts
  <2>9. \A i \in 1..m : /\ g.q.bufs[i].id = p.bufs[i].id /\ g.q.bufs[i].write = p.bufs[i].write
                        /\ g.q.bufs[i].data_end = p.bufs[i].data_end /\ g.q.bufs[i].end = p.bufs[i].end
                        /\ g.q.bufs[i].data = IF i = 1 THEN b.data_end ELSE p.bufs[i].data
    BY <2>6, <2>7
  <2>10. BuffersOk(g.q)
    <3>1. g.q.used = {g.q.bufs[i].id : i \in DOMAIN g.q.bufs} /\ IsFiniteSet(g.q.used)
      BY <1>4, <2>4, <2>8, <2>9, SMTT(60) DEF BuffersOk
    <3>2. \A i, j \in 1..m : g.q.bufs[i].id = g.q.bufs[j].id => i = j
      <4>1. \A i, j \in 1..m : p.bufs[i].id = p.bufs[j].id => i = j
        BY <1>4 DEF BuffersOk
      <4> QED
        BY <2>9, <4>1
    <3>3. \A i \in 1..m :
            /\ g.q.bufs[i].data <= g.q.bufs[i].data_end /\ g.q.bufs[i].data_end <= g.q.bufs[i].end
            /\ BufSize <= g.q.bufs[i].end
            /\ g.q.bufs[i].write <=> i = m
            /\ i < m => g.q.bufs[i].data_end > 0
            /\ i > 1 => g.q.bufs[i].data = 0
      <4> SUFFICES ASSUME NEW i \in 1..m
                   PROVE  /\ g.q.bufs[i].data <= g.q.bufs[i].data_end
                          /\ g.q.bufs[i].data_end <= g.q.bufs[i].end
                          /\ BufSize <= g.q.bufs[i].end
                          /\ g.q.bufs[i].write <=> i = m
                          /\ i < m => g.q.bufs[i].data_end > 0
                          /\ i > 1 => g.q.bufs[i].data = 0
        OBVIOUS
      <4>1. /\ p.bufs[i].data <= p.bufs[i].data_end /\ p.bufs[i].data_end <= p.bufs[i].end
            /\ BufSize <= p.bufs[i].end
            /\ p.bufs[i].write <=> i = m
            /\ i < m => p.bufs[i].data_end > 0
            /\ i > 1 => p.bufs[i].data = 0
        BY <1>4 DEF BuffersOk
      <4>2. /\ g.q.bufs[i].write = p.bufs[i].write
            /\ g.q.bufs[i].data_end = p.bufs[i].data_end /\ g.q.bufs[i].end = p.bufs[i].end
            /\ g.q.bufs[i].data = IF i = 1 THEN b.data_end ELSE p.bufs[i].data
        BY <2>9
      <4>3. p.bufs[i].data_end \in Nat
        BY <1>4, BufferFacts
      <4>4. CASE i = 1
        BY <4>1, <4>2, <4>3, <4>4
      <4>5. CASE i # 1
        BY <4>1, <4>2, <4>5
      <4> QED
        BY <4>4, <4>5
    <3>4. g.q.tot \in Int
      BY <1>4, <2>4 DEF BuffersOk
    <3> HIDE DEF m
    <3> QED
      BY <2>4, <2>7, <3>1, <3>2, <3>3, <3>4 DEF BuffersOk
  <2>11. MemoryOk(g.q)
    BY <1>4, <2>4, <2>7, <2>9 DEF MemoryOk
  <2>12. PICK base \in Seq(Int) : Len(base) = m /\ Contents(p, base) /\ Positions(p, base, n, put)
    BY <1>2 DEF Holds
  <2>13. n = base[1] + b.data /\ base[1] \in Int
    <3>1. base[1] \in Int
      BY <2>1, <2>12, ElementOfSeq
    <3> QED
      BY <2>1, <2>12, <3>1 DEF Positions
  <2> DEFINE size == b.data_end - b.data
  <2>14. size \in Nat /\ size > 0 /\ n + size \in Nat /\ n + size = base[1] + b.data_end
    <3>1. size \in Nat /\ size > 0 /\ b.data + size = b.data_end
      BY <2>2, <2>5, SMTT(60)
    <3> HIDE DEF size
    <3> QED
      BY <1>1, <2>5, <2>13, <3>1, SMTT(60)
  <2>15. g.area = [id |-> b.id, at |-> b.data, size |-> size]
    BY <2>3 DEF AreaOf
  <2>16. Holds(g.q, n + size, put)
    <3>1. Contents(g.q, base)
      <4>1. Len(g.q.bufs) = m /\ g.q.mem = p.mem /\ \A i \in 1..m : g.q.bufs[i].id = p.bufs[i].id
        BY <2>4, <2>7, <2>9
      <4> HIDE DEF m
      <4> SUFFICES ASSUME NEW i \in 1..Len(g.q.bufs),
                          NEW k \in g.q.bufs[i].data + 1..g.q.bufs[i].data_end
                   PROVE  g.q.mem[g.q.bufs[i].id][k] = base[i] + k
        BY Zenon DEF Contents
      <4> SUFFICES p.mem[p.bufs[i].id][k] = base[i] + k
        BY <4>1, Zenon
      <4>0. i \in 1..m
        BY <4>1, Zenon
      <4>2. CASE i = 1
        <5>1. k \in b.data_end + 1..b.data_end
          BY <2>9, <4>0, <4>2
        <5> QED
          BY <2>5, <5>1, SMTT(60)
      <4>3. CASE i # 1
        <5>1. k \in p.bufs[i].data + 1..p.bufs[i].data_end
          BY <2>9, <4>0, <4>3
        <5> QED
          BY <2>12, <4>0, <5>1 DEF Contents, m
      <4> QED
        BY <4>2, <4>3
    <3>2. ASSUME NEW i \in 2..m PROVE base[i] = base[i - 1] + g.q.bufs[i - 1].data_end
      <4>1. i - 1 \in 1..m
        BY <1>4
      <4>2. g.q.bufs[i - 1].data_end = p.bufs[i - 1].data_end
        BY <2>9, <4>1
      <4> QED
        BY <2>12, <4>2 DEF Positions
    <3>3. n + size = base[1] + g.q.bufs[1].data
      BY <2>1, <2>9, <2>14
    <3>4. put = base[m] + g.q.bufs[m].data_end
      BY <2>1, <2>9, <2>12 DEF Positions
    <3>5. Positions(g.q, base, n + size, put)
      BY <2>7, <2>8, <3>2, <3>3, <3>4 DEF Positions
    <3> QED
      BY <1>4, <2>7, <2>10, <2>11, <2>12, <2>14, <3>1, <3>5 DEF Holds
  <2>17. Reading(g.q, g.area, n)
    <3>1. g.area \in Area
      BY <2>5, <2>14, <2>15 DEF Area
    <3>2. g.q.bufs[1].id = b.id /\ g.q.bufs[1].data = b.data_end /\ b.data + size = b.data_end
      BY <2>1, <2>5, <2>9
    <3>3. ASSUME NEW i \in 1..size PROVE g.q.mem[b.id][b.data + i] = n + i
      <4>1. b.data + i \in b.data + 1..b.data_end
        BY <2>5, SMTT(60)
      <4>2. p.mem[b.id][b.data + i] = base[1] + (b.data + i)
        BY <2>1, <2>12, <4>1 DEF Contents
      <4> QED
        BY <2>4, <2>5, <2>13, <4>2, SMTT(60)
    <3>4. g.area.id = b.id /\ g.area.at = b.data /\ g.area.size = size
      BY <2>15
    <3> HIDE DEF size
    <3> QED
      BY <2>8, <3>1, <3>2, <3>3, <3>4, Zenon DEF Reading
  <2>18. Writing(g.q, w)
    <3>1. Writing(p, w) /\ Len(p.bufs) = m /\ Len(g.q.bufs) = m /\ m \in 1..m
      BY <1>2, <2>1, <2>7
    <3>2. /\ g.q.bufs[m].id = p.bufs[m].id /\ g.q.bufs[m].data_end = p.bufs[m].data_end
          /\ g.q.bufs[m].end = p.bufs[m].end
      BY <2>9, <3>1, Zenon
    <3> HIDE DEF m
    <3> QED
      BY <2>8, <3>1, <3>2, Zenon DEF Writing
  <2>19. g.q.bufs[m].data_end = p.bufs[m].data_end
    BY <2>1, <2>9
  <2>20. g.area.size = size /\ g.area.size # 0
    BY <2>14, <2>15
  <2> HIDE DEF size
  <2>21. QueueInv(g.q, g.area, n, w, put)
    BY <1>1, <2>16, <2>17, <2>18, <2>20 DEF QueueInv
  <2> QED
    BY <1>2, <2>1, <2>3, <2>4, <2>7, <2>19, <2>20, <2>21 DEF g
<1> QED
  BY <1>6, <1>7

-----------------------------------------------------------------------------
(* What the threads do with their areas, without the mutex.                *)

\* The writer fills its area: neither what was published nor what the reader holds
\* is touched.
LEMMA FillHolds ==
    ASSUME QueueConstants, NEW q, NEW r, NEW n, NEW w, NEW put, QueueInv(q, r, n, w, put),
           w.size > 0, NEW size \in 1..w.size,
           NEW units, DOMAIN units = 1..size, \A i \in 1..size : units[i] = put + i,
           NEW p, p = Fill(q, w, units)
    PROVE  /\ QueueInv(p, r, n, w, put) /\ \A i \in 1..size : p.mem[w.id][w.at + i] = put + i
           /\ p.bufs = q.bufs /\ p.tot = q.tot
           /\ p.no_writer = q.no_writer /\ p.no_reader = q.no_reader
<1> DEFINE m == Len(q.bufs)
           old == q.mem[w.id]
           new == [k \in DOMAIN old |-> IF k - w.at \in DOMAIN units THEN units[k - w.at] ELSE old[k]]
<1>1. /\ BuffersOk(q) /\ MemoryOk(q) /\ n \in Nat /\ w \in Area /\ r \in Area
      /\ Holds(q, n + r.size, put) /\ n + r.size \in Nat /\ put \in Nat /\ Reading(q, r, n)
      /\ Writing(q, w) /\ m \in Nat /\ (q.bufs = <<>> <=> m = 0)
  BY BufferFacts DEF QueueInv, Holds, Reading, Writing
<1>2. w.at \in Nat /\ w.size \in Nat /\ r.at \in Nat /\ r.size \in Nat
  BY <1>1 DEF Area
<1>3. /\ q.bufs # <<>> /\ w.id = q.bufs[m].id /\ w.at = q.bufs[m].data_end
      /\ w.at + w.size <= q.bufs[m].end /\ m \in 1..m /\ 1 \in 1..m
  BY <1>1 DEF Writing
<1>4. /\ DOMAIN old = 1..q.bufs[m].end /\ w.id \in DOMAIN q.mem
      /\ q.bufs[m].data \in Nat /\ q.bufs[m].data_end \in Nat /\ q.bufs[m].end \in Nat
  <2>1. w.id \in q.used
    BY <1>1, <1>3, BufferFacts DEF BuffersOk
  <2>2. q.bufs[m].data \in Nat /\ q.bufs[m].data_end \in Nat /\ q.bufs[m].end \in Nat
    BY <1>1, <1>3, BufferFacts
  <2> QED
    BY <1>1, <1>3, <2>1, <2>2 DEF MemoryOk
<1>5. /\ DOMAIN p = QFields /\ p.mem = [q.mem EXCEPT ![w.id] = new]
      /\ p.bufs = q.bufs /\ p.used = q.used /\ p.tot = q.tot
      /\ p.no_writer = q.no_writer /\ p.no_reader = q.no_reader
  BY <1>1 DEF BuffersOk, QFields, Fill
<1>6. /\ DOMAIN new = DOMAIN old
      /\ \A k \in DOMAIN old : new[k] = IF k - w.at \in DOMAIN units THEN units[k - w.at] ELSE old[k]
  OBVIOUS
<1> HIDE DEF new
<1>7. /\ DOMAIN p.mem = DOMAIN q.mem /\ p.mem[w.id] = new
      /\ \A i \in DOMAIN q.mem : i # w.id => p.mem[i] = q.mem[i]
  BY <1>4, <1>5
<1> HIDE DEF old
<1>8. \A k \in DOMAIN old : k <= w.at => new[k] = old[k]
  <2> SUFFICES ASSUME NEW k \in DOMAIN old, k <= w.at PROVE new[k] = old[k]
    OBVIOUS
  <2>1. k \in Int
    BY <1>4
  <2>2. k - w.at \notin 1..size
    BY <1>2, <2>1
  <2> QED
    BY <1>6, <2>2
<1>9. \A i \in 1..size : p.mem[w.id][w.at + i] = put + i
  <2> SUFFICES ASSUME NEW i \in 1..size PROVE new[w.at + i] = put + i
    BY <1>7
  <2>1. w.at + i \in 1..q.bufs[m].end /\ (w.at + i) - w.at = i
    <3>1. w.at \in Nat /\ w.size \in Nat /\ q.bufs[m].end \in Nat /\ w.at + w.size <= q.bufs[m].end
      BY <1>2, <1>3, <1>4
    <3> HIDE DEF m
    <3> QED
      BY <3>1, SMTT(60)
  <2> QED
    BY <1>4, <1>6, <2>1
<1>10. \A i \in 1..m : DOMAIN p.mem[q.bufs[i].id] = DOMAIN q.mem[q.bufs[i].id]
  <2> SUFFICES ASSUME NEW i \in 1..m PROVE DOMAIN p.mem[q.bufs[i].id] = DOMAIN q.mem[q.bufs[i].id]
    OBVIOUS
  <2>1. q.bufs[i].id \in DOMAIN q.mem
    BY <1>1, InMemory, Zenon
  <2> QED
    BY <1>6, <1>7, <2>1 DEF old
<1>11. BuffersOk(p)
  <2>1. p.tot \in Int
    BY <1>1, <1>5 DEF BuffersOk
  <2> QED
    BY <1>1, <1>5, <2>1, SameBuffers, Zenon
<1>12. MemoryOk(p)
  <2>1. {1, 2} \subseteq DOMAIN p.mem /\ p.used \subseteq DOMAIN p.mem
    BY <1>1, <1>5, <1>7 DEF MemoryOk
  <2>2. \A i \in {1, 2} : DOMAIN p.mem[i] = DOMAIN q.mem[i]
    BY <1>1, <1>6, <1>7 DEF MemoryOk, old
  <2>3. DOMAIN p.mem[1] = 1..BufSize /\ DOMAIN p.mem[2] = 1..BufSize
    BY <1>1, <2>2 DEF MemoryOk
  <2>4. \A i \in 1..m : DOMAIN p.mem[q.bufs[i].id] = 1..q.bufs[i].end
    BY <1>1, <1>10 DEF MemoryOk
  <2> QED
    BY <1>5, <2>1, <2>3, <2>4 DEF MemoryOk
<1>13. \A i \in 1..m : \A k \in 1..q.bufs[i].data_end : p.mem[q.bufs[i].id][k] = q.mem[q.bufs[i].id][k]
  <2> SUFFICES ASSUME NEW i \in 1..m, NEW k \in 1..q.bufs[i].data_end
               PROVE  p.mem[q.bufs[i].id][k] = q.mem[q.bufs[i].id][k]
    OBVIOUS
  <2>1. q.bufs[i].id \in DOMAIN q.mem
    BY <1>1, InMemory, Zenon
  <2>2. CASE q.bufs[i].id # w.id
    BY <1>7, <2>1, <2>2
  <2>3. CASE q.bufs[i].id = w.id
    <3>1. i = m
      BY <1>1, <1>3, <2>3 DEF BuffersOk
    <3>2. k \in DOMAIN old /\ k <= w.at
      BY <1>2, <1>3, <1>4, <3>1
    <3> QED
      BY <1>7, <1>8, <2>3, <3>2 DEF old
  <2> QED
    BY <2>2, <2>3
<1>14. Holds(p, n + r.size, put)
  <2>1. PICK base \in Seq(Int) : /\ Len(base) = m /\ Contents(q, base)
                                 /\ Positions(q, base, n + r.size, put)
    BY <1>1 DEF Holds
  <2>2. Contents(p, base)
    <3> SUFFICES ASSUME NEW i \in 1..m, NEW k \in q.bufs[i].data + 1..q.bufs[i].data_end
                 PROVE  p.mem[q.bufs[i].id][k] = base[i] + k
      BY <1>5, SMTT(60) DEF Contents
    <3>1. k \in 1..q.bufs[i].data_end
      <4>1. q.bufs[i].data \in Nat /\ q.bufs[i].data_end \in Nat
        BY <1>1, BufferFacts
      <4> QED
        BY <4>1
    <3> QED
      BY <1>13, <2>1, <3>1 DEF Contents
  <2>3. Positions(p, base, n + r.size, put)
    BY <1>5, <2>1, SamePositions, Zenon
  <2> QED
    BY <1>1, <1>5, <1>11, <1>12, <2>1, <2>2, <2>3 DEF Holds
<1>15. Reading(p, r, n)
  <2>1. ASSUME NEW i \in 1..r.size PROVE p.mem[r.id][r.at + i] = n + i
    <3>1. r.size > 0
      BY <1>2
    <3>2. r.id = q.bufs[1].id /\ r.at + r.size = q.bufs[1].data /\ q.mem[r.id][r.at + i] = n + i
      BY <1>1, <3>1 DEF Reading
    <3>3. q.bufs[1].data \in Nat /\ q.bufs[1].data_end \in Nat /\ q.bufs[1].data <= q.bufs[1].data_end
      BY <1>1, <1>3, BufferFacts DEF BuffersOk
    <3>4. r.at + i \in 1..q.bufs[1].data_end
      BY <1>2, <3>2, <3>3, SMTT(60)
    <3>5. p.mem[q.bufs[1].id][r.at + i] = q.mem[q.bufs[1].id][r.at + i]
      BY <1>3, <1>13, <3>4, Zenon
    <3> QED
      BY <3>2, <3>5
  <2> QED
    BY <1>1, <1>5, <2>1 DEF Reading
<1>16. Writing(p, w)
  BY <1>1, <1>5 DEF Writing
<1> QED
  BY <1>1, <1>5, <1>9, <1>14, <1>15, <1>16 DEF QueueInv

\* The reader has used some of its area.
LEMMA UsedHolds ==
    ASSUME NEW q, NEW r, NEW n, NEW w, NEW put, QueueInv(q, r, n, w, put), NEW k \in 0..r.size,
           NEW s \in Area, s.size = r.size - k, k < r.size => s.id = r.id /\ s.at = r.at + k
    PROVE  QueueInv(q, s, n + k, w, put)
<1>1. r \in Area /\ Reading(q, r, n) /\ n \in Nat /\ Holds(q, n + r.size, put) /\ Writing(q, w)
  BY DEF QueueInv, Reading
<1>2. r.at \in Nat /\ r.size \in Nat
  BY <1>1 DEF Area
<1>3. k \in Nat /\ n + k \in Nat /\ (n + k) + s.size = n + r.size
  BY <1>1, <1>2
<1>4. Reading(q, s, n + k)
  <2> SUFFICES ASSUME s.size > 0
               PROVE  /\ q.bufs # <<>> /\ s.id = q.bufs[1].id
                      /\ s.at + s.size = q.bufs[1].data
                      /\ \A i \in 1..s.size : q.mem[s.id][s.at + i] = n + k + i
    BY DEF Reading
  <2>1. r.size > 0 /\ s.id = r.id /\ s.at = r.at + k
    BY <1>2
  <2>2. /\ q.bufs # <<>> /\ r.id = q.bufs[1].id /\ r.at + r.size = q.bufs[1].data
        /\ \A i \in 1..r.size : q.mem[r.id][r.at + i] = n + i
    BY <1>1, <2>1 DEF Reading
  <2>3. ASSUME NEW i \in 1..s.size PROVE q.mem[s.id][s.at + i] = n + k + i
    <3>1. k + i \in 1..r.size /\ s.at + i = r.at + (k + i)
      BY <1>2, <1>3, <2>1
    <3>2. q.mem[r.id][r.at + (k + i)] = n + (k + i)
      BY <2>2, <3>1
    <3> QED
      BY <1>1, <1>3, <2>1, <3>1, <3>2
  <2> QED
    BY <1>2, <1>3, <2>1, <2>2, <2>3
<1> QED
  BY <1>1, <1>3, <1>4 DEF QueueInv

\* The writer uses only the start of its area.
LEMMA ShortenedHolds ==
    ASSUME NEW q, NEW r, NEW n, NEW w, NEW put, QueueInv(q, r, n, w, put), NEW k \in 0..w.size
    PROVE  QueueInv(q, r, n, [w EXCEPT !.size = k], put)
<1>1. w \in Area /\ Writing(q, w)
  BY DEF QueueInv, Writing
<1>2. w.size \in Nat /\ w.at \in Nat
  BY <1>1 DEF Area
<1> DEFINE v == [w EXCEPT !.size = k]
<1>3. v \in Area /\ v.id = w.id /\ v.at = w.at /\ v.size = k
  BY <1>1, <1>2 DEF Area
<1> HIDE DEF v
<1>4. Writing(q, v)
  <2> SUFFICES ASSUME k > 0
               PROVE  /\ q.bufs # <<>> /\ w.id = q.bufs[Len(q.bufs)].id
                      /\ w.at = q.bufs[Len(q.bufs)].data_end
                      /\ w.at + k <= q.bufs[Len(q.bufs)].end
    BY <1>3 DEF Writing
  <2>1. /\ q.bufs # <<>> /\ w.id = q.bufs[Len(q.bufs)].id
        /\ w.at = q.bufs[Len(q.bufs)].data_end
        /\ w.at + w.size <= q.bufs[Len(q.bufs)].end
    BY <1>1, <1>2 DEF Writing
  <2>2. q.bufs[Len(q.bufs)].end \in Nat
    <3>1. BuffersOk(q)
      BY DEF QueueInv, Holds
    <3>2. Len(q.bufs) \in 1..Len(q.bufs)
      BY <2>1, <3>1, BufferFacts
    <3> QED
      BY <3>1, <3>2, BufferFacts
  <2> QED
    BY <1>2, <2>1, <2>2
<1> QED
  BY <1>4 DEF QueueInv, v

\* One side has gone, or is told something: what the queue holds is the same.
LEMMA ToldHolds ==
    ASSUME NEW q, NEW p, NEW r, NEW n, NEW w, NEW put, QueueInv(q, r, n, w, put),
           DOMAIN p = DOMAIN q, p.bufs = q.bufs, p.used = q.used, p.mem = q.mem, p.tot = q.tot
    PROVE  QueueInv(p, r, n, w, put)
<1>1. BuffersOk(q) /\ MemoryOk(q)
  BY DEF QueueInv, Holds
<1>2. BuffersOk(p)
  <2>1. DOMAIN p = QFields /\ p.tot \in Int
    BY <1>1 DEF BuffersOk
  <2> QED
    BY <1>1, <2>1, SameBuffers, Zenon
<1>3. MemoryOk(p)
  BY <1>1 DEF MemoryOk
<1>4. Reading(p, r, n) /\ Writing(p, w)
  BY DEF QueueInv, Reading, Writing
<1>5. Holds(q, n + r.size, put) /\ n \in Nat
  BY DEF QueueInv
<1>6. PICK base \in Seq(Int) : /\ Len(base) = Len(q.bufs) /\ Contents(q, base)
                               /\ Positions(q, base, n + r.size, put)
  BY <1>5 DEF Holds
<1>7. Contents(p, base) /\ Positions(p, base, n + r.size, put)
  BY <1>6, SameContents, SamePositions, Zenon
<1> QED
  BY <1>2, <1>3, <1>4, <1>5, <1>6, <1>7 DEF QueueInv, Holds

-----------------------------------------------------------------------------
(* The steps of the threads.                                               *)

\* The program fails: nothing has happened to the queues.
LEMMA ErrorStep ==
    ASSUME QueueConstants, EInv, NEW how, how \notin {"stopped", "truncated", "bad"}, error_msg(how)
    PROVE  EInv'
<1> USE DEF error_msg
<1>1. Types'
  BY DEF EInv, Types, InOrder
<1>2. Receiving'
  BY DEF EInv, Receiving, PutIn
<1>3. Printing'
  BY DEF EInv, Printing
<1>4. Endings'
  BY DEF EInv, Endings
<1> QED
  BY <1>1, <1>2, <1>3, <1>4 DEF EInv

\* The input thread publishes what it has received and takes another area.
LEMMA InputAreaStep == QueueConstants /\ EInv /\ NextInputArea => EInv'
<1> SUFFICES ASSUME QueueConstants, EInv, NextInputArea PROVE EInv'
  OBVIOUS
<1> DEFINE g == get_next_write_area(input, recvr.area, MinRead)
<1>1. recvr.pc = "area" /\ Types /\ Receiving /\ Printing /\ Endings
  BY DEF NextInputArea, EInv
<1>2. CASE error_msg("overrun") \/ error_msg("segv")
  BY <1>2, ErrorStep
<1>3. CASE /\ ~g.over
           /\ input' = g.q /\ recvr' = [pc |-> "check", area |-> g.area]
           /\ UNCHANGED <<output, peer, errno, main, writer, file, ended>>
  <2>1. /\ QueueInv(input, main.area, Len(main.seen), recvr.area, PutIn)
        /\ Filled(input, recvr.area, PutIn) /\ PutIn = peer.got - recvr.area.size
        /\ input.bufs = <<>> \/ recvr.area.size > 0 \/ input.bufs[Len(input.bufs)].data_end > 0
    <3>1. recvr.area.size = 0 => input.bufs = <<>>
      BY <1>1 DEF Receiving
    <3>2. recvr.area.size \in Nat
      BY <1>1 DEF Receiving, QueueInv, Writing, Area
    <3> QED
      BY <1>1, <3>1, <3>2 DEF Receiving, PutIn
  <2>2. MinRead \in Nat \ {0}
    BY DEF QueueConstants
  <2>3. /\ QueueInv(g.q, main.area, Len(main.seen), g.area, PutIn + recvr.area.size)
        /\ g.area.size >= MinRead /\ g.q.bufs # <<>> /\ g.over = (g.q.tot > MaxBuf)
        /\ g.q.no_writer = input.no_writer /\ g.q.no_reader = input.no_reader
    BY <2>1, <2>2, NextWriteArea
  <2> HIDE DEF g
  <2>4. PutIn + recvr.area.size = peer.got
    <3>1. recvr.area.size \in Nat /\ peer.got \in Nat
      BY <1>1 DEF Receiving, QueueInv, Writing, Area, Types
    <3> QED
      BY <2>1, <3>1
  <2>5. recvr'.pc = "check" /\ recvr'.area = g.area /\ DOMAIN recvr' = {"pc", "area"}
    BY <1>3
  <2>6. g.area.size \in Nat /\ g.q.tot \in Int
    BY <2>3 DEF QueueInv, Writing, Area, Holds, BuffersOk
  <2>7. Types'
    BY <1>1, <1>3, <2>5 DEF Types, InOrder
  <2>8. Receiving'
    <3>1. input'.tot <= MaxBuf
      <4>1. ~(g.q.tot > MaxBuf)
        BY <1>3, <2>3, Zenon
      <4>2. MaxBuf \in Nat
        BY DEF QueueConstants
      <4> QED
        BY <1>3, <2>6, <4>1, <4>2
    <3>2. QueueInv(input', main'.area, Len(main'.seen), recvr'.area, PutIn')
      BY <1>3, <2>3, <2>4, <2>5 DEF PutIn
    <3>3. recvr'.area.size > 0
      BY <2>2, <2>3, <2>5, <2>6
    <3>4. main'.pc = "parse" => main'.area.size > 0
      BY <1>1, <1>3 DEF Receiving
    <3> QED
      BY <2>5, <3>1, <3>2, <3>3, <3>4 DEF Receiving
  <2>9. Printing'
    BY <1>1, <1>3 DEF Printing
  <2>10. Endings'
    BY <1>1, <1>3, <2>3, <2>5 DEF Endings
  <2> QED
    BY <2>7, <2>8, <2>9, <2>10 DEF EInv
<1> QED
  BY <1>2, <1>3 DEF NextInputArea

\* The input thread asks whether it is to stop.
LEMMA CheckReaderStep == EInv /\ CheckReader => EInv'
<1> SUFFICES ASSUME EInv, CheckReader PROVE EInv'
  OBVIOUS
<1>1. recvr.pc = "check" /\ Types /\ Receiving /\ Printing /\ Endings
  BY DEF CheckReader, EInv
<1>2. /\ recvr'.area = recvr.area /\ DOMAIN recvr' = {"pc", "area"}
      /\ recvr'.pc = IF input.no_reader THEN "stop" ELSE "recv"
      /\ UNCHANGED <<input, output, peer, errno, main, writer, file, ended>>
  BY <1>1 DEF CheckReader, Types
<1>3. Types'
  BY <1>1, <1>2 DEF Types, InOrder
<1>4. Receiving'
  BY <1>1, <1>2 DEF Receiving, PutIn
<1>5. Printing'
  BY <1>1, <1>2 DEF Printing
<1>6. Endings'
  BY <1>1, <1>2 DEF Endings
<1> QED
  BY <1>3, <1>4, <1>5, <1>6 DEF EInv

\* The input thread receives some of the trace, is interrupted, loses the connection, or sees its end.
LEMMA RecvStep == QueueConstants /\ EInv /\ Recv => EInv'
<1> SUFFICES ASSUME QueueConstants, EInv, Recv PROVE EInv'
  OBVIOUS
<1>1. recvr.pc = "recv" /\ Types /\ Receiving /\ Printing /\ Endings
  BY DEF Recv, EInv
<1>2. CASE Received
  <2> DEFINE w == recvr.area
  <2>1. PICK k \in 1..w.size :
          /\ peer.got + k <= peer.sent
          /\ input' = Fill(input, w, [i \in 1..k |-> peer.got + i])
          /\ peer' = [peer EXCEPT !.got = @ + k]
          /\ recvr' = [pc |-> "area", area |-> [w EXCEPT !.size = k]]
          /\ UNCHANGED <<output, errno, main, writer, file, ended>>
    BY <1>2 DEF Received
  <2> DEFINE units == [i \in 1..k |-> peer.got + i]
             p == Fill(input, w, units)
             v == [w EXCEPT !.size = k]
  <2>2. /\ QueueInv(input, main.area, Len(main.seen), w, peer.got) /\ w.size > 0
        /\ w \in Area /\ w.size \in Nat /\ peer.got \in Nat
    BY <1>1 DEF Receiving, PutIn, QueueInv, Writing, Area, Types
  <2>3. DOMAIN units = 1..k /\ \A i \in 1..k : units[i] = peer.got + i
    OBVIOUS
  <2> HIDE DEF units, p
  <2>4. /\ QueueInv(p, main.area, Len(main.seen), w, peer.got)
        /\ \A i \in 1..k : p.mem[w.id][w.at + i] = peer.got + i
        /\ p.bufs = input.bufs /\ p.tot = input.tot
        /\ p.no_writer = input.no_writer /\ p.no_reader = input.no_reader
    <3>1. p = Fill(input, w, units)
      BY DEF p
    <3>2. k \in 1..w.size
      BY <2>1
    <3> HIDE DEF w
    <3> QED
      BY <2>2, <2>3, <3>1, <3>2, FillHolds, SMTT(60)
  <2>5. input' = p
    BY <2>1 DEF units, p
  <2>6. QueueInv(p, main.area, Len(main.seen), v, peer.got)
    BY <2>2, <2>4, ShortenedHolds
  <2>7. v.id = w.id /\ v.at = w.at /\ v.size = k /\ k \in Nat /\ k > 0
    BY <2>2, SMTT(60) DEF Area
  <2>8. /\ recvr'.pc = "area" /\ recvr'.area = v /\ DOMAIN recvr' = {"pc", "area"}
        /\ DOMAIN peer' = {"sent", "got", "closed"}
        /\ peer'.got = peer.got + k /\ peer'.sent = peer.sent /\ peer'.closed = peer.closed
    BY <1>1, <2>1 DEF Types
  <2> HIDE DEF v, w
  <2>9. PutIn' = peer.got
    BY <2>2, <2>7, <2>8 DEF PutIn
  <2>10. Types'
    <3>1. peer'.got \in Nat /\ peer'.got <= peer'.sent
      BY <2>1, <2>2, <2>7, <2>8
    <3> QED
      BY <1>1, <2>1, <2>8, <3>1 DEF Types, InOrder
  <2>11. Receiving'
    <3>1. QueueInv(input', main'.area, Len(main'.seen), recvr'.area, PutIn')
      BY <2>1, <2>5, <2>6, <2>8, <2>9
    <3>2. Filled(input', recvr'.area, PutIn')
      BY <2>4, <2>5, <2>7, <2>8, <2>9 DEF Filled
    <3>3. input'.tot <= MaxBuf
      BY <1>1, <2>4, <2>5 DEF Receiving
    <3>4. main'.pc = "parse" => main'.area.size > 0
      BY <1>1, <2>1 DEF Receiving
    <3> QED
      BY <2>7, <2>8, <3>1, <3>2, <3>3, <3>4 DEF Receiving
  <2>12. Printing'
    BY <1>1, <2>1 DEF Printing
  <2>13. Endings'
    <3>1. ~(peer.got = peer.sent)
      BY <1>1, <2>1, <2>2, <2>7 DEF Types
    <3>2. input'.no_reader = input.no_reader /\ input'.no_writer = input.no_writer
      BY <2>4, <2>5
    <3> QED
      BY <1>1, <2>1, <2>8, <3>1, <3>2 DEF Endings
  <2> QED
    BY <2>10, <2>11, <2>12, <2>13 DEF EInv
<1>3. CASE Interrupted \/ ReceiveFails \/ EndOfTrace
  <2>1. /\ recvr'.area = recvr.area /\ DOMAIN recvr' = {"pc", "area"}
        /\ recvr'.pc \in {"check", "stop"}
        /\ recvr'.pc = "stop" => errno' = "lost" \/ (peer.closed /\ peer.got = peer.sent)
        /\ recvr'.pc = "check" => errno' # "lost"
        /\ UNCHANGED <<input, output, peer, main, writer, file, ended>>
    BY <1>1, <1>3 DEF Interrupted, ReceiveFails, EndOfTrace, Types, Endings
  <2>2. Types'
    BY <1>1, <2>1 DEF Types, InOrder
  <2>3. Receiving'
    BY <1>1, <2>1 DEF Receiving, PutIn
  <2>4. Printing'
    BY <1>1, <2>1 DEF Printing
  <2>5. Endings'
    BY <1>1, <2>1 DEF Endings
  <2> QED
    BY <2>2, <2>3, <2>4, <2>5 DEF EInv
<1> QED
  BY <1>2, <1>3 DEF Recv

\* The input thread ends.
LEMMA StopReceivingStep == EInv /\ StopReceiving => EInv'
<1> SUFFICES ASSUME EInv, StopReceiving PROVE EInv'
  OBVIOUS
<1>1. recvr.pc = "stop" /\ Types /\ Receiving /\ Printing /\ Endings
  BY DEF StopReceiving, EInv
<1>2. QueueInv(input, main.area, Len(main.seen), recvr.area, peer.got)
  BY <1>1 DEF Receiving, PutIn
<1>3. DOMAIN input = QFields
  BY <1>2 DEF QueueInv, Holds, BuffersOk
<1>4. /\ DOMAIN input' = DOMAIN input /\ input'.bufs = input.bufs /\ input'.used = input.used
      /\ input'.mem = input.mem /\ input'.tot = input.tot
      /\ input'.no_writer = TRUE /\ input'.no_reader = input.no_reader
  BY <1>3 DEF StopReceiving, disconnect_queue_writer, cond_signal, QFields
<1>5. /\ recvr'.area = recvr.area /\ DOMAIN recvr' = {"pc", "area"} /\ recvr'.pc = "done"
      /\ UNCHANGED <<output, peer, errno, main, writer, file, ended>>
  BY <1>1 DEF StopReceiving, Types
<1>6. Types'
  BY <1>1, <1>5 DEF Types, InOrder
<1>7. Receiving'
  <2>1. QueueInv(input', main.area, Len(main.seen), recvr.area, peer.got)
    BY <1>2, <1>4, ToldHolds
  <2> QED
    BY <1>1, <1>4, <1>5, <2>1 DEF Receiving, PutIn
<1>8. Printing'
  BY <1>1, <1>5 DEF Printing
<1>9. Endings'
  BY <1>1, <1>4, <1>5 DEF Endings
<1> QED
  BY <1>6, <1>7, <1>8, <1>9 DEF EInv

\* The output thread takes what has been printed, waits for more, or ends.
LEMMA OutputAreaStep == QueueConstants /\ EInv /\ NextOutputArea => EInv'
<1> SUFFICES ASSUME QueueConstants, EInv, NextOutputArea PROVE EInv'
  OBVIOUS
<1> DEFINE g == get_next_read_area(output)
<1>1. writer.pc = "area" /\ Types /\ Receiving /\ Printing /\ Endings
  BY DEF NextOutputArea, EInv
<1>2. /\ output' = IF g.waits \/ g.area.size > 0 THEN g.q ELSE disconnect_queue_reader(g.q)
      /\ writer' = [pc |-> IF g.waits THEN "area" ELSE IF g.area.size > 0 THEN "write" ELSE "done",
                    area |-> g.area]
      /\ UNCHANGED <<input, peer, errno, recvr, main, file, ended>>
  BY DEF NextOutputArea
<1>3. /\ QueueInv(output, writer.area, Len(file), main.out, main.lines) /\ writer.area.size = 0
      /\ output.tot <= MaxBuf /\ output.tot \in Int
  <2>1. /\ QueueInv(output, writer.area, Len(file), main.out, main.lines)
        /\ ~(writer.area.size > 0) /\ output.tot <= MaxBuf
    BY <1>1 DEF Printing
  <2>2. writer.area.size \in Nat /\ output.tot \in Int
    BY <2>1 DEF QueueInv, Reading, Area, Holds, BuffersOk
  <2> QED
    BY <2>1, <2>2
<1>4. /\ QueueInv(g.q, g.area, Len(file), main.out, main.lines) /\ g.q.mem = output.mem
      /\ g.q.tot <= output.tot
      /\ g.q.no_writer = output.no_writer /\ g.q.no_reader = output.no_reader
      /\ g.waits => g.area.size = 0
      /\ g.area.size = 0 /\ ~g.waits => output.no_writer /\ Len(file) = main.lines
      /\ g.q.bufs # <<>> =>
           output.bufs # <<>>
           /\ g.q.bufs[Len(g.q.bufs)].data_end = output.bufs[Len(output.bufs)].data_end
  BY <1>3, ReadAreaHolds
<1> HIDE DEF g
<1>5. DOMAIN g.q = QFields /\ g.area.size \in Nat /\ g.q.tot \in Int
  BY <1>4 DEF QueueInv, Holds, BuffersOk, Reading, Area
<1>6. /\ DOMAIN output' = DOMAIN g.q /\ output'.bufs = g.q.bufs /\ output'.used = g.q.used
      /\ output'.mem = g.q.mem /\ output'.tot = g.q.tot /\ output'.no_writer = g.q.no_writer
  BY <1>2, <1>5 DEF disconnect_queue_reader, cond_signal, QFields
<1>7. QueueInv(output', g.area, Len(file), main.out, main.lines)
  BY <1>4, <1>6, ToldHolds
<1>8. /\ DOMAIN writer' = {"pc", "area"} /\ writer'.area = g.area
      /\ writer'.pc = IF g.waits THEN "area" ELSE IF g.area.size > 0 THEN "write" ELSE "done"
  BY <1>2
<1>9. Types'
  BY <1>1, <1>2, <1>8 DEF Types, InOrder
<1>10. Receiving'
  BY <1>1, <1>2 DEF Receiving, PutIn
<1>11. Printing'
  <2>1. output'.tot <= MaxBuf
    <3>1. MaxBuf \in Nat
      BY DEF QueueConstants
    <3> QED
      BY <1>3, <1>4, <1>5, <1>6, <3>1
  <2>2. writer'.pc = "write" <=> writer'.area.size > 0
    BY <1>4, <1>5, <1>8
  <2>3. main.out.size = 0 /\ output'.bufs # <<>> => output'.bufs[Len(output'.bufs)].data_end > 0
    BY <1>1, <1>4, <1>6 DEF Printing
  <2> QED
    BY <1>1, <1>2, <1>7, <1>8, <2>1, <2>2, <2>3 DEF Printing
<1>12. Endings'
  <2>1. writer'.pc = "done" => output'.no_writer /\ Len(file) = main.lines
    BY <1>4, <1>5, <1>6, <1>8
  <2>2. output'.no_writer = output.no_writer
    BY <1>4, <1>6
  <2> QED
    BY <1>1, <1>2, <2>1, <2>2 DEF Endings
<1> QED
  BY <1>9, <1>10, <1>11, <1>12 DEF EInv

\* Numbers in their order, and those that come next.
LEMMA CountedOn ==
    ASSUME NEW s \in Seq(Nat), s = Counted(Len(s)), NEW t, NEW k \in Nat,
           t = [i \in 1..k |-> Len(s) + i]
    PROVE  /\ s \o t \in Seq(Nat) /\ Len(s \o t) = Len(s) + k /\ s \o t = Counted(Len(s \o t))
<1>1. Len(s) \in Nat /\ \A i \in 1..Len(s) : s[i] = i
  <2>1. Len(s) \in Nat
    OBVIOUS
  <2>2. \A i \in 1..Len(s) : Counted(Len(s))[i] = i
    BY DEF Counted
  <2> QED
    BY <2>1, <2>2
<1>2. t \in Seq(Nat) /\ Len(t) = k /\ \A i \in 1..k : t[i] = Len(s) + i
  <2>1. \A i \in 1..k : Len(s) + i \in Nat
    BY <1>1
  <2> QED
    BY <1>1, <2>1, SeqDef, LenProperties
<1>3. /\ s \o t \in Seq(Nat) /\ Len(s \o t) = Len(s) + k
      /\ \A i \in 1..Len(s) + k : (s \o t)[i] = IF i <= Len(s) THEN s[i] ELSE t[i - Len(s)]
  BY <1>2, ConcatProperties
<1>4. \A i \in 1..Len(s) + k : (s \o t)[i] = i
  <2> SUFFICES ASSUME NEW i \in 1..Len(s) + k PROVE (s \o t)[i] = i
    OBVIOUS
  <2>1. CASE i <= Len(s)
    BY <1>1, <1>3, <2>1
  <2>2. CASE ~(i <= Len(s))
    <3>1. i - Len(s) \in 1..k /\ Len(s) + (i - Len(s)) = i
      BY <1>1, <2>2
    <3>2. (s \o t)[i] = t[i - Len(s)]
      BY <1>3, <2>2
    <3> QED
      BY <1>2, <3>1, <3>2
  <2> QED
    BY <2>1, <2>2
<1> DEFINE u == s \o t
<1>5. u \in Seq(Nat) /\ Len(u) = Len(s) + k /\ \A i \in 1..Len(u) : u[i] = i
  BY <1>3, <1>4
<1> HIDE DEF u
<1>6. DOMAIN u = 1..Len(u) /\ u = [i \in 1..Len(u) |-> u[i]]
  BY <1>5, LenProperties
<1>7. u = Counted(Len(u))
  BY <1>5, <1>6 DEF Counted
<1> QED
  BY <1>5, <1>7 DEF u

\* The output thread writes its area.
LEMMA WriteStep == QueueConstants /\ EInv /\ Write => EInv'
<1> SUFFICES ASSUME QueueConstants, EInv, Write PROVE EInv'
  OBVIOUS
<1>1. writer.pc = "write" /\ Types /\ Receiving /\ Printing /\ Endings
  BY DEF Write, EInv
<1>2. CASE error_msg("write")
  BY <1>2, ErrorStep
<1>3. CASE /\ file' = file \o DataOf(output, writer.area)
           /\ writer' = [pc |-> "area", area |-> NoArea]
           /\ UNCHANGED <<input, output, peer, errno, recvr, main, ended>>
  <2> DEFINE r == writer.area
             data == DataOf(output, r)
  <2>1. /\ QueueInv(output, r, Len(file), main.out, main.lines) /\ r.size > 0
    BY <1>1 DEF Printing
  <2>2. r \in Area /\ r.size \in Nat /\ Reading(output, r, Len(file))
    BY <2>1 DEF QueueInv, Reading, Area
  <2>3. data = [i \in 1..r.size |-> Len(file) + i]
    BY <2>1, <2>2 DEF DataOf, Reading
  <2>4. file \in Seq(Nat) /\ file = Counted(Len(file))
    BY <1>1 DEF Types, InOrder
  <2> HIDE DEF data
  <2>5. file' \in Seq(Nat) /\ Len(file') = Len(file) + r.size /\ file' = Counted(Len(file'))
    <3>1. file' = file \o data
      BY <1>3 DEF data
    <3> QED
      BY <2>2, <2>3, <2>4, <3>1, CountedOn
  <2>6. DOMAIN writer' = {"pc", "area"} /\ writer'.pc = "area" /\ writer'.area = NoArea
    BY <1>3
  <2>7. NoArea \in Area /\ NoArea.size = 0
    BY DEF NoArea, Area
  <2>8. QueueInv(output, NoArea, Len(file'), main.out, main.lines)
    <3>1. r.size \in 0..r.size /\ NoArea.size = r.size - r.size /\ ~(r.size < r.size)
      BY <2>2, <2>7
    <3> QED
      BY <2>1, <2>5, <2>7, <3>1, UsedHolds
  <2>9. Types'
    BY <1>1, <1>3, <2>5, <2>6 DEF Types, InOrder
  <2>10. Receiving'
    BY <1>1, <1>3 DEF Receiving, PutIn
  <2>11. Printing'
    BY <1>1, <1>3, <2>6, <2>7, <2>8 DEF Printing
  <2>12. Endings'
    BY <1>1, <1>3, <2>6 DEF Endings
  <2> QED
    BY <2>9, <2>10, <2>11, <2>12 DEF EInv
<1> QED
  BY <1>2, <1>3 DEF Write

-----------------------------------------------------------------------------
(* The steps of the main thread.                                           *)

\* A print takes an area that is large enough.
LEMMA BeginPrintStep ==
    ASSUME QueueConstants, EInv, main.out.size = 0, NEW size \in Nat \ {0},
           main.pc \in {"address", "connected", "print", "footer"}, BeginPrint(size)
    PROVE  EInv'
<1> DEFINE g == get_next_write_area(output, NoArea, size)
           a == [g.area EXCEPT !.size = size]
<1>1. Types /\ Receiving /\ Printing /\ Endings
  BY DEF EInv
<1>2. CASE error_msg("overrun") \/ error_msg("segv")
  BY <1>2, ErrorStep
<1>3. CASE /\ ~g.over
           /\ output' = g.q /\ main' = [main EXCEPT !.out = a]
           /\ UNCHANGED <<input, peer, errno, recvr, writer, file, ended>>
  <2>1. NoArea \in Area /\ NoArea.size = 0
    BY DEF NoArea, Area
  <2>2. /\ QueueInv(output, writer.area, Len(file), main.out, main.lines) /\ main.lines \in Nat
        /\ output.bufs = <<>> \/ output.bufs[Len(output.bufs)].data_end > 0
    BY <1>1 DEF Printing, Types
  <2>3. QueueInv(output, writer.area, Len(file), NoArea, main.lines)
    <3>1. Writing(output, NoArea)
      BY <2>1 DEF Writing
    <3> QED
      BY <2>2, <3>1 DEF QueueInv
  <2>4. Filled(output, NoArea, main.lines) /\ main.lines + NoArea.size = main.lines
    BY <2>1, <2>2 DEF Filled
  <2>5. /\ QueueInv(g.q, writer.area, Len(file), g.area, main.lines)
        /\ g.area.size >= size /\ g.q.bufs # <<>> /\ g.over = (g.q.tot > MaxBuf)
        /\ g.q.no_writer = output.no_writer /\ g.q.no_reader = output.no_reader
    <3> HIDE DEF g
    <3>1. QueueConstants
      OBVIOUS
    <3> QED
      BY <2>2, <2>3, <2>4, <3>1, NextWriteArea DEF g
  <2> HIDE DEF g
  <2>6. g.area \in Area /\ g.area.size \in Nat /\ g.q.tot \in Int
    BY <2>5 DEF QueueInv, Writing, Area, Holds, BuffersOk
  <2>7. QueueInv(g.q, writer.area, Len(file), a, main.lines) /\ a.size = size
    <3>1. size \in 0..g.area.size
      BY <2>5, <2>6
    <3>2. a.size = size
      BY <2>6 DEF Area
    <3> QED
      BY <2>5, <3>1, <3>2, ShortenedHolds
  <2> HIDE DEF a
  <2>8. /\ DOMAIN main' = DOMAIN main /\ main'.out = a /\ main'.pc = main.pc /\ main'.area = main.area
        /\ main'.lines = main.lines /\ main'.seen = main.seen /\ main'.res = main.res
    BY <1>1, <1>3 DEF Types
  <2>9. Types'
    BY <1>1, <1>3, <2>8 DEF Types, InOrder
  <2>10. Receiving'
    BY <1>1, <1>3, <2>8 DEF Receiving, PutIn
  <2>11. Printing'
    <3>1. output'.tot <= MaxBuf
      <4>1. ~(g.q.tot > MaxBuf)
        BY <1>3, <2>5, Zenon
      <4>2. MaxBuf \in Nat
        BY DEF QueueConstants
      <4> QED
        BY <1>3, <2>6, <4>1, <4>2
    <3>2. writer'.pc = "write" <=> writer'.area.size > 0
      BY <1>1, <1>3 DEF Printing
    <3> QED
      BY <1>3, <2>7, <2>8, <3>1, <3>2 DEF Printing
  <2>12. Endings'
    BY <1>1, <1>3, <2>5, <2>8 DEF Endings
  <2> QED
    BY <2>9, <2>10, <2>11, <2>12 DEF EInv
<1> QED
  BY <1>2, <1>3 DEF BeginPrint

\* Where the main thread goes on after a print.
Continues(then) ==
    /\ <<main.pc, then>> \in {<<"address", "accept">>, <<"connected", "create">>, <<"print", "return">>,
                              <<"print", "read">>, <<"footer", "finish">>}
    /\ main.res = "stopped" => then # "read"

\* A print fills its area and publishes it.
LEMMA EndPrintStep ==
    ASSUME QueueConstants, EInv, main.out.size # 0, NEW then, Continues(then), EndPrint(then)
    PROVE  EInv'
<1> DEFINE w == main.out
           units == [i \in 1..w.size |-> main.lines + i]
           p == Fill(output, w, units)
           t == wrote_area(p, w)
<1>1. Types /\ Receiving /\ Printing /\ Endings
  BY DEF EInv
<1>2. /\ output' = t
      /\ main' = [main EXCEPT !.out = NoArea, !.lines = @ + w.size, !.pc = then]
      /\ UNCHANGED <<input, peer, errno, recvr, writer, file, ended>>
  BY DEF EndPrint
<1>3. /\ QueueInv(output, writer.area, Len(file), w, main.lines) /\ main.lines \in Nat
      /\ w.size \in Nat /\ w.size > 0
  BY <1>1 DEF Printing, Types, QueueInv, Writing, Area
<1>4. w.size \in 1..w.size /\ DOMAIN units = 1..w.size /\ \A i \in 1..w.size : units[i] = main.lines + i
  BY <1>3
<1> HIDE DEF units
<1>5. /\ QueueInv(p, writer.area, Len(file), w, main.lines)
      /\ \A i \in 1..w.size : p.mem[w.id][w.at + i] = main.lines + i
      /\ p.bufs = output.bufs /\ p.tot = output.tot
      /\ p.no_writer = output.no_writer /\ p.no_reader = output.no_reader
  <2> DEFINE k == w.size
  <2>1. k \in 1..w.size /\ DOMAIN units = 1..k /\ \A i \in 1..k : units[i] = main.lines + i
    BY <1>4
  <2>3. p = Fill(output, w, units)
    OBVIOUS
  <2> HIDE DEF k, w, p
  <2>2. /\ QueueInv(p, writer.area, Len(file), w, main.lines)
        /\ \A i \in 1..k : p.mem[w.id][w.at + i] = main.lines + i
        /\ p.bufs = output.bufs /\ p.tot = output.tot
        /\ p.no_writer = output.no_writer /\ p.no_reader = output.no_reader
    BY <1>3, <2>1, <2>3, FillHolds, SMTT(60)
  <2> QED
    BY <2>2 DEF k
<1> HIDE DEF p
<1>6. /\ Holds(t, Len(file) + writer.area.size, main.lines + w.size) /\ Reading(t, writer.area, Len(file))
      /\ t.bufs # <<>> /\ t.bufs[Len(t.bufs)].data_end > 0
      /\ t.tot = p.tot /\ t.no_writer = p.no_writer /\ t.no_reader = p.no_reader
  <2>1. Filled(p, w, main.lines)
    BY <1>5 DEF Filled
  <2> QED
    BY <1>3, <1>5, <2>1, WroteHolds
<1> HIDE DEF t
<1>7. NoArea \in Area /\ NoArea.size = 0
  BY DEF NoArea, Area
<1>8. QueueInv(t, writer.area, Len(file), NoArea, main.lines + w.size)
  <2>1. Writing(t, NoArea) /\ Len(file) \in Nat
    BY <1>3, <1>7 DEF Writing, QueueInv
  <2> QED
    BY <1>6, <2>1 DEF QueueInv
<1>9. /\ DOMAIN main' = DOMAIN main /\ main'.out = NoArea /\ main'.pc = then /\ main'.area = main.area
      /\ main'.lines = main.lines + w.size /\ main'.seen = main.seen /\ main'.res = main.res
  BY <1>1, <1>2 DEF Types
<1>10. then \in MainPc /\ then # "parse"
  BY DEF Continues, MainPc
<1>11. (main.pc \in {"address", "accept", "connected", "create"}
           <=> then \in {"address", "accept", "connected", "create"})
  BY DEF Continues
<1>12. Types'
  <2>1. main'.lines \in Nat
    BY <1>3, <1>9
  <2> HIDE DEF w
  <2> QED
    BY <1>1, <1>2, <1>9, <1>10, <1>11, <2>1 DEF Types, InOrder
<1>13. Receiving'
  BY <1>1, <1>2, <1>9, <1>10 DEF Receiving, PutIn
<1>14. Printing'
  BY <1>1, <1>2, <1>5, <1>6, <1>7, <1>8, <1>9 DEF Printing
<1>15. Endings'
  <2>1. writer.pc # "done" /\ ended \notin {"stopped", "truncated", "bad"} /\ main.pc # "last"
    BY <1>1 DEF Endings, Continues
  <2>2. output'.no_writer = output.no_writer
    BY <1>2, <1>5, <1>6
  <2> QED
    BY <1>1, <1>2, <1>9, <2>1, <2>2 DEF Endings, Continues
<1> QED
  BY <1>12, <1>13, <1>14, <1>15 DEF EInv

\* The main thread goes on, and does nothing else.
LEMMA GoesStep ==
    ASSUME EInv, NEW pc, pc \in MainPc, Goes(pc), main.out.size = 0,
           main.pc \in {"address", "accept", "connected", "create"}
              <=> pc \in {"address", "accept", "connected", "create"},
           pc = "parse" => main.area.size > 0,
           main.pc \in {"join", "footer", "finish", "last"} <=> pc \in {"join", "footer", "finish", "last"},
           main.pc = "last" <=> pc = "last",
           main.res = "stopped" => pc \in {"print", "return", "join", "footer", "finish", "last"},
           main.res = "truncated" => pc \in {"return", "join", "finish", "last"}
    PROVE  EInv'
<1>1. Types /\ Receiving /\ Printing /\ Endings
  BY DEF EInv
<1>2. /\ DOMAIN main' = DOMAIN main /\ main'.out = main.out /\ main'.pc = pc /\ main'.area = main.area
      /\ main'.lines = main.lines /\ main'.seen = main.seen /\ main'.res = main.res
      /\ UNCHANGED <<input, output, peer, errno, recvr, writer, file, ended>>
  BY <1>1 DEF Types, Goes
<1>3. Types'
  BY <1>1, <1>2 DEF Types, InOrder
<1>4. Receiving'
  BY <1>1, <1>2 DEF Receiving, PutIn
<1>5. Printing'
  BY <1>1, <1>2 DEF Printing
<1>6. Endings'
  BY <1>1, <1>2 DEF Endings
<1> QED
  BY <1>3, <1>4, <1>5, <1>6 DEF EInv

\* Outside a print the main thread has no area of the output.
LEMMA NothingOut ==
    ASSUME EInv, main.pc \notin {"address", "connected", "print", "footer"}
    PROVE  main.out.size = 0
<1>1. main.out.size \in Nat /\ ~(main.out.size > 0)
  BY DEF EInv, Printing, QueueInv, Writing, Area
<1> QED
  BY <1>1

\* A print, and what follows it.
LEMMA PrintsStep ==
    ASSUME QueueConstants, EInv, NEW size \in Nat \ {0}, NEW then, Continues(then), Prints(size, then)
    PROVE  EInv'
<1>1. main.pc \in {"address", "connected", "print", "footer"}
  BY DEF Continues
<1>2. CASE main.out.size = 0
  BY <1>1, <1>2, BeginPrintStep DEF Prints
<1>3. CASE main.out.size # 0
  BY <1>3, EndPrintStep DEF Prints
<1> QED
  BY <1>2, <1>3

\* The connection is awaited and confirmed.
LEMMA InitConnectionStep == QueueConstants /\ EInv /\ init_connection => EInv'
<1> SUFFICES ASSUME QueueConstants, EInv, init_connection PROVE EInv'
  OBVIOUS
<1>1. main.res # "stopped" \/ main.pc \in {"print", "return", "join", "footer", "finish", "last"}
  BY DEF EInv, Endings
<1>2. main.res # "truncated" \/ main.pc \in {"return", "join", "finish", "last"}
  BY DEF EInv, Endings
<1>3. CASE main.pc = "address" /\ Prints(1, "accept")
  BY <1>1, <1>3, PrintsStep DEF Continues
<1>4. CASE main.pc = "accept" /\ Goes("connected")
  <2>1. main.out.size = 0
    BY <1>4, NothingOut
  <2> QED
    BY <1>1, <1>2, <1>4, <2>1, GoesStep DEF MainPc
<1>5. CASE error_msg("connection")
  BY <1>5, ErrorStep
<1>6. CASE main.pc = "connected" /\ Prints(1, "create")
  BY <1>1, <1>6, PrintsStep DEF Continues
<1> QED
  BY <1>3, <1>4, <1>5, <1>6 DEF init_connection

\* The input thread is started.
LEMMA CreateInputStep == QueueConstants /\ EInv /\ CreateInput => EInv'
<1> SUFFICES ASSUME QueueConstants, EInv, CreateInput PROVE EInv'
  OBVIOUS
<1>1. main.pc = "create" /\ Types /\ Receiving /\ Printing /\ Endings
  BY DEF CreateInput, EInv
<1>2. CASE error_msg("thread")
  BY <1>2, ErrorStep
<1>3. CASE /\ recvr' = [recvr EXCEPT !.pc = "area"] /\ main' = [main EXCEPT !.pc = "read"]
           /\ UNCHANGED <<input, output, peer, errno, writer, file, ended>>
  <2>1. /\ DOMAIN main' = DOMAIN main /\ main'.out = main.out /\ main'.pc = "read" /\ main'.area = main.area
        /\ main'.lines = main.lines /\ main'.seen = main.seen /\ main'.res = main.res
        /\ DOMAIN recvr' = DOMAIN recvr /\ recvr'.pc = "area" /\ recvr'.area = recvr.area
    BY <1>1, <1>3 DEF Types
  <2>2. recvr.pc = "none" /\ recvr.area.size = 0 /\ main.out.size = 0 /\ peer.got \in Nat
    BY <1>1, NothingOut DEF Types, Receiving
  <2>3. PutIn' = peer.got /\ PutIn = peer.got
    BY <1>3, <2>1, <2>2 DEF PutIn
  <2>4. Types'
    BY <1>1, <1>3, <2>1, <2>2 DEF Types, InOrder, MainPc
  <2>5. Receiving'
    <3>1. Filled(input', recvr'.area, PutIn')
      BY <2>1, <2>2 DEF Filled
    <3> QED
      BY <1>1, <1>3, <2>1, <2>2, <2>3, <3>1 DEF Receiving
  <2>6. Printing'
    BY <1>1, <1>3, <2>1, <2>2 DEF Printing
  <2>7. Endings'
    BY <1>1, <1>3, <2>1, <2>2 DEF Endings
  <2> QED
    BY <2>4, <2>5, <2>6, <2>7 DEF EInv
<1> QED
  BY <1>1, <1>2, <1>3 DEF CreateInput

\* The main thread takes what has been received, waits for more, or learns that the
\* trace has been cut off.
LEMMA ReadTraceStep == QueueConstants /\ EInv /\ ReadTrace => EInv'
<1> SUFFICES ASSUME QueueConstants, EInv, ReadTrace PROVE EInv'
  OBVIOUS
<1> DEFINE g == get_next_read_area(input)
           n == Len(main.seen)
<1>1. /\ main.pc = "read" /\ Types /\ Receiving /\ Printing /\ Endings
      /\ main.out.size = 0 /\ main.res # "stopped" /\ main.res # "truncated"
  BY NothingOut DEF ReadTrace, EInv, Endings
<1>2. /\ QueueInv(input, main.area, n, recvr.area, PutIn) /\ input.tot <= MaxBuf /\ input.tot \in Int
      /\ main.area.size \in Nat /\ n \in Nat
  BY <1>1 DEF Receiving, QueueInv, Holds, BuffersOk, Reading, Area
<1>3. CASE main.area.size > 0
  <2>1. Goes("parse")
    BY <1>3 DEF ReadTrace
  <2> QED
    BY <1>1, <1>3, <2>1, GoesStep DEF MainPc
<1>4. CASE ~(main.area.size > 0)
  <2>1. /\ input' = g.q
        /\ main' = [main EXCEPT !.area = g.area, !.res = IF g.waits \/ g.area.size > 0 THEN @ ELSE "truncated",
                    !.pc = IF g.waits THEN "read" ELSE IF g.area.size > 0 THEN "parse" ELSE "return"]
        /\ UNCHANGED <<output, peer, errno, recvr, writer, file, ended>>
    BY <1>4 DEF ReadTrace
  <2>2. main.area.size = 0
    BY <1>2, <1>4
  <2>3. /\ QueueInv(g.q, g.area, n, recvr.area, PutIn) /\ g.q.mem = input.mem
        /\ g.q.tot <= input.tot
        /\ g.q.no_writer = input.no_writer /\ g.q.no_reader = input.no_reader
        /\ g.waits => g.area.size = 0
        /\ g.area.size = 0 /\ ~g.waits => input.no_writer /\ n = PutIn
        /\ g.q.bufs # <<>> => input.bufs # <<>>
    BY <1>2, <2>2, ReadAreaHolds
  <2> HIDE DEF g
  <2>4. g.area.size \in Nat /\ g.q.tot \in Int
    BY <2>3 DEF QueueInv, Holds, BuffersOk, Reading, Area
  <2>5. /\ DOMAIN main' = DOMAIN main /\ main'.out = main.out /\ main'.area = g.area
        /\ main'.lines = main.lines /\ main'.seen = main.seen
        /\ main'.pc = IF g.waits THEN "read" ELSE IF g.area.size > 0 THEN "parse" ELSE "return"
        /\ main'.res = IF g.waits \/ g.area.size > 0 THEN main.res ELSE "truncated"
    BY <1>1, <2>1 DEF Types
  <2>6. Types'
    BY <1>1, <2>1, <2>5 DEF Types, InOrder, MainPc
  <2>7. Receiving'
    <3>1. PutIn' = PutIn
      BY <2>1 DEF PutIn
    <3>2. input'.tot <= MaxBuf
      <4>1. MaxBuf \in Nat
        BY DEF QueueConstants
      <4> QED
        BY <1>2, <2>1, <2>3, <2>4, <4>1
    <3>3. QueueInv(input', main'.area, Len(main'.seen), recvr'.area, PutIn')
      BY <2>1, <2>3, <2>5, <3>1
    <3>4. recvr'.pc = "area" => Filled(input', recvr'.area, PutIn')
      BY <1>1, <2>1, <2>3, <3>1 DEF Receiving, Filled
    <3>5. main'.pc = "parse" => main'.area.size > 0
      BY <2>5
    <3>6. recvr'.area.size = 0 => input'.bufs = <<>>
      BY <1>1, <2>1, <2>3 DEF Receiving
    <3> QED
      BY <1>1, <2>1, <3>2, <3>3, <3>4, <3>5, <3>6 DEF Receiving
  <2>8. Printing'
    BY <1>1, <2>1, <2>5 DEF Printing
  <2>9. Endings'
    <3>1. main'.res = "truncated" =>
             /\ main'.pc = "return" /\ Len(main'.seen) = peer.got
             /\ errno = "lost" \/ (peer.closed /\ peer.got = peer.sent)
      <4> SUFFICES ASSUME main'.res = "truncated"
                   PROVE  /\ main'.pc = "return" /\ Len(main'.seen) = peer.got
                          /\ errno = "lost" \/ (peer.closed /\ peer.got = peer.sent)
        OBVIOUS
      <4>1. ~g.waits /\ ~(g.area.size > 0)
        BY <1>1, <2>5
      <4>2. main'.pc = "return" /\ input.no_writer /\ n = PutIn
        BY <2>3, <2>4, <2>5, <4>1
      <4>3. recvr.pc = "done" /\ ~input.no_reader
        BY <1>1, <4>2 DEF Endings
      <4>4. PutIn = peer.got /\ (errno = "lost" \/ (peer.closed /\ peer.got = peer.sent))
        BY <1>1, <4>3 DEF Endings, PutIn
      <4> QED
        BY <2>5, <4>2, <4>4
    <3>2. main'.res # "stopped"
      BY <1>1, <2>5
    <3>3. input'.no_reader = input.no_reader /\ input'.no_writer = input.no_writer
      BY <2>1, <2>3
    <3> QED
      BY <1>1, <2>1, <2>5, <3>1, <3>2, <3>3 DEF Endings
  <2> QED
    BY <2>6, <2>7, <2>8, <2>9 DEF EInv
<1> QED
  BY <1>3, <1>4

\* Numbers in their order, and the next one.
LEMMA CountedNext ==
    ASSUME NEW s \in Seq(Nat), s = Counted(Len(s))
    PROVE  LET t == Append(s, Len(s) + 1)
           IN  t \in Seq(Nat) /\ Len(t) = Len(s) + 1 /\ t = Counted(Len(t))
<1> DEFINE t == Append(s, Len(s) + 1)
<1>1. Len(s) \in Nat /\ \A i \in 1..Len(s) : s[i] = i
  <2>1. \A i \in 1..Len(s) : Counted(Len(s))[i] = i
    BY DEF Counted
  <2> QED
    BY <2>1
<1>2. /\ t \in Seq(Nat) /\ Len(t) = Len(s) + 1 /\ t[Len(s) + 1] = Len(s) + 1
      /\ \A i \in 1..Len(s) : t[i] = s[i]
  BY <1>1, AppendProperties
<1> HIDE DEF t
<1>3. \A i \in 1..Len(t) : t[i] = i
  <2> SUFFICES ASSUME NEW i \in 1..Len(t) PROVE t[i] = i
    OBVIOUS
  <2>1. i \in 1..Len(s) \/ i = Len(s) + 1
    BY <1>1, <1>2
  <2> QED
    BY <1>1, <1>2, <2>1
<1>4. DOMAIN t = 1..Len(t) /\ t = [i \in 1..Len(t) |-> t[i]]
  BY <1>2, LenProperties
<1>5. t = Counted(Len(t))
  BY <1>3, <1>4 DEF Counted
<1> QED
  BY <1>2, <1>5 DEF t

\* The main thread digests the next unit of the trace.
LEMMA ParseStep == QueueConstants /\ EInv /\ Parse => EInv'
<1> SUFFICES ASSUME QueueConstants, EInv, Parse PROVE EInv'
  OBVIOUS
<1> DEFINE n == Len(main.seen)
           r == main.area
           s == [r EXCEPT !.at = @ + 1, !.size = @ - 1]
           unit == Head(DataOf(input, r))
<1>1. /\ main.pc = "parse" /\ Types /\ Receiving /\ Printing /\ Endings
      /\ main.out.size = 0 /\ main.res # "stopped" /\ main.res # "truncated"
      /\ UNCHANGED <<input, output, peer, errno, recvr, writer, file, ended>>
  BY NothingOut DEF Parse, EInv, Endings
<1>2. /\ QueueInv(input, r, n, recvr.area, PutIn) /\ Reading(input, r, n) /\ r.size > 0 /\ n \in Nat
      /\ r \in Area /\ r.size \in Nat /\ r.at \in Nat
  BY <1>1 DEF Receiving, QueueInv, Reading, Area
<1>3. PutIn' = PutIn
  BY <1>1 DEF PutIn
<1>4. unit = n + 1
  <2> DEFINE data == DataOf(input, r)
  <2>1. data = [i \in 1..r.size |-> n + i]
    BY <1>2 DEF DataOf, Reading
  <2>2. 1 \in 1..r.size /\ \A i \in 1..r.size : n + i \in Nat
    BY <1>2
  <2> HIDE DEF data
  <2>3. data \in Seq(Nat) /\ data # <<>> /\ data[1] = n + 1
    <3>1. data \in [1..r.size -> Nat] /\ data[1] = n + 1
      BY <2>1, <2>2
    <3>2. data \in Seq(Nat) /\ Len(data) = r.size
      BY <1>2, <3>1, SeqDef, LenProperties, SMTT(60)
    <3> QED
      BY <1>2, <3>1, <3>2, EmptySeq
  <2>4. Head(data) = data[1]
    BY <2>3, HeadTailProperties
  <2> QED
    BY <2>3, <2>4 DEF data
<1> HIDE DEF unit
<1>5. CASE main' = [[main EXCEPT !.area.at = @ + 1, !.area.size = @ - 1, !.seen = Append(@, unit)]
                      EXCEPT !.pc = IF unit < HeaderUnits THEN "read" ELSE "print",
                             !.res = IF unit = Trace THEN "stopped" ELSE @]
  <2>1. /\ DOMAIN main' = DOMAIN main /\ main'.out = main.out /\ main'.area = s
        /\ main'.lines = main.lines /\ main'.seen = Append(main.seen, unit)
        /\ main'.pc = IF unit < HeaderUnits THEN "read" ELSE "print"
        /\ main'.res = IF unit = Trace THEN "stopped" ELSE main.res
    BY <1>1, <1>5 DEF Types
  <2>2. s \in Area /\ s.id = r.id /\ s.at = r.at + 1 /\ s.size = r.size - 1
    <3> DEFINE a == r.at + 1
               b == r.size - 1
    <3>1. a \in Nat /\ b \in Nat
      BY <1>2
    <3> HIDE DEF a, b
    <3>2. /\ [r EXCEPT !.at = a, !.size = b] \in Area
          /\ [r EXCEPT !.at = a, !.size = b].id = r.id
          /\ [r EXCEPT !.at = a, !.size = b].at = a
          /\ [r EXCEPT !.at = a, !.size = b].size = b
      BY <1>2, <3>1 DEF Area
    <3> QED
      BY <3>2 DEF a, b
  <2> HIDE DEF s
  <2>3. QueueInv(input, s, n + 1, recvr.area, PutIn)
    <3>1. 1 \in 0..r.size
      BY <1>2
    <3> QED
      BY <1>2, <2>2, <3>1, UsedHolds
  <2>4. /\ main'.seen \in Seq(Nat) /\ Len(main'.seen) = n + 1
        /\ main'.seen = Counted(Len(main'.seen))
    <3>1. main.seen \in Seq(Nat) /\ main.seen = Counted(Len(main.seen))
      BY <1>1 DEF Types, InOrder
    <3>2. main'.seen = Append(main.seen, Len(main.seen) + 1)
      BY <1>4, <2>1
    <3> QED
      BY <3>1, <3>2, CountedNext
  <2>5. main'.pc \in {"read", "print"}
    BY <2>1
  <2>6. Types'
    BY <1>1, <2>1, <2>4, <2>5 DEF Types, InOrder, MainPc
  <2>7. Receiving'
    <3>1. QueueInv(input', main'.area, Len(main'.seen), recvr'.area, PutIn')
      BY <1>1, <1>3, <2>1, <2>3, <2>4
    <3>2. recvr'.pc = "area" => Filled(input', recvr'.area, PutIn')
      BY <1>1, <1>3 DEF Receiving
    <3> QED
      BY <1>1, <2>5, <3>1, <3>2 DEF Receiving
  <2>8. Printing'
    BY <1>1, <2>1 DEF Printing
  <2>9. Endings'
    <3>1. main'.res = "stopped" => main'.pc = "print" /\ Len(main'.seen) = Trace
      <4> SUFFICES ASSUME unit = Trace PROVE ~(unit < HeaderUnits) /\ n + 1 = Trace
        BY <1>1, <2>1, <2>4
      <4> QED
        BY <1>4 DEF QueueConstants
    <3>2. main'.res # "truncated"
      BY <1>1, <2>1
    <3> QED
      BY <1>1, <2>1, <2>5, <3>1, <3>2 DEF Endings
  <2> QED
    BY <2>6, <2>7, <2>8, <2>9 DEF EInv
<1>6. CASE main' = [main EXCEPT !.pc = "return", !.res = "bad"]
  <2>1. /\ DOMAIN main' = DOMAIN main /\ main'.out = main.out /\ main'.area = main.area
        /\ main'.lines = main.lines /\ main'.seen = main.seen
        /\ main'.pc = "return" /\ main'.res = "bad"
    BY <1>1, <1>6 DEF Types
  <2>2. Types'
    BY <1>1, <2>1 DEF Types, InOrder, MainPc
  <2>3. Receiving'
    BY <1>1, <2>1 DEF Receiving, PutIn
  <2>4. Printing'
    BY <1>1, <2>1 DEF Printing
  <2>5. Endings'
    BY <1>1, <2>1 DEF Endings
  <2> QED
    BY <2>2, <2>3, <2>4, <2>5 DEF EInv
<1> QED
  BY <1>5, <1>6 DEF Parse, unit

\* What an operation prints.
LEMMA PrintParsedStep == QueueConstants /\ EInv /\ PrintParsed => EInv'
<1> SUFFICES ASSUME QueueConstants, EInv, PrintParsed PROVE EInv'
  OBVIOUS
<1> DEFINE size == IF Len(main.seen) = HeaderUnits THEN BufSize + 1 ELSE 1
           then == IF main.res = "stopped" THEN "return" ELSE "read"
<1>1. main.pc = "print" /\ Prints(size, then)
  BY DEF PrintParsed
<1>2. size \in Nat \ {0}
  BY DEF QueueConstants
<1>3. Continues(then)
  BY <1>1 DEF Continues
<1> HIDE DEF size, then
<1> QED
  BY <1>1, <1>2, <1>3, PrintsStep

\* The main thread tells the input thread to stop, and waits for its end.
LEMMA ReturnStep == EInv /\ Return => EInv'
<1> SUFFICES ASSUME EInv, Return PROVE EInv'
  OBVIOUS
<1>1. Types /\ Receiving /\ Printing /\ Endings
  BY DEF EInv
<1>2. CASE /\ main.pc = "return"
           /\ input' = disconnect_queue_reader(input) /\ main' = [main EXCEPT !.pc = "join"]
           /\ UNCHANGED <<output, peer, errno, recvr, writer, file, ended>>
  <2>1. /\ DOMAIN main' = DOMAIN main /\ main'.out = main.out /\ main'.area = main.area
        /\ main'.lines = main.lines /\ main'.seen = main.seen
        /\ main'.pc = "join" /\ main'.res = main.res
    BY <1>1, <1>2 DEF Types
  <2>2. QueueInv(input, main.area, Len(main.seen), recvr.area, PutIn) /\ main.out.size = 0
    BY <1>1, <1>2, NothingOut DEF Receiving
  <2>3. DOMAIN input = QFields
    BY <2>2 DEF QueueInv, Holds, BuffersOk
  <2>4. /\ DOMAIN input' = DOMAIN input /\ input'.bufs = input.bufs /\ input'.used = input.used
        /\ input'.mem = input.mem /\ input'.tot = input.tot
        /\ input'.no_writer = input.no_writer /\ input'.no_reader = TRUE
    BY <1>2, <2>3 DEF disconnect_queue_reader, cond_signal, QFields
  <2>5. Types'
    BY <1>1, <1>2, <2>1 DEF Types, InOrder, MainPc
  <2>6. Receiving'
    <3>1. PutIn' = PutIn
      BY <1>2 DEF PutIn
    <3>2. QueueInv(input', main.area, Len(main.seen), recvr.area, PutIn)
      BY <2>2, <2>4, ToldHolds
    <3> QED
      BY <1>1, <1>2, <2>1, <2>4, <3>1, <3>2 DEF Receiving, Filled
  <2>7. Printing'
    BY <1>1, <1>2, <2>1, <2>2 DEF Printing
  <2>8. Endings'
    BY <1>1, <1>2, <2>1, <2>4 DEF Endings
  <2> QED
    BY <2>5, <2>6, <2>7, <2>8 DEF EInv
<1>3. CASE main.pc = "join" /\ recvr.pc = "done" /\ Goes(IF main.res = "stopped" THEN "footer" ELSE "finish")
  <2>1. main.out.size = 0
    BY <1>3, NothingOut
  <2>2. CASE main.res = "stopped"
    BY <1>3, <2>1, <2>2, GoesStep DEF MainPc
  <2>3. CASE main.res # "stopped"
    BY <1>3, <2>1, <2>3, GoesStep DEF MainPc
  <2> QED
    BY <2>2, <2>3
<1> QED
  BY <1>2, <1>3 DEF Return

\* The footer is printed.
LEMMA FooterStep == QueueConstants /\ EInv /\ Footer => EInv'
<1> SUFFICES ASSUME QueueConstants, EInv, Footer PROVE EInv'
  OBVIOUS
<1>1. CASE main.pc = "footer" /\ Prints(2, "finish")
  BY <1>1, PrintsStep DEF Continues
<1>2. CASE error_msg("divided by zero")
  BY <1>2, ErrorStep
<1> QED
  BY <1>1, <1>2 DEF Footer

\* The main thread tells the output thread that there is no more.
LEMMA FinishStep == EInv /\ Finish => EInv'
<1> SUFFICES ASSUME EInv, Finish PROVE EInv'
  OBVIOUS
<1>1. /\ main.pc = "finish" /\ Types /\ Receiving /\ Printing /\ Endings /\ main.out.size = 0
      /\ UNCHANGED <<input, peer, errno, recvr, writer, file, ended>>
  BY NothingOut DEF Finish, EInv
<1>2. /\ DOMAIN main' = DOMAIN main /\ main'.out = main.out /\ main'.area = main.area
      /\ main'.lines = main.lines /\ main'.seen = main.seen
      /\ main'.pc = "last" /\ main'.res = main.res
  BY <1>1 DEF Types, Finish
<1>3. QueueInv(output, writer.area, Len(file), main.out, main.lines)
  BY <1>1 DEF Printing
<1>4. DOMAIN output = QFields
  BY <1>3 DEF QueueInv, Holds, BuffersOk
<1>5. /\ DOMAIN output' = DOMAIN output /\ output'.bufs = output.bufs /\ output'.used = output.used
      /\ output'.mem = output.mem /\ output'.tot = output.tot /\ output'.no_writer = TRUE
  BY <1>4 DEF Finish, disconnect_queue_writer, cond_signal, QFields
<1>6. Types'
  BY <1>1, <1>2 DEF Types, InOrder, MainPc
<1>7. Receiving'
  BY <1>1, <1>2 DEF Receiving, PutIn
<1>8. Printing'
  <2>1. QueueInv(output', writer.area, Len(file), main.out, main.lines)
    BY <1>3, <1>5, ToldHolds
  <2> QED
    BY <1>1, <1>2, <1>5, <2>1 DEF Printing
<1>9. Endings'
  BY <1>1, <1>2, <1>5 DEF Endings
<1> QED
  BY <1>6, <1>7, <1>8, <1>9 DEF EInv

\* The program ends when the output thread has.
LEMMA ExitStep == EInv /\ Exit => EInv'
<1> SUFFICES ASSUME EInv, Exit PROVE EInv'
  OBVIOUS
<1>1. /\ main.pc = "last" /\ writer.pc = "done" /\ ended' = main.res
      /\ Types /\ Receiving /\ Printing /\ Endings
      /\ UNCHANGED <<input, output, peer, errno, recvr, main, writer, file>>
  BY DEF Exit, error_msg, EInv
<1>2. Types'
  BY <1>1 DEF Types, InOrder
<1>3. Receiving'
  BY <1>1 DEF Receiving, PutIn
<1>4. Printing'
  BY <1>1 DEF Printing
<1>5. Endings'
  BY <1>1 DEF Endings
<1> QED
  BY <1>2, <1>3, <1>4, <1>5 DEF EInv

\* The emulator sends, or closes the connection.
LEMMA EmulatorStep == QueueConstants /\ EInv /\ Emulator => EInv'
<1> SUFFICES ASSUME QueueConstants, EInv, Emulator PROVE EInv'
  OBVIOUS
<1>1. /\ ~peer.closed /\ Types /\ Receiving /\ Printing /\ Endings
      /\ UNCHANGED <<input, output, errno, recvr, main, writer, file, ended>>
  BY DEF Emulator, EInv
<1>2. /\ DOMAIN peer' = {"sent", "got", "closed"} /\ peer'.got = peer.got
      /\ peer'.sent \in Nat /\ peer'.closed \in BOOLEAN
      /\ peer'.got <= peer'.sent /\ peer'.sent <= Trace
  <2>1. /\ DOMAIN peer = {"sent", "got", "closed"} /\ peer.sent \in Nat /\ peer.got \in Nat
        /\ peer.got <= peer.sent /\ peer.sent <= Trace /\ Trace \in Nat
    BY <1>1 DEF Types, QueueConstants
  <2>2. CASE peer.sent < Trace /\ peer' = [peer EXCEPT !.sent = @ + 1]
    <3>1. /\ DOMAIN peer' = DOMAIN peer /\ peer'.got = peer.got /\ peer'.sent = peer.sent + 1
          /\ peer'.closed = peer.closed
      BY <2>1, <2>2
    <3>2. peer.closed \in BOOLEAN
      BY <1>1 DEF Types
    <3> QED
      BY <2>1, <2>2, <3>1, <3>2
  <2>3. CASE peer.sent > 0 /\ peer' = [peer EXCEPT !.closed = TRUE]
    BY <2>1, <2>3
  <2> QED
    BY <2>2, <2>3 DEF Emulator
<1>3. Types'
  BY <1>1, <1>2 DEF Types, InOrder
<1>4. Receiving'
  BY <1>1, <1>2 DEF Receiving, PutIn
<1>5. Printing'
  BY <1>1 DEF Printing
<1>6. Endings'
  BY <1>1, <1>2 DEF Endings
<1> QED
  BY <1>3, <1>4, <1>5, <1>6 DEF EInv

-----------------------------------------------------------------------------
(* The invariant, and what follows from it.                                *)

\* An empty queue holds nothing.
LEMMA InitQueueHolds ==
    ASSUME QueueConstants
    PROVE  QueueInv(init_queue, NoArea, 0, NoArea, 0) /\ init_queue.bufs = <<>> /\ init_queue.tot = 0
<1> DEFINE q == init_queue
<1>1. /\ DOMAIN q = QFields /\ q.bufs = <<>> /\ q.used = {} /\ q.tot = 0
      /\ q.mem = [i \in {1, 2} |-> [k \in 1..BufSize |-> 0]]
  BY DEF init_queue, QFields
<1> HIDE DEF q
<1>2. q.bufs \in Seq(Buffer) /\ Len(q.bufs) = 0 /\ DOMAIN q.bufs = {} /\ 1..Len(q.bufs) = {}
  <2>1. <<>> \in Seq(Buffer) /\ Len(<<>>) = 0 /\ DOMAIN <<>> = {} /\ 1..0 = {}
    BY EmptySeq, LenProperties
  <2> QED
    BY <1>1, <2>1
<1>3. BuffersOk(q)
  BY <1>1, <1>2, FS_EmptySet DEF BuffersOk
<1>4. MemoryOk(q)
  BY <1>1, <1>2 DEF MemoryOk
<1>5. NoArea \in Area /\ NoArea.size = 0
  BY DEF NoArea, Area
<1>6. Holds(q, 0, 0)
  <2>1. <<>> \in Seq(Int) /\ Len(<<>>) = 0
    BY EmptySeq
  <2>2. Contents(q, <<>>)
    BY <1>2 DEF Contents
  <2>3. Positions(q, <<>>, 0, 0)
    BY <1>1, <1>2 DEF Positions
  <2> QED
    BY <1>2, <1>3, <1>4, <2>1, <2>2, <2>3 DEF Holds
<1>7. Reading(q, NoArea, 0) /\ Writing(q, NoArea)
  BY <1>5 DEF Reading, Writing
<1> QED
  BY <1>1, <1>5, <1>6, <1>7 DEF QueueInv, q

\* The program starts with nothing in its queues.
LEMMA InitStep == QueueConstants /\ QInit => EInv
<1> SUFFICES ASSUME QueueConstants, QInit PROVE EInv
  OBVIOUS
<1>1. NoArea \in Area /\ NoArea.size = 0
  BY DEF NoArea, Area
<1>2. /\ QueueInv(input, NoArea, 0, NoArea, 0) /\ input.bufs = <<>> /\ input.tot = 0
      /\ QueueInv(output, NoArea, 0, NoArea, 0) /\ output.bufs = <<>> /\ output.tot = 0
  BY InitQueueHolds DEF QInit
<1>3. /\ ~input.no_reader /\ ~input.no_writer /\ ~output.no_writer
  BY DEF QInit, init_queue
<1>4. <<>> \in Seq(Nat) /\ Len(<<>>) = 0 /\ <<>> = Counted(0)
  <2>1. <<>> \in Seq(Nat) /\ Len(<<>>) = 0
    BY EmptySeq
  <2>2. Counted(0) = [i \in {} |-> i]
    BY DEF Counted
  <2>3. DOMAIN <<>> = {}
    BY <2>1, LenProperties
  <2>4. <<>> = [i \in {} |-> i]
    BY EmptySeq, SeqDef
  <2> QED
    BY <2>1, <2>2, <2>4
<1>5. /\ main.pc = "address" /\ main.area = NoArea /\ main.out = NoArea /\ main.lines = 0
      /\ main.seen = <<>> /\ main.res = NULL
      /\ DOMAIN main = {"pc", "area", "out", "lines", "seen", "res"}
      /\ recvr.pc = "none" /\ recvr.area = NoArea /\ DOMAIN recvr = {"pc", "area"}
      /\ writer.pc = "area" /\ writer.area = NoArea /\ DOMAIN writer = {"pc", "area"}
      /\ peer.sent = 0 /\ peer.got = 0 /\ peer.closed = FALSE
      /\ DOMAIN peer = {"sent", "got", "closed"} /\ file = <<>> /\ ended = NULL /\ errno = NULL
  BY DEF QInit
<1>6. NULL \notin {"stopped", "truncated", "bad", "lost"} /\ Trace \in Nat /\ MaxBuf \in Nat
  BY DEF QueueConstants
<1>7. Types
  <2>1. InOrder
    BY <1>4, <1>5 DEF InOrder
  <2>2. main.seen \in Seq(Nat) /\ file \in Seq(Nat) /\ main.lines \in Nat
    BY <1>4, <1>5
  <2>3. peer.sent \in Nat /\ peer.got \in Nat /\ peer.closed \in BOOLEAN
        /\ peer.got <= peer.sent /\ peer.sent <= Trace
    <3>1. peer.closed \in BOOLEAN
      BY <1>5, Zenon
    <3> QED
      BY <1>5, <1>6, <3>1
  <2>4. main.pc \in MainPc
    BY <1>5 DEF MainPc
  <2> QED
    BY <1>5, <2>1, <2>2, <2>3, <2>4 DEF Types
<1>8. Receiving
  BY <1>1, <1>2, <1>4, <1>5, <1>6 DEF Receiving, PutIn
<1>9. Printing
  BY <1>1, <1>2, <1>4, <1>5, <1>6 DEF Printing
<1>10. Endings
  BY <1>3, <1>5, <1>6 DEF Endings
<1> QED
  BY <1>7, <1>8, <1>9, <1>10 DEF EInv

LEMMA EInvStep == QueueConstants /\ EInv /\ [QNext]_qvars => EInv'
<1> SUFFICES ASSUME QueueConstants, EInv, [QNext]_qvars PROVE EInv'
  OBVIOUS
<1>1. CASE input_thread_func
  BY <1>1, InputAreaStep, CheckReaderStep, RecvStep, StopReceivingStep DEF input_thread_func
<1>2. CASE output_thread_func
  BY <1>2, OutputAreaStep, WriteStep DEF output_thread_func
<1>3. CASE MainThread
  BY <1>3, InitConnectionStep, CreateInputStep, ReadTraceStep, ParseStep, PrintParsedStep,
     ReturnStep, FooterStep, FinishStep, ExitStep DEF MainThread, process_trace
<1>4. CASE Emulator
  BY <1>4, EmulatorStep
<1>5. CASE UNCHANGED qvars
  <2>1. UNCHANGED <<input, output, peer, errno, recvr, main, writer, file, ended>>
    BY <1>5 DEF qvars
  <2>2. Types'
    BY <2>1 DEF EInv, Types, InOrder
  <2>3. Receiving'
    BY <2>1 DEF EInv, Receiving, PutIn
  <2>4. Printing'
    BY <2>1 DEF EInv, Printing
  <2>5. Endings'
    BY <2>1 DEF EInv, Endings
  <2> QED
    BY <2>2, <2>3, <2>4, <2>5 DEF EInv
<1> QED
  BY <1>1, <1>2, <1>3, <1>4, <1>5 DEF QNext

\* There is never a second buffer to drop.
LEMMA OneIsDropped == ASSUME QueueConstants, NEW q, BuffersOk(q) PROVE OneToDrop(q)
<1> SUFFICES ASSUME Len(q.bufs) > 1, IsRead(q.bufs[2]) PROVE FALSE
  BY DEF OneToDrop
<1> DEFINE m == Len(q.bufs)
           b == q.bufs[2]
<1>1. m \in Nat /\ m > 1 /\ 2 \in 1..m
  BY BufferFacts
<1>2. b.data \in Nat /\ b.data_end \in Nat /\ b.end \in Nat /\ b.write \in BOOLEAN
  BY <1>1, BufferFacts
<1>3. /\ b.data = 0 /\ BufSize <= b.end /\ (b.write <=> 2 = m) /\ (2 < m => b.data_end > 0)
  <2>1. \A i \in 1..m :
           /\ BufSize <= q.bufs[i].end
           /\ q.bufs[i].write <=> i = m
           /\ i < m => q.bufs[i].data_end > 0
           /\ i > 1 => q.bufs[i].data = 0
    BY DEF BuffersOk
  <2>2. 2 \in 1..m /\ 2 > 1
    BY <1>1
  <2> HIDE DEF m
  <2> QED
    BY <2>1, <2>2
<1>4. b.data = b.data_end /\ (~b.write \/ b.data = b.end)
  BY DEF IsRead
<1>5. BufSize \in Nat \ {0}
  BY DEF QueueConstants
<1> HIDE DEF m, b
<1>6. b.data_end = 0 /\ 2 = m
  BY <1>1, <1>3, <1>4
<1> QED
  BY <1>2, <1>3, <1>4, <1>5, <1>6

\* A writer at the end of the last buffer and a reader in the first are apart.
LEMMA Apart ==
    ASSUME NEW q, NEW r, NEW n, NEW w, NEW put, QueueInv(q, r, n, w, put),
           r.size > 0, w.size > 0, r.id = w.id
    PROVE  r.at + r.size <= w.at
<1>1. /\ BuffersOk(q) /\ q.bufs # <<>> /\ r.id = q.bufs[1].id /\ r.at + r.size = q.bufs[1].data
      /\ w.id = q.bufs[Len(q.bufs)].id /\ w.at = q.bufs[Len(q.bufs)].data_end
  BY DEF QueueInv, Holds, Reading, Writing
<1>2. Len(q.bufs) \in 1..Len(q.bufs) /\ 1 \in 1..Len(q.bufs)
  BY <1>1, BufferFacts
<1>3. 1 = Len(q.bufs) /\ q.bufs[1].data <= q.bufs[1].data_end
  BY <1>1, <1>2, ZenonT(60) DEF BuffersOk
<1> QED
  BY <1>1, <1>3

\* The invariant implies what the run checks.
LEMMA EInvSound == QueueConstants /\ EInv => QueuesSound
<1> SUFFICES ASSUME QueueConstants, EInv PROVE QueuesSound
  OBVIOUS
<1>1. /\ Types /\ Receiving /\ Printing /\ Endings
      /\ BuffersOk(input) /\ BuffersOk(output)
  BY DEF EInv, Receiving, Printing, QueueInv, Holds
<1>2. QTypeOK
  <2>1. ASSUME NEW q, BuffersOk(q)
        PROVE  /\ q.used = {q.bufs[i].id : i \in DOMAIN q.bufs}
               /\ \A i \in DOMAIN q.bufs : q.bufs[i].data <= q.bufs[i].data_end
                                           /\ q.bufs[i].data_end <= q.bufs[i].end
    BY <2>1, BufferFacts DEF BuffersOk
  <2>2. OneToDrop(input) /\ OneToDrop(output)
    BY <1>1, OneIsDropped
  <2>3. \A q \in {input, output} :
          /\ q.used = {q.bufs[i].id : i \in DOMAIN q.bufs}
          /\ \A i \in DOMAIN q.bufs : q.bufs[i].data <= q.bufs[i].data_end
                                      /\ q.bufs[i].data_end <= q.bufs[i].end
    BY <1>1, <2>1, Zenon
  <2>4. /\ recvr.pc \in {"none", "area", "check", "recv", "stop", "done"}
        /\ peer.got <= peer.sent /\ peer.sent <= Trace
    BY <1>1 DEF Types
  <2> QED
    BY <2>2, <2>3, <2>4, Zenon DEF QTypeOK
<1>3. InOrder
  BY <1>1 DEF Types
<1>4. AllWritten
  BY <1>1, <1>3 DEF AllWritten, Endings, InOrder
<1>5. AreasApart
  <2>1. recvr.pc \in {"check", "recv"} => recvr.area.size > 0
    BY <1>1 DEF Receiving
  <2>2. writer.pc = "write" => writer.area.size > 0
    BY <1>1 DEF Printing
  <2>3. /\ QueueInv(input, main.area, Len(main.seen), recvr.area, PutIn)
        /\ QueueInv(output, writer.area, Len(file), main.out, main.lines)
    BY <1>1 DEF Receiving, Printing
  <2> QED
    BY <2>1, <2>2, <2>3, Apart DEF AreasApart
<1>6. QueuesBounded
  BY <1>1 DEF QueuesBounded, Receiving, Printing
<1> QED
  BY <1>2, <1>3, <1>4, <1>5, <1>6 DEF QueuesSound

\* The invariant of the queues and the threads.
THEOREM QueueInvariant == QSpec => []EInv
<1>1. QInit => EInv
  BY QueueConstants, InitStep
<1>2. EInv /\ [QNext]_qvars => EInv'
  BY QueueConstants, EInvStep
<1> QED
  BY <1>1, <1>2, PTL DEF QSpec

\* The queues hand over everything, once and in order, within their bounds, and no
\* two threads use the same place, for traces, buffers and limits of any size.
THEOREM QueuesAreSound == QSpec => []QueuesSound
<1>1. EInv => QueuesSound
  BY QueueConstants, EInvSound
<1> QED
  BY <1>1, QueueInvariant, PTL
=============================================================================
