--------------------------- MODULE EiMessagesProofs ---------------------------
(***************************************************************************)
(* What a program may rely on when it reads messages, for any number of    *)
(* calls, messages and ticks: it stays in step with the stream, answers    *)
(* every tick, takes the answer to its only call for that call, and passes *)
(* on the token of the message it received last.                           *)
(***************************************************************************)
EXTENDS EiMessages, FiniteSetTheorems, FunctionTheorems, SequenceTheorems, TLAPS

-----------------------------------------------------------------------------
(* The invariant.                                                          *)

Part == {"len", "head", "rest"}
Kind == {"tick", "send", "reg_send", "link", "unlink", "exit", "other"}
Answered == {"answer", "registered", "unregistered", "found", "names"}
Boundary == {"idle", "len", "rawlen", "select"}

Message == [kind : Kind, size : {"small", "long", "huge"}, traced : BOOLEAN,
            answers : 0..MaxRequests, ok : BOOLEAN]

Chunk == Part \X Message

Call == [op : {"none", "receive", "raw", "rpc", "register", "unregister", "whereis", "names"},
         pc : Boundary \cup {"head", "rest", "drain", "rawhead"},
         static : BOOLEAN, timed : BOOLEAN, id : 0..MaxRequests, need : BOOLEAN,
         msg : Message \cup {NULL},
         ret : Kind \cup Answered \cup {"error", "timeout", "sent", NULL}]

\* What the program has still to read, if the connection lasts.
Flow == stream \o wire

\* The types of all variables; the node owes answers only to calls that were made,
\* and one to each.
Types ==
    /\ stream \in Seq(Chunk) /\ wire \in Seq(Chunk)
    /\ up \in BOOLEAN /\ tracing \in BOOLEAN /\ slipped \in BOOLEAN
    /\ req \in Call /\ out \in [tocks : Nat, token : BOOLEAN]
    /\ pending \in Seq(1..MaxRequests) /\ IsInjective(pending)
    /\ \A i \in DOMAIN pending : pending[i] <= done
    /\ done \in 0..MaxRequests /\ sent \in 0..MaxSent /\ ticks \in Nat

\* The ticks under way are at most those sent and not read.
TickChunk == <<"len", Tick>>
TicksIn(s) == Cardinality({i \in 1..Len(s) : s[i] = TickChunk})
Ticked == ticks + TicksIn(Flow) <= sent

\* The chunks of a message follow one another, and nothing comes between them.
Ends(c) ==
    \/ c[1] = "len" /\ c[2] = Tick
    \/ c[1] = "head" /\ c[2].size # "huge"
    \/ c[1] = "rest"

Follows(c, d) ==
    /\ d[1] = "len" => Ends(c)
    /\ d[1] = "head" => c = <<"len", d[2]>> /\ d[2] # Tick
    /\ d[1] = "rest" => c = <<"head", d[2]>> /\ d[2].size = "huge"

InOrder(s) == \A i \in 2..Len(s) : Follows(s[i - 1], s[i])
Complete(s) == s # <<>> => Ends(s[Len(s)])

\* A node that is there has written its last message to the end.
Framed == InOrder(Flow) /\ (up => Complete(Flow))

\* What the reader waits for is what comes next; between two messages this holds
\* as long as no read has stopped inside one.
InStep ==
    /\ Flow # <<>> =>
         /\ req.pc \in {"head", "rawhead"} => Flow[1][1] = "head"
         /\ req.pc = "rawhead" => Flow[1][2].size = "small"
         /\ req.pc \in {"rest", "drain"} => Flow[1][1] = "rest"
         /\ req.pc \in Boundary /\ ~slipped => Flow[1][1] = "len"
    /\ up /\ req.pc \notin Boundary => Flow # <<>>

\* The token is that of the message that is being read, or was received last.
Traced ==
    /\ req.pc = "head" => ~tracing
    /\ req.pc = "rest" /\ Flow # <<>> => tracing = Flow[1][2].traced
    /\ req.msg # NULL => req.pc = "idle" /\ tracing = req.msg.traced
    /\ req.ret = "sent" => req.msg = NULL
    /\ req.pc # "idle" => req.ret = NULL

\* On a connection that has carried the answer to one call and nothing else, a
\* message is that answer or one that global's link or unlink makes.
FirstAnswer ==
    /\ done = 0 => pending = <<>> /\ req.pc = "idle" /\ req.ret \notin Answered
    /\ sent = 0 /\ done = 0 => Flow = <<>>
    /\ sent = 0 /\ done <= 1 =>
         /\ \A i \in 1..Len(Flow) : Flow[i][2].kind = "send" => Flow[i][2].answers = 1
         /\ req.op = "rpc" => \A i \in 1..Len(Flow) : Flow[i][2].kind = "send"
         /\ req.ret \in Answered =>
              req.msg.answers = 1 /\ (req.ret # "answer" => req.msg.ok)

MInv == Types /\ TicksAnswered /\ Ticked /\ Framed /\ InStep /\ Traced /\ FirstAnswer

-----------------------------------------------------------------------------
(* Sequences of chunks.                                                    *)

\* Reading the first part of two leaves the rest of both.
LEMMA TailOfBoth ==
    ASSUME NEW S, NEW s \in Seq(S), NEW t \in Seq(S), s # <<>>
    PROVE  /\ s \o t \in Seq(S) /\ s \o t # <<>> /\ (s \o t)[1] = Head(s)
           /\ Tail(s) \o t = Tail(s \o t)
<1>1. /\ Len(s) \in Nat \ {0} /\ Len(t) \in Nat /\ s \o t \in Seq(S)
      /\ Len(s \o t) = Len(s) + Len(t)
  OBVIOUS
<1>2. (s \o t)[1] = Head(s)
  BY <1>1
<1>3. Tail(s) \in Seq(S) /\ Len(Tail(s)) = Len(s) - 1
  OBVIOUS
<1>4. Len(Tail(s) \o t) = Len(Tail(s \o t))
  BY <1>1, <1>3
<1>5. ASSUME NEW i \in 1..Len(Tail(s) \o t)
      PROVE  (Tail(s) \o t)[i] = Tail(s \o t)[i]
  BY <1>1, <1>3
<1> QED
  BY <1>1, <1>2, <1>3, <1>4, <1>5, SeqEqual

\* What arrives moves from one to the other.
LEMMA MovedOver ==
    ASSUME NEW S, NEW s \in Seq(S), NEW t \in Seq(S), t # <<>>
    PROVE  Append(s, Head(t)) \o Tail(t) = s \o t
<1>1. /\ Len(t) \in Nat \ {0} /\ Len(s) \in Nat /\ s \o t \in Seq(S)
      /\ Len(s \o t) = Len(s) + Len(t) /\ Head(t) \in S
  OBVIOUS
<1>2. Tail(t) \in Seq(S) /\ Len(Tail(t)) = Len(t) - 1
  OBVIOUS
<1>3. Append(s, Head(t)) \in Seq(S) /\ Len(Append(s, Head(t))) = Len(s) + 1
  BY <1>1
<1>4. Len(Append(s, Head(t)) \o Tail(t)) = Len(s \o t)
  BY <1>1, <1>2, <1>3
<1>5. ASSUME NEW i \in 1..Len(Append(s, Head(t)) \o Tail(t))
      PROVE  (Append(s, Head(t)) \o Tail(t))[i] = (s \o t)[i]
  BY <1>1, <1>2, <1>3
<1> QED
  BY <1>1, <1>2, <1>3, <1>4, <1>5, SeqEqual

-----------------------------------------------------------------------------
(* The ticks in a sequence.                                                *)

LEMMA TicksFinite ==
    ASSUME NEW s \in Seq(Chunk)
    PROVE  IsFiniteSet({i \in 1..Len(s) : s[i] = TickChunk}) /\ TicksIn(s) \in Nat
<1>1. IsFiniteSet(1..Len(s))
  BY FS_Interval
<1>2. IsFiniteSet({i \in 1..Len(s) : s[i] = TickChunk})
  BY <1>1, FS_Subset, {i \in 1..Len(s) : s[i] = TickChunk} \subseteq 1..Len(s)
<1> QED
  BY <1>2, FS_CardinalityType DEF TicksIn

LEMMA TicksEmpty == TicksIn(<<>>) = 0
<1>1. {i \in 1..Len(<<>>) : <<>>[i] = TickChunk} = {}
  OBVIOUS
<1> QED
  BY <1>1, FS_EmptySet DEF TicksIn

LEMMA TicksAppend ==
    ASSUME NEW s \in Seq(Chunk), NEW c \in Chunk
    PROVE  TicksIn(Append(s, c)) = TicksIn(s) + (IF c = TickChunk THEN 1 ELSE 0)
<1> DEFINE A == {i \in 1..Len(s) : s[i] = TickChunk}
           B == {i \in 1..Len(Append(s, c)) : Append(s, c)[i] = TickChunk}
<1>1. IsFiniteSet(A) /\ TicksIn(s) = Cardinality(A) /\ Cardinality(A) \in Nat
  BY TicksFinite DEF TicksIn
<1>2. Len(s) \in Nat /\ Len(Append(s, c)) = Len(s) + 1
  OBVIOUS
<1>3. \A i \in 1..Len(s) + 1 : Append(s, c)[i] = IF i = Len(s) + 1 THEN c ELSE s[i]
  OBVIOUS
<1>4. B = IF c = TickChunk THEN A \cup {Len(s) + 1} ELSE A
  BY <1>2, <1>3
<1>5. Len(s) + 1 \notin A
  BY <1>2
<1>6. TicksIn(Append(s, c)) = Cardinality(B)
  BY DEF TicksIn
<1> HIDE DEF A, B
<1>7. CASE c = TickChunk
  <2>1. Cardinality(B) = Cardinality(A) + 1
    BY <1>1, <1>4, <1>5, <1>7, FS_AddElement
  <2> QED
    BY <1>1, <1>6, <1>7, <2>1
<1>8. CASE c # TickChunk
  BY <1>1, <1>4, <1>6, <1>8
<1> QED
  BY <1>7, <1>8

\* The indices of the rest are those of the whole, less one.
LEMMA TicksTail ==
    ASSUME NEW s \in Seq(Chunk), s # <<>>
    PROVE  TicksIn(s) = TicksIn(Tail(s)) + (IF Head(s) = TickChunk THEN 1 ELSE 0)
<1> DEFINE A == {i \in 1..Len(s) : s[i] = TickChunk}
           B == {i \in 1..Len(Tail(s)) : Tail(s)[i] = TickChunk}
           C == A \ {1}
           f == [i \in B |-> i + 1]
<1>1. /\ Len(s) \in Nat \ {0} /\ Tail(s) \in Seq(Chunk) /\ Len(Tail(s)) = Len(s) - 1
      /\ Head(s) = s[1] /\ \A i \in 1..Len(s) - 1 : Tail(s)[i] = s[i + 1]
  OBVIOUS
<1>2. IsFiniteSet(A) /\ IsFiniteSet(B) /\ TicksIn(s) = Cardinality(A)
  BY <1>1, TicksFinite DEF TicksIn
<1>3. TicksIn(Tail(s)) = Cardinality(B) /\ Cardinality(B) \in Nat
  BY <1>2, FS_CardinalityType DEF TicksIn
<1>4. f \in Bijection(B, C)
  <2>1. \A i \in B : i \in Nat /\ i + 1 \in C
    BY <1>1
  <2>2. \A j \in C : j - 1 \in B /\ j = (j - 1) + 1
    BY <1>1
  <2>3. f \in [B -> C]
    BY <2>1
  <2>4. \A j \in C : \E i \in B : f[i] = j
    BY <2>2
  <2>5. \A i, j \in B : f[i] = f[j] => i = j
    BY <2>1
  <2> HIDE DEF f, B, C
  <2> QED
    BY <2>3, <2>4, <2>5, Fun_IsBij
<1>5. Cardinality(C) = Cardinality(B)
  <2>1. IsFiniteSet(C)
    BY <1>2, FS_Subset
  <2> HIDE DEF B, C, f
  <2> QED
    BY <1>2, <1>4, <2>1, FS_Bijection DEF ExistsBijection
<1>6. CASE Head(s) = TickChunk
  <2>1. 1 \in A
    BY <1>1, <1>6
  <2>2. Cardinality(C) = Cardinality(A) - 1
    BY <1>2, <2>1, FS_RemoveElement
  <2>3. Cardinality(A) \in Nat
    BY <1>2, FS_CardinalityType
  <2> HIDE DEF A, B, C
  <2> QED
    BY <1>2, <1>3, <1>5, <1>6, <2>2, <2>3
<1>7. CASE Head(s) # TickChunk
  <2>1. C = A
    BY <1>1, <1>7
  <2> HIDE DEF A, B, C
  <2> QED
    BY <1>2, <1>3, <1>5, <1>7, <2>1
<1> QED
  BY <1>6, <1>7

\* A part holds no more of them than the whole.
LEMMA TicksPart ==
    ASSUME NEW s \in Seq(Chunk), NEW t \in Seq(Chunk)
    PROVE  TicksIn(s) <= TicksIn(s \o t)
<1> DEFINE A == {i \in 1..Len(s) : s[i] = TickChunk}
           B == {i \in 1..Len(s \o t) : (s \o t)[i] = TickChunk}
<1>1. s \o t \in Seq(Chunk) /\ A \subseteq B
  OBVIOUS
<1>2. IsFiniteSet(B) /\ TicksIn(s) = Cardinality(A) /\ TicksIn(s \o t) = Cardinality(B)
  BY <1>1, TicksFinite DEF TicksIn
<1> HIDE DEF A, B
<1> QED
  BY <1>1, <1>2, FS_Subset

-----------------------------------------------------------------------------
(* The order of chunks.                                                    *)

LEMMA InOrderAppend ==
    ASSUME NEW s \in Seq(Chunk), InOrder(s), NEW c \in Chunk,
           s # <<>> => Follows(s[Len(s)], c)
    PROVE  InOrder(Append(s, c))
<1>1. /\ Len(s) \in Nat /\ Len(Append(s, c)) = Len(s) + 1
      /\ \A i \in 1..Len(s) : Append(s, c)[i] = s[i]
      /\ Append(s, c)[Len(s) + 1] = c
  OBVIOUS
<1> SUFFICES ASSUME NEW i \in 2..(Len(s) + 1)
             PROVE  Follows(Append(s, c)[i - 1], Append(s, c)[i])
  BY <1>1 DEF InOrder
<1>2. CASE i = Len(s) + 1
  <2>1. s # <<>> /\ Append(s, c)[i - 1] = s[Len(s)] /\ Append(s, c)[i] = c
    BY <1>1, <1>2
  <2> QED
    BY <2>1
<1>3. CASE i \in 2..Len(s)
  <2>1. Append(s, c)[i - 1] = s[i - 1] /\ Append(s, c)[i] = s[i]
    BY <1>1, <1>3
  <2> QED
    BY <1>3, <2>1 DEF InOrder
<1> QED
  BY <1>1, <1>2, <1>3

LEMMA InOrderTail ==
    ASSUME NEW s \in Seq(Chunk), s # <<>>, InOrder(s)
    PROVE  /\ InOrder(Tail(s))
           /\ Tail(s) # <<>> => Follows(Head(s), Tail(s)[1])
           /\ Complete(s) => Complete(Tail(s)) /\ (Tail(s) = <<>> => Ends(Head(s)))
<1>1. /\ Len(s) \in Nat \ {0} /\ Tail(s) \in Seq(Chunk) /\ Len(Tail(s)) = Len(s) - 1
      /\ Head(s) = s[1] /\ \A i \in 1..Len(s) - 1 : Tail(s)[i] = s[i + 1]
  OBVIOUS
<1>2. InOrder(Tail(s))
  <2> SUFFICES ASSUME NEW i \in 2..Len(s) - 1 PROVE Follows(Tail(s)[i - 1], Tail(s)[i])
    BY <1>1 DEF InOrder
  <2>1. Tail(s)[i - 1] = s[(i + 1) - 1] /\ Tail(s)[i] = s[i + 1] /\ i + 1 \in 2..Len(s)
    BY <1>1
  <2> QED
    BY <2>1 DEF InOrder
<1>3. ASSUME Tail(s) # <<>> PROVE Follows(Head(s), Tail(s)[1])
  <2>1. Len(s) >= 2
    BY <1>1, <1>3
  <2>2. Tail(s)[1] = s[2] /\ Head(s) = s[2 - 1] /\ 2 \in 2..Len(s)
    BY <1>1, <2>1
  <2> QED
    BY <2>2 DEF InOrder
<1>4. ASSUME Complete(s) PROVE Complete(Tail(s)) /\ (Tail(s) = <<>> => Ends(Head(s)))
  <2>1. Ends(s[Len(s)])
    BY <1>4 DEF Complete
  <2>2. CASE Len(s) = 1
    <3>1. Len(Tail(s)) = 0 /\ s[Len(s)] = Head(s)
      BY <1>1, <2>2
    <3>2. Tail(s) = <<>>
      BY <1>1, <3>1, EmptySeq
    <3> QED
      BY <2>1, <3>1, <3>2 DEF Complete
  <2>3. CASE Len(s) # 1
    <3>1. Len(Tail(s)) # 0 /\ Len(Tail(s)) \in 1..(Len(s) - 1) /\ Len(Tail(s)) + 1 = Len(s)
      BY <1>1, <2>3
    <3>2. Tail(s) # <<>>
      <4>1. Len(<<>>) = 0
        OBVIOUS
      <4> QED
        BY ONLY <3>1, <4>1, Zenon
    <3>3. Tail(s)[Len(Tail(s))] = s[Len(s)]
      BY <1>1, <3>1
    <3> QED
      BY <2>1, <3>2, <3>3 DEF Complete
  <2> QED
    BY <2>2, <2>3
<1> QED
  BY <1>2, <1>3, <1>4

LEMMA InOrderPart ==
    ASSUME NEW s \in Seq(Chunk), NEW t \in Seq(Chunk), InOrder(s \o t)
    PROVE  InOrder(s)
<1>1. \A i \in 1..Len(s) : (s \o t)[i] = s[i] /\ i \in 1..Len(s \o t)
  OBVIOUS
<1> SUFFICES ASSUME NEW i \in 2..Len(s) PROVE Follows(s[i - 1], s[i])
  BY DEF InOrder
<1>2. /\ i \in 2..Len(s \o t) /\ i - 1 \in 1..Len(s) /\ i \in 1..Len(s)
  BY <1>1
<1> QED
  BY <1>1, <1>2 DEF InOrder

\* What comes after the end of a message is the length of the next.
LEMMA AfterEnd ==
    ASSUME NEW c \in Chunk, NEW d \in Chunk, Ends(c), Follows(c, d)
    PROVE  d[1] = "len"
<1>1. d[1] \in Part
  BY DEF Chunk
<1>2. c[1] # d[1] \/ d[1] = "len"
  BY <1>1 DEF Ends, Follows, Part, Chunk
<1> QED
  BY <1>1, <1>2 DEF Ends, Follows, Part, Chunk

\* t is s with messages of M after it.
Longer(s, t, M) ==
    /\ t \in Seq(Chunk) /\ InOrder(t) /\ Complete(t) /\ Len(s) <= Len(t)
    /\ \A i \in 1..Len(s) : t[i] = s[i]
    /\ \A i \in 1..Len(t) : i > Len(s) => t[i][2] \in M
    /\ s = <<>> /\ t # <<>> => t[1][1] = "len"

LEMMA LongerTwice ==
    ASSUME NEW s \in Seq(Chunk), NEW t, NEW u, NEW M, NEW N,
           Longer(s, t, M), Longer(t, u, N)
    PROVE  Longer(s, u, M \cup N)
<1>1. t \in Seq(Chunk) /\ u \in Seq(Chunk) /\ Len(s) <= Len(t) /\ Len(t) <= Len(u)
  BY DEF Longer
<1>2. Len(s) \in Nat /\ Len(t) \in Nat /\ Len(u) \in Nat
  BY <1>1
<1>3. \A i \in 1..Len(s) : u[i] = s[i]
  BY <1>1, <1>2 DEF Longer
<1>4. ASSUME NEW i \in 1..Len(u), i > Len(s) PROVE u[i][2] \in M \cup N
  <2>1. CASE i > Len(t)
    BY <2>1 DEF Longer
  <2>2. CASE i <= Len(t)
    <3>1. i \in 1..Len(t)
      BY <1>2, <2>2
    <3> QED
      BY <1>4, <3>1 DEF Longer
  <2> QED
    BY <1>2, <2>1, <2>2
<1>5. ASSUME s = <<>>, u # <<>> PROVE u[1][1] = "len"
  <2>1. CASE t = <<>>
    BY <1>5, <2>1 DEF Longer
  <2>2. CASE t # <<>>
    <3>1. 1 \in 1..Len(t)
      BY <1>1, <2>2
    <3> QED
      BY <1>5, <2>2, <3>1 DEF Longer
  <2> QED
    BY <2>1, <2>2
<1> QED
  BY <1>1, <1>2, <1>3, <1>4, <1>5 DEF Longer

LEMMA OneMore ==
    ASSUME NEW s \in Seq(Chunk), InOrder(s), NEW c \in Chunk,
           s # <<>> => Follows(s[Len(s)], c)
    PROVE  LET t == Append(s, c)
           IN  /\ t \in Seq(Chunk) /\ InOrder(t) /\ t # <<>> /\ Len(t) = Len(s) + 1 /\ t[Len(t)] = c
               /\ \A i \in 1..Len(s) : t[i] = s[i]
BY InOrderAppend

\* A message that is sent as a whole comes after those that were.
LEMMA MessageSent ==
    ASSUME NEW s \in Seq(Chunk), InOrder(s), Complete(s), NEW m \in Message
    PROVE  /\ Chunks(m) \in Seq(Chunk)
           /\ Longer(s, s \o Chunks(m), {m})
           /\ TicksIn(s \o Chunks(m)) = TicksIn(s) + (IF m = Tick THEN 1 ELSE 0)
<1> DEFINE l == <<"len", m>>
           h == <<"head", m>>
           r == <<"rest", m>>
           t == Append(s, l)
           u == Append(t, h)
           v == Append(u, r)
<1>1. l \in Chunk /\ h \in Chunk /\ r \in Chunk
  BY DEF Chunk, Part
<1>2. Len(s) \in Nat
  OBVIOUS
<1>3. s # <<>> => Follows(s[Len(s)], l)
  BY DEF Complete, Follows
<1>4. /\ t \in Seq(Chunk) /\ InOrder(t) /\ t # <<>> /\ Len(t) = Len(s) + 1 /\ t[Len(t)] = l
      /\ \A i \in 1..Len(s) : t[i] = s[i]
  BY <1>1, <1>3, OneMore
<1>5. TicksIn(t) = TicksIn(s) + (IF m = Tick THEN 1 ELSE 0)
  <2>1. l = TickChunk <=> m = Tick
    BY DEF TickChunk
  <2> HIDE DEF l
  <2> QED
    BY <1>1, <2>1, TicksAppend
<1>6. s = <<>> => t[1] = l
  BY <1>1
<1>7. CASE m = Tick
  <2>1. Chunks(m) = <<l>> /\ s \o Chunks(m) = t
    BY <1>7 DEF Chunks
  <2>2. Ends(l)
    BY <1>7 DEF Ends
  <2>3. \A i \in 1..Len(t) : i > Len(s) => t[i][2] \in {m}
    BY <1>2, <1>4
  <2>4. Complete(t)
    BY <1>4, <2>2 DEF Complete
  <2>5. Len(s) <= Len(t)
    BY <1>2, <1>4
  <2>6. Longer(s, t, {m})
    BY <1>4, <1>6, <2>3, <2>4, <2>5 DEF Longer
  <2>7. Chunks(m) \in Seq(Chunk)
    BY <1>1, <2>1
  <2> HIDE DEF t
  <2> QED
    BY <1>5, <2>1, <2>6, <2>7
<1>8. CASE m # Tick
  <2>1. Follows(t[Len(t)], h)
    BY <1>4, <1>8 DEF Follows
  <2>2. /\ u \in Seq(Chunk) /\ InOrder(u) /\ u # <<>> /\ Len(u) = Len(t) + 1 /\ u[Len(u)] = h
        /\ \A i \in 1..Len(t) : u[i] = t[i]
    <3> HIDE DEF t, h
    <3> QED
      BY <1>1, <1>4, <2>1, OneMore
  <2>3. TicksIn(u) = TicksIn(t)
    <3>1. h # TickChunk
      BY DEF TickChunk
    <3>2. TicksIn(t) \in Nat
      BY <1>4, TicksFinite
    <3> HIDE DEF h, t
    <3> QED
      BY <1>1, <1>4, <3>1, <3>2, TicksAppend
  <2>4. \A i \in 1..Len(s) : u[i] = s[i]
    BY <1>2, <1>4, <2>2
  <2>5. s = <<>> => u[1] = l
    BY <1>2, <1>4, <1>6, <2>2
  <2>6. \A i \in 1..Len(u) : i > Len(s) => u[i][2] = m
    <3>1. u[Len(s) + 1] = l /\ u[Len(s) + 2] = h /\ Len(u) = Len(s) + 2
      BY <1>2, <1>4, <2>2
    <3> QED
      BY <1>2, <3>1
  <2>7. CASE m.size # "huge"
    <3>1. Chunks(m) = <<l, h>> /\ s \o Chunks(m) = u
      BY <1>1, <1>8, <2>7 DEF Chunks
    <3>2. Complete(u)
      BY <2>2, <2>7 DEF Complete, Ends
    <3>3. Longer(s, u, {m})
      BY <1>2, <1>4, <2>2, <2>4, <2>5, <2>6, <3>2 DEF Longer
    <3>4. Chunks(m) \in Seq(Chunk)
      BY <1>1, <3>1
    <3> HIDE DEF t, u
    <3> QED
      BY <1>5, <2>3, <3>1, <3>3, <3>4
  <2>8. CASE m.size = "huge"
    <3>1. Chunks(m) = <<l, h>> \o <<r>> /\ Chunks(m) \in Seq(Chunk)
      BY <1>1, <1>8, <2>8 DEF Chunks
    <3>9. s \o Chunks(m) = v
      <4>1. <<l, h>> \in Seq(Chunk) /\ <<r>> \in Seq(Chunk)
        BY <1>1
      <4>2. s \o Chunks(m) = (s \o <<l, h>>) \o <<r>>
        BY <3>1, <4>1, ConcatAssociative
      <4>3. s \o <<l, h>> = u
        BY <1>1
      <4>4. u \o <<r>> = v
        BY <1>1, <2>2
      <4> QED
        BY <4>2, <4>3, <4>4
    <3>2. Follows(u[Len(u)], r)
      BY <2>2, <2>8 DEF Follows
    <3>3. /\ v \in Seq(Chunk) /\ InOrder(v) /\ v # <<>> /\ Len(v) = Len(u) + 1 /\ v[Len(v)] = r
          /\ \A i \in 1..Len(u) : v[i] = u[i]
      <4> HIDE DEF u, r
      <4> QED
        BY <1>1, <2>2, <3>2, OneMore
    <3>4. TicksIn(v) = TicksIn(u)
      <4>1. r # TickChunk
        BY DEF TickChunk
      <4>2. TicksIn(u) \in Nat
        BY <2>2, TicksFinite
      <4> HIDE DEF r, u
      <4> QED
        BY <1>1, <2>2, <4>1, <4>2, TicksAppend
    <3>5. Complete(v)
      BY <3>3 DEF Complete, Ends
    <3>6. \A i \in 1..Len(v) : i > Len(s) => v[i][2] = m
      BY <1>2, <1>4, <2>2, <2>6, <3>3
    <3>7. Longer(s, v, {m})
      <4>1. /\ Len(s) <= Len(v) /\ \A i \in 1..Len(s) : v[i] = s[i]
            /\ s = <<>> => v[1] = l
        BY <1>2, <1>4, <2>2, <2>4, <2>5, <3>3
      <4> QED
        BY <3>3, <3>5, <3>6, <4>1 DEF Longer
    <3> HIDE DEF t, u, v
    <3> QED
      BY <1>5, <2>3, <3>1, <3>4, <3>7, <3>9
  <2> QED
    BY <2>7, <2>8
<1> QED
  BY <1>7, <1>8

-----------------------------------------------------------------------------
(* Reading.                                                                *)

LEMMA FlowTypes ==
    ASSUME Types
    PROVE  Flow \in Seq(Chunk) /\ TicksIn(Flow) \in Nat
<1>1. Flow \in Seq(Chunk)
  BY DEF Types, Flow
<1> QED
  BY <1>1, TicksFinite

\* What a read of one chunk does to the flow.
LEMMA ChunkRead ==
    ASSUME MInv, stream # <<>>, stream' = Tail(stream), wire' = wire, up' = up
    PROVE  /\ Head(stream) \in Chunk /\ Flow # <<>> /\ Flow[1] = Head(stream)
           /\ stream' \in Seq(Chunk) /\ wire' \in Seq(Chunk) /\ Flow' \in Seq(Chunk)
           /\ Framed'
           /\ Flow' # <<>> => Follows(Head(stream), Flow'[1]) /\ Flow'[1] \in Chunk
           /\ up /\ Flow' = <<>> => Ends(Head(stream))
           /\ TicksIn(Flow') \in Nat
           /\ TicksIn(Flow) = TicksIn(Flow') + (IF Head(stream) = TickChunk THEN 1 ELSE 0)
           /\ 1 \in 1..Len(Flow)
           /\ \A i \in 1..Len(Flow') : i + 1 \in 1..Len(Flow) /\ Flow'[i] = Flow[i + 1]
<1>1. stream \in Seq(Chunk) /\ wire \in Seq(Chunk)
  BY DEF MInv, Types
<1>2. /\ Flow \in Seq(Chunk) /\ Flow # <<>> /\ Flow[1] = Head(stream)
      /\ Flow' = Tail(Flow)
  BY <1>1, TailOfBoth DEF Flow
<1>3. InOrder(Flow) /\ (up => Complete(Flow))
  BY DEF MInv, Framed
<1>4. /\ Len(Flow) \in Nat \ {0} /\ Tail(Flow) \in Seq(Chunk) /\ Len(Tail(Flow)) = Len(Flow) - 1
      /\ Head(Flow) = Flow[1] /\ \A i \in 1..Len(Flow) - 1 : Tail(Flow)[i] = Flow[i + 1]
      /\ Tail(Flow) # <<>> => Tail(Flow)[1] \in Chunk
  BY <1>2
<1>5. /\ InOrder(Tail(Flow))
      /\ Tail(Flow) # <<>> => Follows(Head(Flow), Tail(Flow)[1])
      /\ Complete(Flow) => Complete(Tail(Flow)) /\ (Tail(Flow) = <<>> => Ends(Head(Flow)))
  BY <1>2, <1>3, InOrderTail
<1>6. TicksIn(Flow) = TicksIn(Tail(Flow)) + (IF Head(Flow) = TickChunk THEN 1 ELSE 0)
  BY <1>2, TicksTail
<1>7. TicksIn(Tail(Flow)) \in Nat
  BY <1>4, TicksFinite
<1>8. Framed'
  BY <1>2, <1>3, <1>5 DEF Framed
<1>9. \A i \in 1..Len(Flow') : i + 1 \in 1..Len(Flow) /\ Flow'[i] = Flow[i + 1]
  BY <1>2, <1>4
<1>10. /\ Head(stream) \in Chunk /\ stream' \in Seq(Chunk) /\ wire' \in Seq(Chunk)
       /\ 1 \in 1..Len(Flow)
  BY <1>1, <1>4
<1> HIDE DEF Flow
<1> QED
  BY <1>2, <1>3, <1>4, <1>5, <1>6, <1>7, <1>8, <1>9, <1>10

\* How a call goes on that has received m, or nothing when m is NULL: it returns, or
\* it waits for the next message.
Outcome(q, m) ==
    /\ q \in Call
    /\ \/ q.pc = "len" /\ q.op = req.op /\ q.msg = NULL /\ q.ret = NULL
       \/ /\ q.pc = "idle" /\ q.op = "none" /\ q.ret # "sent"
          /\ \/ q.msg = NULL /\ q.ret \notin Answered
             \/ /\ q.msg = m
                /\ q.ret \in Answered =>
                     IF q.ret = "answer" THEN req.op = "rpc" ELSE m.kind = "send" /\ m.ok

LEMMA ReturnTypes ==
    ASSUME NEW r \in Kind \cup Answered \cup {"error", "timeout", "sent", NULL},
           NEW m \in Message \cup {NULL}
    PROVE  /\ NoReq(r, m) \in Call /\ NoReq(r, m).pc = "idle" /\ NoReq(r, m).op = "none"
           /\ NoReq(r, m).ret = r /\ NoReq(r, m).msg = m
BY MessageConstants DEF NoReq, Call, Boundary

LEMMA GoesOn ==
    ASSUME req \in Call, NEW b \in BOOLEAN, req.msg = NULL, req.ret = NULL,
           NEW m
    PROVE  /\ Outcome([req EXCEPT !.pc = "len"], m)
           /\ Outcome([req EXCEPT !.pc = "len", !.need = b], m)
BY DEF Outcome, Call, Boundary

LEMMA Returns ==
    ASSUME NEW r \in (Kind \cup Answered \cup {"error", "timeout"}), NEW m \in Message,
           r \in Answered => IF r = "answer" THEN req.op = "rpc" ELSE m.kind = "send" /\ m.ok
    PROVE  Outcome(NoReq(r, m), m)
<1>1. /\ NoReq(r, m) \in Call /\ NoReq(r, m).pc = "idle" /\ NoReq(r, m).op = "none"
      /\ NoReq(r, m).ret = r /\ NoReq(r, m).msg = m
  BY ReturnTypes
<1>2. r # "sent"
  BY DEF Kind, Answered
<1> QED
  BY <1>1, <1>2 DEF Outcome

LEMMA ReturnsNothing ==
    ASSUME NEW r \in Kind \cup {"error", "timeout"}, NEW m
    PROVE  Outcome(NoReq(r, NULL), m)
<1>1. /\ NoReq(r, NULL) \in Call /\ NoReq(r, NULL).pc = "idle" /\ NoReq(r, NULL).op = "none"
      /\ NoReq(r, NULL).ret = r /\ NoReq(r, NULL).msg = NULL
  BY ReturnTypes
<1>2. r \notin Answered \cup {"sent"}
  BY DEF Kind, Answered
<1> QED
  BY <1>1, <1>2 DEF Outcome

\* The functions that wait for messages: what they make of an error, of a tick and
\* of a message.
LEMMA AfterNothing ==
    ASSUME MInv, req.pc # "idle", NEW m, NEW r \in {"tick", "error"}
    PROVE  /\ Outcome(After(r, NULL), m) /\ After(r, NULL).msg = NULL
           /\ After(r, NULL).ret \notin Answered
<1>1. req \in Call /\ req.msg = NULL /\ req.ret = NULL
  BY DEF MInv, Types, Traced
<1>2. Outcome([req EXCEPT !.pc = "len"], m)
  BY <1>1, GoesOn
<1>3. Outcome(NoReq("error", NULL), m) /\ Outcome(NoReq("tick", NULL), m)
  BY ReturnsNothing DEF Kind
<1>4. After(r, NULL) \in {[req EXCEPT !.pc = "len"], NoReq("error", NULL), NoReq("tick", NULL)}
  BY DEF After, ei_rpc, erl_global_register, erl_global_unregister,
         erl_global_whereis, erl_global_names, ei_do_receive_msg
<1>5. /\ [req EXCEPT !.pc = "len"].msg = NULL /\ [req EXCEPT !.pc = "len"].ret = NULL
      /\ NoReq("error", NULL).msg = NULL /\ NoReq("error", NULL).ret = "error"
      /\ NoReq("tick", NULL).msg = NULL /\ NoReq("tick", NULL).ret = "tick"
  BY <1>1 DEF Call, NoReq
<1>6. NULL \notin Answered /\ "error" \notin Answered /\ "tick" \notin Answered
  BY MessageConstants DEF Answered
<1> HIDE DEF Outcome
<1> QED
  BY <1>2, <1>3, <1>4, <1>5, <1>6

LEMMA AfterMessage ==
    ASSUME MInv, req.pc # "idle", NEW m \in Message
    PROVE  Outcome(After(m.kind, m), m)
<1>1. req \in Call /\ req.msg = NULL /\ req.ret = NULL
  BY DEF MInv, Types, Traced
<1>2. /\ Outcome([req EXCEPT !.pc = "len"], m)
      /\ Outcome([req EXCEPT !.pc = "len", !.need = FALSE], m)
  BY <1>1, GoesOn
<1>3. m.kind \in Kind
  BY DEF Message
<1>4. Outcome(NoReq("error", NULL), m)
  BY ReturnsNothing
<1>5. Outcome(NoReq(m.kind, m), m)
  BY <1>3, Returns DEF Kind, Answered
<1>6. req.op = "rpc" => Outcome(NoReq("answer", m), m)
  BY Returns DEF Answered
<1>7. ASSUME m.kind = "send", m.ok, NEW r \in {"registered", "unregistered", "found", "names"}
      PROVE  Outcome(NoReq(r, m), m)
  BY <1>7, Returns DEF Answered
<1> HIDE DEF Outcome
<1>8. CASE req.op = "rpc"
  BY <1>2, <1>4, <1>6, <1>8 DEF After, ei_rpc
<1>9. CASE req.op = "register"
  BY <1>2, <1>4, <1>7, <1>9 DEF After, erl_global_register
<1>10. CASE req.op = "unregister"
  BY <1>2, <1>4, <1>7, <1>10 DEF After, erl_global_unregister
<1>11. CASE req.op = "whereis"
  BY <1>2, <1>4, <1>7, <1>11 DEF After, erl_global_whereis
<1>12. CASE req.op = "names"
  BY <1>2, <1>4, <1>7, <1>12 DEF After, erl_global_names
<1>13. CASE req.op \notin {"rpc", "register", "unregister", "whereis", "names"}
  BY <1>4, <1>5, <1>13 DEF After, ei_do_receive_msg
<1> QED
  BY <1>8, <1>9, <1>10, <1>11, <1>12, <1>13

\* What does not change while a call is under way.
Within == UNCHANGED <<wire, up, pending, done, sent>>

\* A tick is read and answered, or a chunk is read that is none.
Counts(c) ==
    \/ c = TickChunk /\ out' = Tock /\ ticks' = ticks + 1
    \/ out' = out /\ ticks' = ticks

\* The messages still to be read are some of those that were.
LEMMA FewerMessages ==
    ASSUME MInv, Within, req.pc # "idle", req'.op \in {req.op, "none"},
           \A i \in 1..Len(Flow') : \E j \in 1..Len(Flow) : Flow'[i] = Flow[j],
           sent = 0 /\ done <= 1 /\ req'.ret \in Answered =>
              req'.msg.answers = 1 /\ (req'.ret # "answer" => req'.msg.ok)
    PROVE  FirstAnswer'
<1>1. done # 0
  BY DEF MInv, FirstAnswer
<1>2. /\ sent = 0 /\ done <= 1 =>
           /\ \A i \in 1..Len(Flow) : Flow[i][2].kind = "send" => Flow[i][2].answers = 1
           /\ req.op = "rpc" => \A i \in 1..Len(Flow) : Flow[i][2].kind = "send"
  BY DEF MInv, FirstAnswer
<1> HIDE DEF Flow
<1>3. /\ sent = 0 /\ done <= 1 =>
           /\ \A i \in 1..Len(Flow') : Flow'[i][2].kind = "send" => Flow'[i][2].answers = 1
           /\ req'.op = "rpc" => \A i \in 1..Len(Flow') : Flow'[i][2].kind = "send"
  BY <1>2, SMTT(60)
<1> QED
  BY <1>1, <1>3 DEF FirstAnswer, Within

LEMMA CountsKept ==
    ASSUME MInv, stream # <<>>, stream' = Tail(stream), Within, Counts(Head(stream))
    PROVE  /\ out' \in [tocks : Nat, token : BOOLEAN] /\ ticks' \in Nat
           /\ TicksAnswered' /\ Ticked'
<1>1. /\ out \in [tocks : Nat, token : BOOLEAN] /\ ticks \in Nat /\ out.tocks = ticks
      /\ ticks + TicksIn(Flow) <= sent /\ sent \in Nat
  BY MessageConstants DEF MInv, Types, TicksAnswered, Ticked
<1>2. /\ TicksIn(Flow') \in Nat
      /\ TicksIn(Flow) = TicksIn(Flow') + (IF Head(stream) = TickChunk THEN 1 ELSE 0)
  BY ChunkRead DEF Within
<1> HIDE DEF Flow
<1>3. /\ out' \in [tocks : Nat, token : BOOLEAN] /\ ticks' \in Nat /\ out'.tocks = ticks'
  BY <1>1 DEF Counts, Tock
<1>4. Ticked'
  BY <1>1, <1>2 DEF Ticked, Counts, Within, TicksIn
<1> QED
  BY <1>3, <1>4 DEF TicksAnswered

\* A chunk is read with which the call is through with a message, one way or another.
LEMMA MessageTaken ==
    ASSUME MInv, req.pc # "idle", stream # <<>>, stream' = Tail(stream), Within,
           Counts(Head(stream)), Outcome(req', Head(stream)[2]),
           slipped' \in BOOLEAN, slipped' \/ Ends(Head(stream)),
           tracing' \in BOOLEAN, req'.msg # NULL => tracing' = req'.msg.traced
    PROVE  MInv'
<1> DEFINE c == Head(stream)
<1>1. /\ c \in Chunk /\ Flow # <<>> /\ Flow[1] = c
      /\ stream' \in Seq(Chunk) /\ wire' \in Seq(Chunk) /\ Framed'
      /\ Flow' # <<>> => Follows(c, Flow'[1]) /\ Flow'[1] \in Chunk
      /\ 1 \in 1..Len(Flow)
      /\ \A i \in 1..Len(Flow') : i + 1 \in 1..Len(Flow) /\ Flow'[i] = Flow[i + 1]
  BY ChunkRead DEF Within
<1>2. /\ out' \in [tocks : Nat, token : BOOLEAN] /\ ticks' \in Nat
      /\ TicksAnswered' /\ Ticked'
  BY CountsKept
<1>3. req' \in Call /\ req'.pc \in {"len", "idle"} /\ req'.op \in {req.op, "none"}
  BY DEF Outcome
<1>4. Types'
  BY <1>1, <1>2, <1>3 DEF MInv, Types, Within
<1>5. InStep'
  <2>1. Flow' # <<>> /\ ~slipped' => Flow'[1][1] = "len"
    BY <1>1, AfterEnd
  <2> HIDE DEF Flow
  <2> QED
    BY <1>3, <2>1 DEF InStep, Boundary
<1>6. Traced'
  <2>1. req'.msg # NULL => req'.pc = "idle"
    BY DEF Outcome
  <2>2. req'.ret # "sent"
    BY MessageConstants DEF Outcome
  <2>3. req'.pc # "idle" => req'.ret = NULL
    BY DEF Outcome
  <2> QED
    BY ONLY <1>3, <2>1, <2>2, <2>3, req'.msg # NULL => tracing' = req'.msg.traced DEF Traced
<1>7. FirstAnswer'
  <2>1. \A i \in 1..Len(Flow') : \E j \in 1..Len(Flow) : Flow'[i] = Flow[j]
    BY <1>1
  <2>2. ASSUME sent = 0, done <= 1, req'.ret \in Answered
        PROVE  req'.msg.answers = 1 /\ (req'.ret # "answer" => req'.msg.ok)
    <3>1. /\ Flow[1][2].kind = "send" => Flow[1][2].answers = 1
          /\ req.op = "rpc" => Flow[1][2].kind = "send"
      BY <1>1, <2>2 DEF MInv, FirstAnswer
    <3>2. NULL \notin Answered
      BY MessageConstants DEF Answered
    <3>3. /\ req'.msg = c[2]
          /\ IF req'.ret = "answer" THEN req.op = "rpc" ELSE c[2].kind = "send" /\ c[2].ok
      BY <2>2, <3>2 DEF Outcome
    <3> QED
      BY <1>1, <3>1, <3>3
  <2> QED
    BY <1>3, <2>1, <2>2, FewerMessages
<1> QED
  BY <1>1, <1>2, <1>4, <1>5, <1>6, <1>7 DEF MInv

\* A chunk is read with which the message is not at its end.
LEMMA MessageContinues ==
    ASSUME MInv, req.pc # "idle", stream # <<>>, stream' = Tail(stream), Within,
           out' = out, ticks' = ticks, slipped' = slipped, tracing' \in BOOLEAN,
           ~Ends(Head(stream)),
           NEW p, req' = [req EXCEPT !.pc = p],
           IF Head(stream)[1] = "len" THEN p \in {"head", "rawhead"} ELSE p \in {"rest", "drain"},
           p = "head" => ~tracing', p = "rest" => tracing' = Head(stream)[2].traced,
           p = "rawhead" => Head(stream)[2].size = "small"
    PROVE  MInv'
<1> DEFINE c == Head(stream)
<1>1. /\ c \in Chunk /\ Flow # <<>> /\ Flow[1] = c
      /\ stream' \in Seq(Chunk) /\ wire' \in Seq(Chunk) /\ Framed'
      /\ Flow' # <<>> => Follows(c, Flow'[1]) /\ Flow'[1] \in Chunk
      /\ up => Flow' # <<>>
      /\ \A i \in 1..Len(Flow') : i + 1 \in 1..Len(Flow) /\ Flow'[i] = Flow[i + 1]
  BY ChunkRead DEF Within
<1>2. /\ out' \in [tocks : Nat, token : BOOLEAN] /\ ticks' \in Nat
      /\ TicksAnswered' /\ Ticked'
  BY CountsKept DEF Counts
<1>3. req \in Call /\ req.msg = NULL /\ req.ret = NULL
  BY DEF MInv, Types, Traced
<1>4. /\ req' \in Call /\ req'.pc = p /\ req'.op = req.op /\ req'.msg = NULL /\ req'.ret = NULL
      /\ p \notin Boundary
  BY <1>3 DEF Call, Boundary
<1>5. Types'
  BY <1>1, <1>2, <1>4 DEF MInv, Types, Within
<1>6. Flow' # <<>> =>
        /\ Flow'[1][2] = c[2]
        /\ IF c[1] = "len" THEN Flow'[1][1] = "head" ELSE Flow'[1][1] = "rest"
  BY <1>1 DEF Follows, Ends, Chunk, Part
<1>7. InStep'
  <2> HIDE DEF Flow
  <2> QED
    BY <1>1, <1>4, <1>6 DEF InStep, Within
<1>8. Traced'
  <2> HIDE DEF Flow
  <2> QED
    BY <1>4, <1>6, MessageConstants DEF Traced, Boundary
<1>9. FirstAnswer'
  <2>1. NULL \notin Answered
    BY MessageConstants DEF Answered
  <2>2. \A i \in 1..Len(Flow') : \E j \in 1..Len(Flow) : Flow'[i] = Flow[j]
    BY <1>1
  <2> QED
    BY <1>4, <2>1, <2>2, FewerMessages
<1> QED
  BY <1>1, <1>2, <1>5, <1>7, <1>8, <1>9 DEF MInv

\* The call goes on or ends and nothing is read.
LEMMA NothingRead ==
    ASSUME MInv, req.pc # "idle", Within, UNCHANGED <<stream, out, ticks, tracing>>,
           slipped' \in BOOLEAN, ~slipped' => ~slipped /\ req.pc \in Boundary,
           Outcome(req', NULL), req'.ret \notin Answered, req'.msg = NULL
    PROVE  MInv'
<1>1. Flow' = Flow
  BY DEF Flow, Within
<1>2. req' \in Call /\ req'.pc \in {"len", "idle"} /\ req'.op \in {req.op, "none"}
  BY DEF Outcome
<1>3. Types' /\ TicksAnswered'
  BY <1>2 DEF MInv, Types, TicksAnswered, Within
<1> HIDE DEF Flow
<1>4. Ticked' /\ Framed'
  BY <1>1 DEF MInv, Ticked, Framed, Within, TicksIn, InOrder, Complete
<1>5. InStep'
  BY <1>1, <1>2 DEF MInv, InStep, Within, Boundary
<1>6. Traced'
  <2>1. req'.ret # "sent" /\ (req'.pc # "idle" => req'.ret = NULL)
    BY MessageConstants DEF Outcome
  <2> QED
    BY <1>1, <1>2, <2>1 DEF MInv, Traced
<1>7. FirstAnswer'
  BY <1>1, <1>2, FewerMessages
<1> QED
  BY <1>3, <1>4, <1>5, <1>6, <1>7 DEF MInv

-----------------------------------------------------------------------------
(* The steps of a read.                                                    *)

LEMMA Reading1 ==
    ASSUME MInv, stream # <<>>
    PROVE  Head(stream) \in Chunk /\ Head(stream)[2] \in Message /\ Head(stream) = Flow[1] /\ Flow # <<>>
<1>1. stream \in Seq(Chunk) /\ wire \in Seq(Chunk)
  BY DEF MInv, Types
<1>2. Head(stream) \in Chunk
  BY <1>1
<1>3. Flow # <<>> /\ Flow[1] = Head(stream)
  BY <1>1, TailOfBoth DEF Flow
<1> QED
  BY <1>2, <1>3 DEF Chunk

LEMMA ReadLengthKeeps ==
    ASSUME MInv, Within, ReadLength
    PROVE  MInv'
<1> DEFINE c == Head(stream)
<1>1. /\ req.pc = "len" /\ stream # <<>> /\ stream' = Tail(stream) /\ c[1] = "len"
      /\ slipped' = slipped
  BY DEF ReadLength, Taken
<1>2. c \in Chunk /\ c[2] \in Message /\ slipped \in BOOLEAN /\ tracing \in BOOLEAN
  BY <1>1, Reading1 DEF MInv, Types
<1>3. CASE c[2] = Tick
  <2>1. out' = Tock /\ ticks' = ticks + 1 /\ req' = After("tick", NULL) /\ tracing' = tracing
    BY <1>3 DEF ReadLength
  <2>2. c = TickChunk
    BY <1>1, <1>2, <1>3 DEF Chunk, TickChunk
  <2>3. Ends(c) /\ Counts(c)
    BY <1>1, <1>3, <2>1, <2>2 DEF Ends, Counts
  <2>4. Outcome(req', c[2]) /\ req'.msg = NULL
    BY <1>1, <2>1, AfterNothing
  <2> HIDE DEF c
  <2> QED
    BY ONLY MInv, Within, <1>1, <1>2, <2>1, <2>3, <2>4, MessageTaken DEF c
<1>4. CASE c[2] # Tick
  <2>1. /\ out' = out /\ ticks' = ticks /\ req' = [req EXCEPT !.pc = "head"] /\ tracing' = FALSE
    BY <1>4 DEF ReadLength, NoToken
  <2>2. ~Ends(c)
    BY <1>1, <1>4 DEF Ends
  <2> QED
    BY ONLY MInv, Within, <1>1, <1>2, <2>1, <2>2, MessageContinues
<1> QED
  BY <1>3, <1>4

LEMMA ReadHeaderKeeps ==
    ASSUME MInv, Within, ReadHeader
    PROVE  MInv'
<1> DEFINE c == Head(stream)
           m == c[2]
<1>1. /\ req.pc = "head" /\ stream # <<>> /\ stream' = Tail(stream) /\ c[1] = "head"
      /\ out' = out /\ ticks' = ticks /\ tracing' = (tracing \/ m.traced)
  BY DEF ReadHeader, Taken
<1>2. c \in Chunk /\ m \in Message /\ slipped \in BOOLEAN
  BY <1>1, Reading1 DEF MInv, Types
<1>3. tracing' = m.traced /\ tracing' \in BOOLEAN
  BY <1>1, <1>2 DEF MInv, Traced, Types, Message
<1>4. Counts(c)
  BY <1>1 DEF Counts
<1>5. Outcome(After("error", NULL), m) /\ After("error", NULL).msg = NULL
  BY <1>1, AfterNothing
<1>6. Outcome(After(m.kind, m), m)
  BY <1>1, <1>2, AfterMessage
<1>7. m.size # "huge" <=> Ends(c)
  BY <1>1 DEF Ends
<1>8. CASE /\ req' \in {After("error", NULL), After(m.kind, m)} /\ slipped' \in BOOLEAN
           /\ slipped' \/ Ends(c)
  <2>1. Outcome(req', m) /\ (req'.msg # NULL => tracing' = req'.msg.traced)
    BY <1>3, <1>5, <1>6, <1>8 DEF Outcome
  <2> QED
    BY ONLY MInv, Within, <1>1, <1>3, <1>4, <1>8, <2>1, MessageTaken
<1>9. CASE m.size = "huge" /\ req' \in {[req EXCEPT !.pc = "drain"], [req EXCEPT !.pc = "rest"]}
           /\ slipped' = slipped
  <2>1. PICK p \in {"drain", "rest"} : req' = [req EXCEPT !.pc = p]
    BY <1>9
  <2>2. ~Ends(c)
    BY <1>7, <1>9
  <2> QED
    BY ONLY MInv, Within, <1>1, <1>3, <1>9, <2>1, <2>2, MessageContinues
<1>10. CASE req' = AfterHeader(m) /\ slipped' = slipped
  <2>1. \/ m.size = "huge" /\ req' \in {[req EXCEPT !.pc = "drain"], [req EXCEPT !.pc = "rest"]}
        \/ m.size # "huge" /\ req' \in {After("error", NULL), After(m.kind, m)}
    <3> HIDE DEF m
    <3> QED
      BY <1>10 DEF AfterHeader
  <2> QED
    BY <1>2, <1>7, <1>8, <1>9, <1>10, <2>1
<1>11. CASE req' = After("error", NULL) /\ slipped' = (slipped \/ m.size = "huge")
  BY <1>2, <1>7, <1>8, <1>11
<1> QED
  BY <1>10, <1>11 DEF ReadHeader

LEMMA ReadRestKeeps ==
    ASSUME MInv, Within, ReadRest
    PROVE  MInv'
<1> DEFINE c == Head(stream)
           m == c[2]
<1>1. /\ req.pc \in {"rest", "drain"} /\ stream # <<>> /\ stream' = Tail(stream) /\ c[1] = "rest"
      /\ out' = out /\ ticks' = ticks /\ tracing' = tracing /\ slipped' = slipped
      /\ req' = IF req.pc = "rest" THEN After(m.kind, m) ELSE After("error", NULL)
  BY DEF ReadRest, Taken
<1>2. /\ c \in Chunk /\ m \in Message /\ slipped \in BOOLEAN /\ tracing \in BOOLEAN
      /\ c = Flow[1] /\ Flow # <<>>
  BY <1>1, Reading1 DEF MInv, Types
<1>3. req.pc = "rest" => tracing = m.traced
  BY <1>2 DEF MInv, Traced
<1>4. Counts(c) /\ Ends(c)
  BY <1>1 DEF Counts, Ends
<1>5. Outcome(After("error", NULL), m) /\ After("error", NULL).msg = NULL
  BY <1>1, AfterNothing
<1>6. Outcome(After(m.kind, m), m)
  BY <1>1, <1>2, AfterMessage
<1>7. Outcome(req', m) /\ (req'.msg # NULL => tracing' = req'.msg.traced)
  BY <1>1, <1>3, <1>5, <1>6 DEF Outcome
<1> QED
  BY ONLY MInv, Within, <1>1, <1>2, <1>4, <1>7, MessageTaken

LEMMA GarbageKeeps ==
    ASSUME MInv, Within, Garbage
    PROVE  MInv'
<1>1. /\ req.pc # "idle" /\ stream # <<>> /\ stream' = Tail(stream)
      /\ out' = out /\ ticks' = ticks /\ tracing' = tracing /\ slipped' = TRUE
      /\ req' = After("error", NULL)
  BY DEF Garbage
<1>2. tracing \in BOOLEAN /\ Counts(Head(stream))
  BY <1>1 DEF MInv, Types, Counts
<1>3. Outcome(req', Head(stream)[2]) /\ req'.msg = NULL
  BY <1>1, AfterNothing
<1> QED
  BY ONLY MInv, Within, <1>1, <1>2, <1>3, MessageTaken

LEMMA RecvFailsKeeps ==
    ASSUME MInv, Within, NEW pc \in {"len", "head", "rest", "drain", "rawlen", "rawhead"},
           RecvFails(pc)
    PROVE  MInv'
<1>1. /\ req.pc = pc /\ req' = After("error", NULL)
      /\ slipped' = (slipped \/ pc \notin {"len", "rawlen"})
      /\ UNCHANGED <<stream, tracing, ticks, out>>
  BY DEF RecvFails
<1>2. slipped \in BOOLEAN
  BY DEF MInv, Types
<1>3. Outcome(req', NULL) /\ req'.msg = NULL /\ req'.ret \notin Answered
  BY <1>1, AfterNothing
<1>4. /\ slipped' \in BOOLEAN /\ (~slipped' => ~slipped /\ req.pc \in Boundary)
      /\ req.pc # "idle"
  BY <1>1, <1>2 DEF Boundary
<1> QED
  BY ONLY MInv, Within, <1>1, <1>3, <1>4, NothingRead

LEMMA RawKeeps ==
    ASSUME MInv, ei_receive_tmo
    PROVE  MInv'
<1> DEFINE c == Head(stream)
           m == c[2]
<1>1. Within
  BY DEF ei_receive_tmo, nodevars, Within
<1>2. slipped \in BOOLEAN /\ tracing \in BOOLEAN
  BY DEF MInv, Types
<1>3. CASE /\ req.pc = "rawlen" /\ Taken("len") /\ tracing' = tracing /\ m = Tick
           /\ out' = Tock /\ ticks' = ticks + 1 /\ req' = NoReq("tick", NULL) /\ slipped' = slipped
  <2>1. stream # <<>> /\ stream' = Tail(stream) /\ c[1] = "len"
    BY <1>3 DEF Taken
  <2>2. c \in Chunk
    BY <2>1, Reading1
  <2>3. c = TickChunk /\ Ends(c)
    BY <1>3, <2>1, <2>2 DEF Chunk, TickChunk, Ends
  <2>4. Counts(c)
    BY <1>3, <2>3 DEF Counts
  <2>5. Outcome(req', m) /\ req'.msg = NULL
    BY <1>3, ReturnsNothing DEF Kind, NoReq
  <2> QED
    BY ONLY MInv, <1>1, <1>2, <1>3, <2>1, <2>3, <2>4, <2>5, MessageTaken
<1>4. CASE /\ req.pc = "rawlen" /\ Taken("len") /\ tracing' = tracing /\ m # Tick
           /\ req' = IF m.size = "small" THEN [req EXCEPT !.pc = "rawhead"] ELSE NoReq("error", NULL)
           /\ slipped' = (slipped \/ m.size # "small") /\ UNCHANGED <<ticks, out>>
  <2>1. stream # <<>> /\ stream' = Tail(stream) /\ c[1] = "len"
    BY <1>4 DEF Taken
  <2>2. ~Ends(c) /\ Counts(c)
    BY <1>4, <2>1 DEF Ends, Counts
  <2>3. CASE m.size = "small"
    <3>1. slipped' = slipped /\ req' = [req EXCEPT !.pc = "rawhead"]
      BY <1>2, <1>4, <2>3
    <3> QED
      BY ONLY MInv, <1>1, <1>2, <1>4, <2>1, <2>2, <2>3, <3>1, MessageContinues
  <2>4. CASE m.size # "small"
    <3>1. slipped' = TRUE /\ req' = NoReq("error", NULL)
      BY <1>4, <2>4
    <3>2. Outcome(req', m) /\ req'.msg = NULL
      BY <3>1, ReturnsNothing DEF NoReq
    <3> QED
      BY ONLY MInv, <1>1, <1>2, <1>4, <2>1, <2>2, <3>1, <3>2, MessageTaken
  <2> QED
    BY <2>3, <2>4
<1>5. CASE /\ req.pc = "rawhead" /\ Taken("head") /\ req' = NoReq(m.kind, NULL)
           /\ UNCHANGED <<tracing, slipped, ticks, out>>
  <2>1. stream # <<>> /\ stream' = Tail(stream) /\ c[1] = "head"
    BY <1>5 DEF Taken
  <2>2. c = Flow[1] /\ Flow # <<>> /\ m \in Message
    BY <2>1, Reading1
  <2>3. m.size = "small"
    BY <1>5, <2>2 DEF MInv, InStep
  <2>4. Ends(c) /\ Counts(c)
    BY <1>5, <2>1, <2>3 DEF Ends, Counts
  <2>5. m.kind \in Kind
    BY <2>2 DEF Message
  <2>6. Outcome(req', m) /\ req'.msg = NULL
    BY <1>5, <2>5, ReturnsNothing DEF NoReq
  <2> QED
    BY ONLY MInv, <1>1, <1>2, <1>5, <2>1, <2>4, <2>6, MessageTaken
<1>6. CASE \E pc \in {"rawlen", "rawhead"} : RecvFails(pc)
  BY <1>1, <1>6, RecvFailsKeeps
<1> QED
  BY <1>3, <1>4, <1>5, <1>6 DEF ei_receive_tmo

LEMMA RpcFromKeeps ==
    ASSUME MInv, ei_rpc_from
    PROVE  MInv'
<1>1. /\ Within /\ req.pc = "select" /\ UNCHANGED <<stream, out, ticks, tracing, slipped>>
      /\ req' \in {[req EXCEPT !.pc = "len"], NoReq("error", NULL), NoReq("timeout", NULL)}
  BY DEF ei_rpc_from, Within
<1>2. req \in Call /\ req.msg = NULL /\ req.ret = NULL /\ slipped \in BOOLEAN
  BY <1>1 DEF MInv, Types, Traced
<1>3. Outcome(req', NULL)
  <2> HIDE DEF Outcome
  <2> QED
    BY <1>1, <1>2, GoesOn, ReturnsNothing
<1>4. req'.ret \notin Answered /\ req'.msg = NULL
  BY <1>1, <1>2, MessageConstants DEF Call, NoReq, Answered
<1>5. req.pc \in Boundary /\ req.pc # "idle"
  BY <1>1 DEF Boundary
<1> QED
  BY ONLY MInv, <1>1, <1>2, <1>3, <1>4, <1>5, NothingRead

-----------------------------------------------------------------------------
(* The calls of the program.                                               *)

\* A call that begins owes nothing to the one before it.
LEMMA StartKeeps ==
    ASSUME MInv, NEW op \in {"receive", "raw", "rpc", "register", "unregister", "whereis", "names"},
           NEW pc \in {"len", "rawlen", "select"}, NEW static \in BOOLEAN, NEW timed \in BOOLEAN,
           Starts(op, pc, static, timed), up' = up,
           \/ out' = out \/ out' = Written,
           pending' = pending \/ pending' = Append(pending, done + 1)
    PROVE  MInv'
<1> DEFINE c == [NoReq(NULL, NULL) EXCEPT !.op = op, !.pc = pc, !.static = static,
                     !.timed = timed, !.id = done + 1, !.need = TRUE]
<1>1. /\ req.pc = "idle" /\ done < MaxRequests /\ done' = done + 1 /\ req' = c
      /\ UNCHANGED <<wire, stream, tracing, slipped, ticks, sent>>
  BY DEF Starts
<1>2. /\ done \in 0..MaxRequests /\ done' \in 1..MaxRequests /\ MaxRequests \in Nat
  BY <1>1, MessageConstants DEF MInv, Types
<1>3. req' \in Call /\ req'.pc = pc /\ req'.op = op /\ req'.msg = NULL /\ req'.ret = NULL
  <2>1. done + 1 \in 0..MaxRequests
    BY <1>1, <1>2
  <2>2. req' = [op |-> op, pc |-> pc, static |-> static, timed |-> timed, id |-> done + 1,
                need |-> TRUE, msg |-> NULL, ret |-> NULL]
    BY <1>1 DEF NoReq
  <2> QED
    BY <2>1, <2>2 DEF Call, Boundary
<1>4. out' \in [tocks : Nat, token : BOOLEAN] /\ out'.tocks = out.tocks
  BY MessageConstants DEF MInv, Types, Written
<1>5. /\ pending' \in Seq(1..MaxRequests) /\ IsInjective(pending')
      /\ \A i \in DOMAIN pending' : pending'[i] <= done'
  <2>1. /\ pending \in Seq(1..MaxRequests) /\ IsInjective(pending)
        /\ \A i \in DOMAIN pending : pending[i] <= done
    BY DEF MInv, Types
  <2>2. /\ DOMAIN pending = 1..Len(pending) /\ Len(pending) \in Nat
        /\ \A i \in 1..Len(pending) : pending[i] \in 1..MaxRequests
    BY <2>1, LenProperties, ElementOfSeq
  <2>3. \A i \in 1..Len(pending) : pending[i] \in Nat /\ pending[i] <= done
    BY <1>2, <2>1, <2>2, SMTT(60)
  <2>4. CASE pending' = pending
    BY <1>1, <1>2, <2>1, <2>2, <2>3, <2>4
  <2>5. CASE pending' = Append(pending, done + 1)
    <3> DEFINE n == Len(pending)
               q == Append(pending, done + 1)
    <3>1. /\ q \in Seq(1..MaxRequests) /\ DOMAIN q = 1..(n + 1)
          /\ \A i \in 1..n : q[i] = pending[i]
          /\ q[n + 1] = done + 1
      BY <1>1, <1>2, <2>1, AppendProperties
    <3> HIDE DEF n, q
    <3>2. n \in Nat /\ DOMAIN pending = 1..n
      BY <2>2 DEF n
    <3>3. \A i \in 1..n : q[i] \in Nat /\ q[i] <= done
      BY <2>3, <3>1 DEF n
    <3>4. \A i \in 1..(n + 1) : i = n + 1 \/ i \in 1..n
      BY <3>2
    <3>5. \A i \in 1..(n + 1) : q[i] \in Nat /\ q[i] <= done + 1
      BY <1>2, <3>1, <3>3, <3>4
    <3>6. ASSUME NEW i \in 1..(n + 1), NEW j \in 1..(n + 1), q[i] = q[j]
          PROVE  i = j
      <4>1. CASE i \in 1..n /\ j \in 1..n
        BY <2>1, <3>1, <3>2, <3>6, <4>1 DEF IsInjective
      <4>2. CASE i = n + 1 \/ j = n + 1
        BY <1>2, <3>1, <3>3, <3>4, <3>6, <4>2
      <4> QED
        BY <3>4, <4>1, <4>2
    <3>7. IsInjective(q)
      BY <3>1, <3>6 DEF IsInjective
    <3> QED
      BY <1>1, <2>5, <3>1, <3>5, <3>7 DEF q
  <2> QED
    BY <2>4, <2>5
<1>6. Types'
  BY <1>1, <1>2, <1>3, <1>4, <1>5 DEF MInv, Types
<1>7. Flow' = Flow
  BY <1>1 DEF Flow
<1>8. TicksAnswered'
  BY <1>1, <1>4 DEF MInv, TicksAnswered
<1>9. sent = 0 /\ done = 0 => Flow = <<>>
  BY DEF MInv, FirstAnswer
<1>10. Ticked /\ Framed /\ InStep
  BY DEF MInv
<1> HIDE DEF Flow, c
<1>11. Ticked' /\ Framed'
  BY <1>1, <1>7, <1>10 DEF Ticked, Framed, TicksIn, InOrder, Complete
<1>12. InStep'
  BY <1>1, <1>3, <1>7, <1>10 DEF InStep, Boundary
<1>13. Traced'
  BY <1>3, MessageConstants DEF Traced
<1>14. FirstAnswer'
  <2>1. NULL \notin Answered
    BY MessageConstants DEF Answered
  <2>2. done' <= 1 /\ sent = 0 => Flow' = <<>>
    BY <1>1, <1>2, <1>7, <1>9
  <2>3. Len(<<>>) = 0
    OBVIOUS
  <2>4. done' <= 1 /\ sent = 0 => 1..Len(Flow') = {}
    BY <2>2, <2>3
  <2> QED
    BY <1>1, <1>2, <1>3, <2>1, <2>4 DEF FirstAnswer
<1> QED
  BY <1>6, <1>8, <1>11, <1>12, <1>13, <1>14 DEF MInv

LEMMA WriteKeeps ==
    ASSUME MInv, NEW r \in {"sent", "error"}, Writes(r)
    PROVE  MInv'
<1>1. /\ req.pc = "idle" /\ out' = (IF up THEN Written ELSE out) /\ req' = NoReq(r, NULL)
      /\ UNCHANGED <<wire, stream, up, tracing, pending, slipped, ticks, done, sent>>
  BY DEF Writes
<1>2. req' \in Call /\ req'.pc = "idle" /\ req'.op = "none" /\ req'.msg = NULL /\ req'.ret = r
  BY <1>1, ReturnTypes
<1>3. out' \in [tocks : Nat, token : BOOLEAN] /\ out'.tocks = out.tocks
  BY <1>1, MessageConstants DEF MInv, Types, Written
<1>4. Flow' = Flow
  BY <1>1 DEF Flow
<1>5. Types' /\ TicksAnswered'
  BY <1>1, <1>2, <1>3 DEF MInv, Types, TicksAnswered
<1>6. Ticked /\ Framed /\ InStep /\ FirstAnswer
  BY DEF MInv
<1> HIDE DEF Flow
<1>7. Ticked' /\ Framed'
  BY <1>1, <1>4, <1>6 DEF Ticked, Framed, TicksIn, InOrder, Complete
<1>8. InStep'
  BY <1>1, <1>2, <1>4, <1>6 DEF InStep, Boundary
<1>9. Traced'
  BY <1>2 DEF Traced
<1>10. FirstAnswer'
  <2>1. r \notin Answered
    BY DEF Answered
  <2> QED
    BY <1>1, <1>2, <1>4, <1>6, <2>1 DEF FirstAnswer
<1> QED
  BY <1>5, <1>7, <1>8, <1>9, <1>10 DEF MInv

-----------------------------------------------------------------------------
(* The node.                                                               *)

\* The node writes messages of M: ticks or others, all of them to the end.
LEMMA NodeKeeps ==
    ASSUME MInv, up, NEW M, Longer(Flow, Flow', M),
           UNCHANGED <<stream, up, req, tracing, out, slipped, ticks, done>>,
           wire' \in Seq(Chunk), sent' \in 0..MaxSent, sent <= sent',
           pending' \in Seq(1..MaxRequests), IsInjective(pending'),
           \A i \in DOMAIN pending' : pending'[i] <= done,
           pending = <<>> => pending' = <<>>,
           TicksIn(Flow') <= TicksIn(Flow) + (sent' - sent),
           sent' = 0 /\ done = 0 => Flow' = Flow,
           sent' = 0 /\ done = 1 => \A m \in M :
              /\ m.kind = "send" => m.answers = 1
              /\ req.op = "rpc" => m.kind = "send"
    PROVE  MInv'
<1>1. Types'
  BY DEF MInv, Types
<1>2. TicksAnswered'
  BY DEF MInv, TicksAnswered
<1>3. Flow \in Seq(Chunk) /\ Flow' \in Seq(Chunk)
  BY FlowTypes DEF MInv, Longer
<1>4. TicksIn(Flow) \in Nat /\ TicksIn(Flow') \in Nat
  BY <1>3, TicksFinite
<1>5. Ticked /\ Framed /\ InStep /\ Traced /\ FirstAnswer
  BY DEF MInv
<1>6. Flow # <<>> => Flow' # <<>> /\ Flow'[1] = Flow[1]
  <2> SUFFICES ASSUME Flow # <<>> PROVE Flow' # <<>> /\ Flow'[1] = Flow[1]
    OBVIOUS
  <2> HIDE DEF Flow
  <2>1. 1 \in 1..Len(Flow) /\ Len(Flow') # 0
    BY <1>3 DEF Longer
  <2> QED
    BY <1>3, <2>1 DEF Longer
<1>7. /\ Len(Flow) \in Nat /\ Len(Flow') \in Nat
      /\ \A i \in 1..Len(Flow') : i <= Len(Flow) => i \in 1..Len(Flow)
  BY <1>3
<1> HIDE DEF Flow
<1>8. Ticked'
  <2>1. ticks \in Nat /\ sent \in Nat /\ sent' \in Nat
    BY MessageConstants DEF MInv, Types
  <2>2. Ticked' <=> ticks + TicksIn(Flow') <= sent'
    BY DEF Ticked, TicksIn
  <2> QED
    BY <1>4, <1>5, <2>1, <2>2, SMTT(60) DEF Ticked
<1>9. Framed'
  BY DEF Framed, Longer, InOrder, Complete
<1>10. InStep'
  <2>1. req.pc \notin Boundary => Flow # <<>>
    BY <1>5 DEF InStep
  <2> QED
    BY <1>5, <1>6, <2>1 DEF InStep, Longer, Boundary
<1>11. Traced'
  <2>1. req.pc = "rest" => Flow # <<>>
    BY <1>5 DEF InStep, Boundary
  <2> QED
    BY <1>5, <1>6, <2>1 DEF Traced
<1>12. FirstAnswer'
  <2>1. sent \in Nat /\ sent' \in Nat /\ done \in Nat
    BY MessageConstants DEF MInv, Types
  <2>2. sent' = 0 => sent = 0
    BY <2>1
  <2>3. ASSUME sent' = 0, done = 1, NEW i \in 1..Len(Flow')
        PROVE  /\ Flow'[i][2].kind = "send" => Flow'[i][2].answers = 1
               /\ req.op = "rpc" => Flow'[i][2].kind = "send"
    <3>1. CASE i <= Len(Flow)
      <4>1. i \in 1..Len(Flow) /\ Flow'[i] = Flow[i]
        BY <1>7, <3>1 DEF Longer
      <4> QED
        BY <1>5, <2>2, <2>3, <4>1 DEF FirstAnswer
    <3>2. CASE i > Len(Flow)
      BY <2>3, <3>2 DEF Longer
    <3> QED
      BY <1>7, <3>1, <3>2
  <2>4. sent' = 0 /\ done = 0 => Flow' = <<>>
    BY <1>5, <2>2 DEF FirstAnswer
  <2>5. done <= 1 => done = 0 \/ done = 1
    BY <2>1
  <2>6. Len(<<>>) = 0
    OBVIOUS
  <2>7. sent' = 0 /\ done = 0 => 1..Len(Flow') = {}
    BY <2>4, <2>6
  <2> QED
    BY <1>5, <2>1, <2>2, <2>3, <2>4, <2>5, <2>7 DEF FirstAnswer
<1> QED
  BY <1>1, <1>2, <1>8, <1>9, <1>10, <1>11, <1>12 DEF MInv

\* A call that was answered is owed nothing more.
LEMMA Answered1 ==
    ASSUME Types, NEW k \in DOMAIN pending
    PROVE  /\ RemoveAt(pending, k) \in Seq(1..MaxRequests)
           /\ IsInjective(RemoveAt(pending, k))
           /\ \A i \in DOMAIN RemoveAt(pending, k) : RemoveAt(pending, k)[i] <= done
<1> DEFINE n == Len(pending)
           q == RemoveAt(pending, k)
<1>1. /\ pending \in Seq(1..MaxRequests) /\ IsInjective(pending)
      /\ \A i \in DOMAIN pending : pending[i] <= done
      /\ DOMAIN pending = 1..n /\ n \in Nat /\ k \in 1..n
  BY DEF Types
<1> HIDE DEF n
<1>0. /\ \A i \in 1..n : pending[i] \in 1..MaxRequests
      /\ \A i \in 1..(k - 1) : i \in 1..n
      /\ \A i \in (k + 1)..n : i \in 1..n
  <2>1. \A i \in 1..n : pending[i] \in 1..MaxRequests
    BY <1>1, ElementOfSeq DEF n
  <2> QED
    BY <1>1, <2>1
<1>2. /\ SubSeq(pending, 1, k - 1) \in Seq(1..MaxRequests) /\ Len(SubSeq(pending, 1, k - 1)) = k - 1
      /\ \A i \in 1..(k - 1) : SubSeq(pending, 1, k - 1)[i] = pending[i]
  <2>1. \A i \in 1..(k - 1) : pending[i] \in 1..MaxRequests
    BY <1>0
  <2>2. /\ SubSeq(pending, 1, k - 1) \in Seq(1..MaxRequests)
        /\ Len(SubSeq(pending, 1, k - 1)) = IF 1 <= k - 1 THEN k - 1 - 1 + 1 ELSE 0
        /\ \A i \in 1..(k - 1 - 1 + 1) : SubSeq(pending, 1, k - 1)[i] = pending[1 + i - 1]
    BY ONLY <1>1, <2>1, 1 \in Int, k - 1 \in Int, SubSeqProperties
  <2> QED
    BY <1>1, <2>2
<1>3. /\ SubSeq(pending, k + 1, n) \in Seq(1..MaxRequests) /\ Len(SubSeq(pending, k + 1, n)) = n - k
      /\ \A i \in 1..(n - k) : SubSeq(pending, k + 1, n)[i] = pending[k + i]
  <2>1. \A i \in (k + 1)..n : pending[i] \in 1..MaxRequests
    BY <1>0
  <2>2. /\ SubSeq(pending, k + 1, n) \in Seq(1..MaxRequests)
        /\ Len(SubSeq(pending, k + 1, n)) = IF k + 1 <= n THEN n - (k + 1) + 1 ELSE 0
        /\ \A i \in 1..(n - (k + 1) + 1) : SubSeq(pending, k + 1, n)[i] = pending[k + 1 + i - 1]
    BY ONLY <1>1, <2>1, k + 1 \in Int, n \in Int, SubSeqProperties
  <2> QED
    BY <1>1, <2>2, SMTT(60)
<1>4. /\ q \in Seq(1..MaxRequests) /\ Len(q) = n - 1
      /\ \A i \in 1..(n - 1) : q[i] = IF i <= k - 1 THEN SubSeq(pending, 1, k - 1)[i]
                                     ELSE SubSeq(pending, k + 1, n)[i - (k - 1)]
  <2>1. q = SubSeq(pending, 1, k - 1) \o SubSeq(pending, k + 1, n)
    BY DEF RemoveAt, n
  <2>2. (k - 1) + (n - k) = n - 1
    BY <1>1
  <2> HIDE DEF q
  <2> QED
    BY <1>2, <1>3, <2>1, <2>2, ConcatProperties, SMTT(60)
<1>5. \A i \in 1..(n - 1) : q[i] = pending[IF i < k THEN i ELSE i + 1]
  <2> HIDE DEF q
  <2> SUFFICES ASSUME NEW i \in 1..(n - 1)
               PROVE  q[i] = pending[IF i < k THEN i ELSE i + 1]
    OBVIOUS
  <2>1. CASE i < k
    <3>1. i <= k - 1 /\ i \in 1..(k - 1)
      BY <1>1, <2>1
    <3> QED
      BY <1>2, <1>4, <2>1, <3>1
  <2>2. CASE ~(i < k)
    <3>1. ~(i <= k - 1) /\ i - (k - 1) \in 1..(n - k) /\ k + (i - (k - 1)) = i + 1
      BY <1>1, <2>2
    <3>2. q[i] = pending[k + (i - (k - 1))]
      BY <1>3, <1>4, <3>1
    <3> QED
      BY <2>2, <3>1, <3>2
  <2> QED
    BY <2>1, <2>2
<1>6. \A i \in 1..(n - 1) : (IF i < k THEN i ELSE i + 1) \in 1..n
  BY <1>1
<1> HIDE DEF n, q
<1>7. \A i \in 1..(n - 1) : q[i] <= done
  BY <1>1, <1>5, <1>6
<1>8. ASSUME NEW i \in 1..(n - 1), NEW j \in 1..(n - 1), q[i] = q[j]
      PROVE  i = j
  <2>1. (IF i < k THEN i ELSE i + 1) = (IF j < k THEN j ELSE j + 1)
    BY <1>1, <1>5, <1>6, <1>8, ZenonT(60) DEF IsInjective
  <2> QED
    BY <1>1, <2>1
<1>9. DOMAIN q = 1..(n - 1)
  BY <1>1, <1>4, LenProperties
<1> QED
  BY <1>4, <1>7, <1>8, <1>9 DEF q, IsInjective

LEMMA NodeMessageKeeps ==
    ASSUME MInv, NodeMessage
    PROVE  MInv'
<1>1. /\ up /\ sent < MaxSent /\ sent' = sent + 1
      /\ UNCHANGED <<stream, up, req, tracing, out, pending, slipped, ticks, done>>
  BY DEF NodeMessage, NodeSends
<1>2. PICK m \in Message : wire' = wire \o Chunks(m)
  <2>1. CASE wire' = wire \o Chunks(Tick)
    <3>1. Tick \in Message
      BY MessageConstants DEF Tick, Message, Kind
    <3> QED
      BY <2>1, <3>1
  <2>2. CASE \E m \in Mail : wire' = wire \o
              Chunks([kind |-> m[1], size |-> m[2], traced |-> m[3], answers |-> 0, ok |-> FALSE])
    <3>1. PICK m \in Mail : wire' = wire \o
              Chunks([kind |-> m[1], size |-> m[2], traced |-> m[3], answers |-> 0, ok |-> FALSE])
      BY <2>2
    <3>2. [kind |-> m[1], size |-> m[2], traced |-> m[3], answers |-> 0, ok |-> FALSE] \in Message
      BY MessageConstants DEF Message, Kind
    <3> QED
      BY <3>1, <3>2
  <2> QED
    BY <2>1, <2>2 DEF NodeMessage, NodeSends
<1>3. stream \in Seq(Chunk) /\ wire \in Seq(Chunk) /\ Flow \in Seq(Chunk)
  BY FlowTypes DEF MInv, Types
<1>4. InOrder(Flow) /\ Complete(Flow)
  BY <1>1 DEF MInv, Framed
<1>5. /\ Chunks(m) \in Seq(Chunk) /\ Longer(Flow, Flow \o Chunks(m), {m})
      /\ TicksIn(Flow \o Chunks(m)) = TicksIn(Flow) + (IF m = Tick THEN 1 ELSE 0)
  BY <1>3, <1>4, MessageSent
<1>6. Flow' = Flow \o Chunks(m)
  BY <1>1, <1>2, <1>3, <1>5, ConcatAssociative, SMTT(60) DEF Flow
<1>7. TicksIn(Flow) \in Nat
  BY <1>3, TicksFinite
<1>8. sent \in Nat /\ sent' \in 0..MaxSent /\ sent <= sent' /\ sent' # 0 /\ sent' - sent = 1
  BY <1>1, MessageConstants DEF MInv, Types
<1>9. wire' \in Seq(Chunk)
  BY <1>2, <1>3, <1>5
<1>10. /\ pending' \in Seq(1..MaxRequests) /\ IsInjective(pending')
       /\ \A i \in DOMAIN pending' : pending'[i] <= done
       /\ pending = <<>> => pending' = <<>>
  BY <1>1 DEF MInv, Types
<1>11. TicksIn(Flow \o Chunks(m)) <= TicksIn(Flow) + 1
  BY <1>5, <1>7
<1>12. Longer(Flow, Flow', {m}) /\ TicksIn(Flow') <= TicksIn(Flow) + (sent' - sent)
  <2> HIDE DEF Flow
  <2> QED
    BY <1>5, <1>6, <1>8, <1>11 DEF TicksIn
<1> QED
  BY ONLY MInv, <1>1, <1>8, <1>9, <1>10, <1>12, NodeKeeps

\* The answer is the node's to the call it takes off the list; with a link, global's
\* message comes first.
LEMMA NodeAnswersKeeps ==
    ASSUME MInv, NodeAnswers
    PROVE  MInv'
<1>1. /\ up /\ pending # <<>>
      /\ UNCHANGED <<stream, up, req, tracing, out, slipped, ticks, done, sent>>
  BY DEF NodeAnswers
<1>2. PICK k \in DOMAIN pending, ok \in BOOLEAN, link \in BOOLEAN, kind \in {"link", "unlink"} :
        LET m == [kind |-> "send", size |-> "small", traced |-> FALSE,
                  answers |-> pending[k], ok |-> ok]
            l == [m EXCEPT !.kind = kind, !.answers = 0, !.ok = FALSE]
        IN  /\ link => req.op \in {"register", "unregister"}
            /\ wire' = wire \o (IF link THEN Chunks(l) ELSE <<>>) \o Chunks(m)
            /\ pending' = RemoveAt(pending, k)
  BY DEF NodeAnswers
<1> DEFINE m == [kind |-> "send", size |-> "small", traced |-> FALSE,
                 answers |-> pending[k], ok |-> ok]
           l == [m EXCEPT !.kind = kind, !.answers = 0, !.ok = FALSE]
<1>3. /\ link => req.op \in {"register", "unregister"}
      /\ wire' = wire \o (IF link THEN Chunks(l) ELSE <<>>) \o Chunks(m)
      /\ pending' = RemoveAt(pending, k)
  BY <1>2
<1>4. /\ pending \in Seq(1..MaxRequests) /\ pending[k] \in 1..MaxRequests /\ pending[k] <= done
      /\ MaxRequests \in Nat
  <2>1. DOMAIN pending = 1..Len(pending)
    BY LenProperties DEF MInv, Types
  <2> QED
    BY <2>1, ElementOfSeq, MessageConstants DEF MInv, Types
<1>5. m \in Message /\ l \in Message
  <2>1. m \in Message
    BY <1>4 DEF Message, Kind
  <2> HIDE DEF m
  <2>2. 0 \in 0..MaxRequests /\ kind \in Kind
    BY <1>4 DEF Kind
  <2>3. l \in Message
    BY ONLY <2>1, <2>2 DEF Message
  <2> QED
    BY <2>1, <2>3
<1>6. m # Tick /\ l # Tick
  BY DEF Tick
<1>7. m.kind = "send" /\ m.answers = pending[k] /\ l.kind # "send"
  OBVIOUS
<1> HIDE DEF m, l
<1>8. stream \in Seq(Chunk) /\ wire \in Seq(Chunk) /\ Flow \in Seq(Chunk)
  BY FlowTypes DEF MInv, Types
<1>9. InOrder(Flow) /\ Complete(Flow) /\ TicksIn(Flow) \in Nat
  BY <1>1, <1>8, TicksFinite DEF MInv, Framed
<1> DEFINE M == IF link THEN {l, m} ELSE {m}
<1>10. wire' \in Seq(Chunk) /\ Longer(Flow, Flow', M) /\ TicksIn(Flow') = TicksIn(Flow)
  <2>1. CASE link
    <3> DEFINE s == Flow \o Chunks(l)
               t == s \o Chunks(m)
    <3>0. \A a, b, c \in Seq(Chunk) : a \o (b \o c) = (a \o b) \o c
      BY ConcatAssociative, SMTT(60)
    <3>1. /\ Chunks(l) \in Seq(Chunk) /\ Longer(Flow, s, {l}) /\ TicksIn(s) = TicksIn(Flow) + 0
      BY <1>5, <1>6, <1>8, <1>9, MessageSent
    <3>2. s \in Seq(Chunk) /\ InOrder(s) /\ Complete(s)
      BY <3>1 DEF Longer
    <3>3. /\ Chunks(m) \in Seq(Chunk) /\ Longer(s, t, {m}) /\ TicksIn(t) = TicksIn(s) + 0
      <4> HIDE DEF s
      <4> QED
        BY <1>5, <1>6, <3>2, MessageSent
    <3>4. Longer(Flow, t, M)
      <4>1. Longer(Flow, t, {l} \cup {m})
        <5> HIDE DEF s, t, Flow
        <5> QED
          BY <1>8, <3>1, <3>3, LongerTwice
      <4>2. {l} \cup {m} = M
        BY <2>1
      <4> QED
        BY <4>1, <4>2
    <3>5. wire' = (wire \o Chunks(l)) \o Chunks(m) /\ wire \o Chunks(l) \in Seq(Chunk)
      BY <1>3, <1>8, <2>1, <3>1
    <3>6. Flow' = t
      <4>1. stream \o ((wire \o Chunks(l)) \o Chunks(m)) = (stream \o (wire \o Chunks(l))) \o Chunks(m)
        BY ONLY <1>8, <3>0, <3>3, <3>5, ZenonT(60)
      <4>2. stream \o (wire \o Chunks(l)) = (stream \o wire) \o Chunks(l)
        BY ONLY <1>8, <3>0, <3>1, ZenonT(60)
      <4> QED
        BY <1>1, <3>5, <4>1, <4>2 DEF Flow
    <3>7. wire' \in Seq(Chunk)
      BY <3>3, <3>5, ConcatProperties
    <3>8. TicksIn(t) = TicksIn(Flow)
      BY <1>9, <3>1, <3>3
    <3> HIDE DEF s, t, Flow, M
    <3> QED
      BY <3>4, <3>6, <3>7, <3>8 DEF TicksIn
  <2>2. CASE ~link
    <3> DEFINE t == Flow \o Chunks(m)
    <3>1. /\ Chunks(m) \in Seq(Chunk) /\ Longer(Flow, t, {m}) /\ TicksIn(t) = TicksIn(Flow) + 0
      BY <1>5, <1>6, <1>8, <1>9, MessageSent
    <3>2. wire' = wire \o Chunks(m)
      BY <1>3, <1>8, <2>2, ConcatEmptySeq
    <3>3. Flow' = t
      BY <1>1, <1>8, <3>1, <3>2, ConcatAssociative, SMTT(60) DEF Flow
    <3>4. wire' \in Seq(Chunk) /\ M = {m} /\ TicksIn(t) = TicksIn(Flow)
      BY <1>8, <1>9, <2>2, <3>1, <3>2, ConcatProperties
    <3> HIDE DEF t, Flow, M
    <3> QED
      BY <3>1, <3>3, <3>4 DEF TicksIn
  <2> QED
    BY <2>1, <2>2
<1>11. /\ pending' \in Seq(1..MaxRequests) /\ IsInjective(pending')
       /\ \A i \in DOMAIN pending' : pending'[i] <= done
  BY <1>3, Answered1 DEF MInv
<1>12. /\ sent \in Nat /\ done \in Nat /\ sent' \in 0..MaxSent /\ sent <= sent'
       /\ TicksIn(Flow') <= TicksIn(Flow) + (sent' - sent)
  <2>1. sent \in 0..MaxSent /\ sent \in Nat /\ done \in Nat
    BY MessageConstants DEF MInv, Types
  <2> HIDE DEF Flow
  <2> QED
    BY <1>1, <1>9, <1>10, <2>1
<1>13. done # 0
  BY <1>1 DEF MInv, FirstAnswer
<1>14. done = 1 => \A n \in M :
              /\ n.kind = "send" => n.answers = 1
              /\ req.op = "rpc" => n.kind = "send"
  BY <1>3, <1>4, <1>7
<1> HIDE DEF M
<1> QED
  BY ONLY MInv, <1>1, <1>10, <1>11, <1>12, <1>13, <1>14, NodeKeeps

LEMMA ArriveKeeps ==
    ASSUME MInv, Arrive
    PROVE  MInv'
<1>1. /\ wire # <<>> /\ stream' = Append(stream, Head(wire)) /\ wire' = Tail(wire)
      /\ UNCHANGED <<up, req, tracing, out, pending, slipped, ticks, done, sent>>
  BY DEF Arrive
<1>2. stream \in Seq(Chunk) /\ wire \in Seq(Chunk)
  BY DEF MInv, Types
<1>3. Flow' = Flow
  BY <1>1, <1>2, MovedOver DEF Flow
<1>4. stream' \in Seq(Chunk) /\ wire' \in Seq(Chunk)
  BY <1>1, <1>2
<1>5. Types' /\ TicksAnswered'
  BY <1>1, <1>4 DEF MInv, Types, TicksAnswered
<1>6. Ticked /\ Framed /\ InStep /\ Traced /\ FirstAnswer
  BY DEF MInv
<1> HIDE DEF Flow
<1> QED
  BY <1>1, <1>3, <1>5, <1>6
     DEF MInv, Ticked, Framed, InStep, Traced, FirstAnswer, TicksIn, InOrder, Complete

LEMMA CloseKeeps ==
    ASSUME MInv, Close
    PROVE  MInv'
<1>1. /\ up' = FALSE /\ wire' = <<>> /\ pending' = <<>>
      /\ UNCHANGED <<stream, req, tracing, out, slipped, ticks, done, sent>>
  BY DEF Close
<1>2. stream \in Seq(Chunk) /\ wire \in Seq(Chunk) /\ Flow = stream \o wire
  BY DEF MInv, Types, Flow
<1>3. Flow' = stream
  BY <1>1, <1>2, ConcatEmptySeq DEF Flow
<1>4. /\ wire' \in Seq(Chunk) /\ pending' \in Seq(1..MaxRequests) /\ IsInjective(pending')
      /\ \A i \in DOMAIN pending' : pending'[i] <= done
  BY <1>1 DEF IsInjective
<1>5. Types' /\ TicksAnswered'
  BY <1>1, <1>4 DEF MInv, Types, TicksAnswered
<1>6. Ticked /\ Framed /\ InStep /\ Traced /\ FirstAnswer
  BY DEF MInv
<1>7. Ticked'
  <2>1. TicksIn(stream) <= TicksIn(stream \o wire) /\ ticks \in Nat /\ sent \in Nat
    BY <1>2, TicksPart, MessageConstants DEF MInv, Types
  <2>2. TicksIn(stream) \in Nat /\ TicksIn(Flow) \in Nat
    BY <1>2, TicksFinite, FlowTypes DEF MInv
  <2>3. ticks + TicksIn(stream) <= sent
    BY <1>2, <1>6, <2>1, <2>2 DEF Ticked
  <2> HIDE DEF Flow
  <2> QED
    BY <1>1, <1>3, <2>3 DEF Ticked, TicksIn
<1>8. Framed'
  <2>1. InOrder(stream)
    BY <1>2, <1>6, InOrderPart DEF Framed
  <2> HIDE DEF Flow
  <2> QED
    BY <1>1, <1>3, <2>1 DEF Framed, InOrder, Complete
<1>9. stream # <<>> => Flow # <<>> /\ Flow[1] = stream[1]
  BY <1>2, TailOfBoth
<1>10. \A i \in 1..Len(stream) : i \in 1..Len(Flow) /\ Flow[i] = stream[i]
  BY <1>2
<1> HIDE DEF Flow
<1>11. InStep' /\ Traced'
  BY <1>1, <1>3, <1>6, <1>9 DEF InStep, Traced
<1>12. FirstAnswer'
  <2>1. sent = 0 /\ done = 0 => stream = <<>>
    BY <1>6, <1>9 DEF FirstAnswer
  <2> QED
    BY <1>1, <1>3, <1>6, <1>10, <2>1 DEF FirstAnswer
<1> QED
  BY <1>5, <1>7, <1>8, <1>11, <1>12 DEF MInv

-----------------------------------------------------------------------------
(* The theorems.                                                           *)

\* At the start nothing has been sent, called or read.
LEMMA InitMessages == MInit => MInv
<1> SUFFICES ASSUME MInit PROVE MInv
  OBVIOUS
<1>1. req \in Call /\ req.pc = "idle" /\ req.op = "none" /\ req.msg = NULL /\ req.ret = NULL
  BY ReturnTypes, SMTT(60) DEF MInit
<1>2. IsInjective(<<>>)
  BY DEF IsInjective
<1>3. Types /\ TicksAnswered
  <2>1. /\ <<>> \in Seq(Chunk) /\ <<>> \in Seq(1..MaxRequests)
        /\ \A i \in DOMAIN <<>> : <<>>[i] <= done
    OBVIOUS
  <2>2. 0 \in 0..MaxRequests /\ 0 \in 0..MaxSent
    BY MessageConstants
  <2> QED
    BY <1>1, <1>2, <2>1, <2>2 DEF MInit, Types, TicksAnswered
<1>4. Flow = <<>>
  BY ConcatEmptySeq DEF MInit, Flow
<1>5. Ticked
  BY <1>4, TicksEmpty DEF Ticked, MInit
<1>6. Framed
  BY <1>4 DEF Framed, InOrder, Complete
<1>7. InStep /\ Traced
  BY <1>1, <1>4, MessageConstants DEF InStep, Traced, Boundary, MInit
<1>8. FirstAnswer
  <2>1. NULL \notin Answered
    BY MessageConstants DEF Answered
  <2> QED
    BY <1>1, <1>4, <2>1 DEF FirstAnswer, MInit
<1> QED
  BY <1>3, <1>5, <1>6, <1>7, <1>8 DEF MInv

LEMMA RecvKeeps ==
    ASSUME MInv, ei_recv_internal
    PROVE  MInv'
<1>1. Within
  BY DEF ei_recv_internal, nodevars, Within
<1> QED
  BY <1>1, ReadLengthKeeps, ReadHeaderKeeps, ReadRestKeeps, GarbageKeeps, RecvFailsKeeps
     DEF ei_recv_internal

LEMMA CallKeeps ==
    ASSUME MInv, ei_receive_msg_tmo \/ ei_receive \/ RemoteCall \/ Global
    PROVE  MInv'
<1>1. CASE ei_receive_msg_tmo
  BY <1>1, StartKeeps DEF ei_receive_msg_tmo
<1>2. CASE ei_receive
  BY <1>2, StartKeeps DEF ei_receive
<1>3. CASE RemoteCall
  BY <1>3, StartKeeps DEF RemoteCall, ei_rpc_to
<1>4. CASE Global
  BY <1>4, StartKeeps DEF Global, ei_rpc_to
<1> QED
  BY <1>1, <1>2, <1>3, <1>4

\* Every step keeps the invariant.
LEMMA StepMessages == MInv /\ [MNext]_mvars => MInv'
<1> SUFFICES ASSUME MInv, [MNext]_mvars PROVE MInv'
  OBVIOUS
<1>1. CASE ei_receive_msg_tmo \/ ei_receive \/ RemoteCall \/ Global
  BY <1>1, CallKeeps
<1>2. CASE ei_send_encoded_tmo \/ ei_send_reg_encoded_tmo \/ ei_send_exit_tmo
  BY <1>2, WriteKeeps DEF ei_send_encoded_tmo, ei_send_reg_encoded_tmo, ei_send_exit_tmo
<1>3. CASE Reads
  BY <1>3, RecvKeeps, RawKeeps, RpcFromKeeps DEF Reads
<1>4. CASE NodeMessage \/ NodeAnswers \/ Arrive \/ Close
  BY <1>4, NodeMessageKeeps, NodeAnswersKeeps, ArriveKeeps, CloseKeeps
<1>5. CASE UNCHANGED mvars
  <2>1. Flow' = Flow
    BY <1>5 DEF mvars, Flow
  <2>2. Types' /\ TicksAnswered'
    BY <1>5 DEF mvars, MInv, Types, TicksAnswered
  <2>3. Ticked /\ Framed /\ InStep /\ Traced /\ FirstAnswer
    BY DEF MInv
  <2> HIDE DEF Flow
  <2> QED
    BY <1>5, <2>1, <2>2, <2>3
       DEF mvars, MInv, Ticked, Framed, InStep, Traced, FirstAnswer, TicksIn, InOrder, Complete
<1> QED
  BY <1>1, <1>2, <1>3, <1>4, <1>5 DEF MNext

\* The invariant of the messages, for any number of them.
THEOREM MessagesInvariant == MSpec => []MInv
<1>1. MInit => MInv
  BY InitMessages
<1>2. MInv /\ [MNext]_mvars => MInv'
  BY StepMessages
<1> QED
  BY <1>1, <1>2, PTL DEF MSpec

\* The reader stays in step with the stream, answers every tick and tells the answer
\* to its only call from other messages, however calls and messages interleave
\* (eirecv.c, ei_rpc_from).
THEOREM MessagesAreSound == MSpec => []MessagesSound
<1>1. MInv => MessagesSound
  <2> SUFFICES ASSUME MInv PROVE MessagesSound
    OBVIOUS
  <2>1. stream \in Seq(Chunk) /\ wire \in Seq(Chunk) /\ Flow \in Seq(Chunk)
    BY FlowTypes DEF MInv, Types
  <2>2. MTypeOK
    <3>1. \A i \in DOMAIN stream : stream[i][1] \in {"len", "head", "rest"}
      <4>1. \A i \in DOMAIN stream : stream[i] \in Chunk
        BY <2>1, LenProperties, ElementOfSeq
      <4> QED
        BY <4>1 DEF Chunk, Part
    <3>2. ticks \in 0..MaxSent
      <4>1. TicksIn(Flow) \in Nat /\ ticks \in Nat /\ sent \in 0..MaxSent /\ MaxSent \in Nat
        BY <2>1, TicksFinite, MessageConstants DEF MInv, Types
      <4>2. ticks + TicksIn(Flow) <= sent
        BY DEF MInv, Ticked
      <4> QED
        BY <4>1, <4>2
    <3>3. req.pc \in {"idle", "len", "head", "rest", "drain", "rawlen", "rawhead", "select"}
      BY DEF MInv, Types, Call, Boundary
    <3> QED
      BY <3>1, <3>2, <3>3 DEF MInv, Types, MTypeOK
  <2>3. AtBoundary
    <3>1. stream # <<>> => Flow # <<>> /\ Flow[1] = Head(stream)
      BY <2>1, TailOfBoth DEF Flow
    <3> QED
      BY <3>1 DEF MInv, InStep, AtBoundary, Boundary
  <2>4. TicksAnswered
    BY DEF MInv
  <2>5. OwnAnswers
    BY DEF MInv, FirstAnswer, OwnAnswers, Answered
  <2> QED
    BY <2>2, <2>3, <2>4, <2>5 DEF MessagesSound
<1> QED
  BY <1>1, MessagesInvariant, PTL

\* What is sent after a message has been received carries a token just when that
\* message did, however many were traced before it (ei_trace).
THEOREM TokensArePassedOn == MSpec => TokensPassedOn
<1>1. ASSUME MInv, [MNext]_mvars
      PROVE  up /\ req'.ret = "sent" /\ req.msg # NULL =>
               out'.token = (req.msg.traced /\ Known)
  <2> SUFFICES ASSUME up, req'.ret = "sent", req.msg # NULL
               PROVE  out'.token = (req.msg.traced /\ Known)
    OBVIOUS
  <2>1. req.pc = "idle" /\ tracing = req.msg.traced /\ req.ret # "sent"
    BY <1>1 DEF MInv, Traced
  <2>2. out \in [tocks : Nat, token : BOOLEAN]
    BY <1>1 DEF MInv, Types
  <2>3. ASSUME NEW r, Writes(r) PROVE out'.token = (req.msg.traced /\ Known)
    BY <2>1, <2>2, <2>3 DEF Writes, Written
  <2>4. ASSUME NEW op, NEW pc, NEW static, NEW timed, Starts(op, pc, static, timed)
        PROVE  FALSE
    <3>1. req'.ret = NULL
      BY <2>4 DEF Starts, NoReq
    <3> QED
      BY <3>1, MessageConstants
  <2>5. ~Reads
    BY <2>1 DEF Reads, ei_recv_internal, ei_receive_tmo, ei_rpc_from, ReadLength, ReadHeader,
                ReadRest, Garbage, RecvFails
  <2>6. req' # req
    BY <2>1
  <2>7. ~(NodeMessage \/ NodeAnswers \/ Arrive \/ Close \/ UNCHANGED mvars)
    BY <2>6 DEF NodeMessage, NodeAnswers, Arrive, Close, mvars
  <2>8. ~(ei_receive_msg_tmo \/ ei_receive \/ RemoteCall \/ Global)
    BY <2>4 DEF ei_receive_msg_tmo, ei_receive, RemoteCall, Global
  <2> QED
    BY <1>1, <2>3, <2>5, <2>7, <2>8
       DEF MNext, ei_send_encoded_tmo, ei_send_reg_encoded_tmo, ei_send_exit_tmo
<1> QED
  BY <1>1, MessagesInvariant, PTL DEF MSpec, TokensPassedOn

=============================================================================
