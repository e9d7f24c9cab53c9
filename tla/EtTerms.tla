-------------------------------- MODULE EtTerms --------------------------------
(* Messages of the old interface: terms are encoded one behind the other into*)
(* a buffer, by erl_encode_buf or by the ei library of another program, and  *)
(* the buffer is decoded, looked into, stepped over and compared.            *)
EXTENDS EtCompare

CONSTANTS
    Eterm,      \* the terms erl_encode_buf is called with
    Foreign,    \* terms e another program encodes as the items of items
    MaxEterms

ASSUME EtConstants == MaxEterms \in Nat \ {0}

VARIABLES
    message,    \* the terms encoded so far: e the term, w its bytes
    mindex,     \* the index of the reader
    found       \* what the last call (d, at its index) found: a term e, a value v, an index i

etvars == <<message, mindex, found>>

NoCall == [d |-> "none", at |-> 0, k |-> 0, e |-> NULL, v |-> NULL, i |-> NULL]

EtInit == message = <<>> /\ mindex = 0 /\ found = NoCall

Buffer == FlattenSeq([j \in DOMAIN message |-> message[j].w])

\* Where the j-th term begins.
StartOf(j) == FoldSeq(LAMBDA t, n : n + Len(t.w), 0, SubSeq(message, 1, j - 1))

Sent == \E j \in DOMAIN message : StartOf(j) = mindex

EncodeTerm ==
    \E e \in Eterm :
        /\ Len(message) < MaxEterms
        /\ message' = Append(message, [e |-> e, w |-> erl_encode_buf(e)])
        /\ found' = NoCall
        /\ UNCHANGED mindex

\* The items of a foreign term, encoded by ei.
EncodeForeign ==
    \E f \in Foreign :
        /\ Len(message) < MaxEterms
        /\ message' = Append(message, [e |-> f.e, w |-> ei_encode_version.w
                              \o FlattenSeq([j \in DOMAIN f.items |-> Encode(f.items[j]).w])])
        /\ found' = NoCall
        /\ UNCHANGED mindex

Finds(d, k, e, v, i) ==
    /\ found' = [d |-> d, at |-> mindex, k |-> k, e |-> e, v |-> v, i |-> i]
    /\ UNCHANGED message

DecodeTerm ==
    /\ Sent
    /\ LET r == erl_decode_buf(Buffer, mindex)
       IN  Finds("decode", 0, r.e, NULL, r.i) /\ mindex' = r.i

\* ei_skip_term starts behind the magic of the version.
SkipTerm ==
    /\ Sent
    /\ LET r == ei_skip_term(Buffer, mindex + 1)
       IN  Finds("skip", 0, NULL, NULL, r.i) /\ mindex' = r.i

\* The types of integers; a big is one that was encoded by ei.
IntegerType == {"int", "uint", "longlong", "ulonglong", "big"}

\* The bytes of the big an integer is sent as, 0 when it is not sent as a big.
Width(e) ==
    IF e.t = "big" THEN Len(e.v.mag) ELSE IF IsInt(e.v) THEN 0 ELSE IF e.t = "uint" THEN 4 ELSE 8

\* Whether the term holds a big or a function of the new kind.
RECURSIVE Holds(_, _)
Holds(e, kinds) ==
    \/ e.t \in kinds \/ (e.t = "fun" /\ e.v.arity # -1 /\ "newfun" \in kinds)
    \/ e.t \in IntegerType /\ "big" \in kinds /\ Width(e) > 0
    \/ e.t \in {"tuple", "list"} /\ \E j \in DOMAIN e.v : Holds(e.v[j], kinds)
    \/ e.t = "list" /\ Holds(e.tail, kinds)
    \/ e.t = "fun" /\ \E j \in DOMAIN e.v.closure : Holds(e.v.closure[j], kinds)

\* Behind a message lies other memory, here zeros.
Laid(w) == w \o [k \in 1..32 |-> 0]

\* The jump of erl_peek_ext.
JumpTerm ==
    /\ Sent
    /\ LET r == jump(Laid(Buffer), mindex)
       IN  Finds("jump", 0, NULL, r.r, r.i) /\ UNCHANGED mindex

\* A call that looks at an element of a term.
PeekTerm ==
    /\ Sent
    /\ \E k \in 0..3 :
           Finds("peek", k, NULL, erl_ext_size(Buffer, mindex), erl_peek_ext(Laid(Buffer), mindex, k))
    /\ UNCHANGED mindex

CompareTerms ==
    /\ Len(message) >= 2
    /\ \E c \in {[k \in 1..2 |-> erl_compare_ext(Laid(message[k].w), Laid(message[3 - k].w))]} : Finds("compare", 0, NULL, c[1], c[2])
    /\ UNCHANGED mindex

EtNext == \/ EncodeTerm \/ EncodeForeign \/ DecodeTerm \/ SkipTerm
          \/ JumpTerm \/ PeekTerm \/ CompareTerms

-----------------------------------------------------------------------------
(* What the old interface promises. *)

\* The same term whatever type its integers have and however its lists were
\* encoded.
RECURSIVE Plain(_)
PlainRow(es) == [j \in DOMAIN es |-> Plain(es[j])]
Plain(e) ==
    CASE e.t \in IntegerType -> [e EXCEPT !.t = "int"]
      [] e.t = "tuple" -> [e EXCEPT !.v = PlainRow(@)]
      [] e.t = "list" -> [t |-> "list", v |-> PlainRow(e.v), tail |-> Plain(e.tail)]
      [] e.t = "fun" -> [e EXCEPT !.v.closure = PlainRow(@), !.v.index = Plain(@), !.v.uniq = Plain(@)]
      [] OTHER -> e

At(i) == CHOOSE j \in DOMAIN message : StartOf(j) = i

EtTypeOK ==
    /\ mindex \in 0..Len(Buffer)
    /\ found.d \in {"none", "decode", "skip", "jump", "peek", "compare"}
    /\ \A k \in DOMAIN Buffer : Buffer[k] \in 0..255

\* The buffer a caller makes from erl_term_len is what erl_encode fills
\* (erl_marshal.c:488); the functions of the new kind are one byte longer.
LengthEnough ==
    \A j \in DOMAIN message :
        (message[j].e \in Eterm /\ ~Holds(message[j].e, {"newfun"})) =>
            erl_term_len(message[j].e) = Len(erl_encode_buf(message[j].e))

\* The same for every term, as the comment says.
TermLenEnough ==
    \A j \in DOMAIN message :
        message[j].e \in Eterm => erl_term_len(message[j].e) >= Len(erl_encode_buf(message[j].e))

\* A term is decoded as it was encoded, by whatever library, and the next one
\* is found behind it.
RoundTrip ==
    found.d = "decode" =>
        /\ found.e # NULL /\ Plain(found.e) = Plain(message[At(found.at)].e)
        /\ found.i = StartOf(At(found.at) + 1)

\* The jump is known to go wrong over these: it forgets the sign of a small big,
\* and counts the length field of a large one and of a new function twice.
Overjumped(e) == Holds(e, {"big", "newfun"})

\* ei_skip_term and the jump of erl_peek_ext find the end of what
\* erl_encode_buf wrote, the jump unless it goes wrong.
EndFound ==
    found.d \in {"skip", "jump"} =>
        \/ found.i = StartOf(At(found.at) + 1)
        \/ found.d = "jump" /\ Overjumped(message[At(found.at)].e)

\* erl_peek_ext finds the element of a compound term, unless the jump goes wrong
\* over one before it, and none behind the last one that erl_ext_size counts.
PeekRight ==
    found.d = "peek" =>
        LET e == message[At(found.at)].e
            string == Buffer[found.at + 2] = ERL_STRING_EXT
            n == IF e.t \in {"tuple", "list"} /\ ~string THEN Len(e.v) ELSE 0
        IN  /\ e.t # "fun" => found.v = n
            /\ found.k >= n => found.i = NULL
            /\ found.k < n =>
                 \/ \E j \in 1..found.k : Overjumped(e.v[j])
                 \/ /\ found.i # NULL
                    /\ Plain(erl_decode_it(Buffer, found.i).e) = Plain(e.v[found.k + 1])

\* "MOVE the POINTER PAST the ENCODED ETERM we are currently pointing at.
\* Returns 1 at success" (jump in erl_marshal.c): the jump ends behind the term,
\* whatever the term.
JumpsPast == found.d = "jump" => found.v = 1 /\ found.i = StartOf(At(found.at) + 1)

-----------------------------------------------------------------------------
(* The order of terms. *)

Order(e) ==
    CASE e.t \in IntegerType \cup {"float"} -> 1
      [] e.t = "atom" -> 2 [] e.t = "ref" -> 3 [] e.t = "fun" -> 4 [] e.t = "port" -> 5
      [] e.t = "pid" -> 6 [] e.t = "tuple" -> 7 [] e.t = "nil" -> 8 [] e.t = "list" -> 9
      [] e.t = "binary" -> 10

Value(e) == IF e.t = "float" THEN to_float(e.v) ELSE e.v

\* What follows k elements of a list.
After(e, k) == IF k = Len(e.v) THEN e.tail ELSE [e EXCEPT !.v = SubSeq(@, k + 1, Len(@))]

\* The order of Erlang, 2 for identifiers, which are only told apart.
RECURSIVE Compared(_, _)
Compared(x, y) ==
    LET n == Min({Len(x.v), Len(y.v)})
        elements == [j \in 1..n |-> Compared(x.v[j], y.v[j])]
    IN  CASE Order(x) # Order(y) -> Sign(Order(x), Order(y))
          [] Order(x) = Order(y) /\ Order(x) = 1 -> ZSign(Value(x), Value(y))
          [] Order(x) = Order(y) /\ x.t \in {"atom", "binary"} -> cmpbytes(x.v, y.v)
          [] Order(x) = Order(y) /\ x.t = "nil" -> 0
          [] Order(x) = Order(y) /\ x.t = "tuple" ->
                 IF Len(x.v) # Len(y.v) THEN Sign(Len(x.v), Len(y.v)) ELSE First(elements)
          [] Order(x) = Order(y) /\ x.t = "list" ->
                 IF First(elements) # 0 THEN First(elements) ELSE Compared(After(x, n), After(y, n))
          [] Order(x) = Order(y) /\ x.t \in {"ref", "port", "pid", "fun"} -> IF x.v = y.v THEN 0 ELSE 2

\* The code compares these two by a rule of its own: an int with a big, bigs
\* of two sizes, a list with a longer one, a small tuple with a large one,
\* functions.
RECURSIVE Crooked(_, _)
Crooked(x, y) ==
    LET n == Min({Len(x.v), Len(y.v)})
        same == \A j \in 1..n : Compared(x.v[j], y.v[j]) = 0
    IN  /\ Order(x) = Order(y)
        /\ CASE Order(x) = 1 -> "float" \notin {x.t, y.t} /\ Width(x) # Width(y)
             [] x.t = "fun" -> TRUE
             [] x.t = "list" -> \/ same /\ Len(x.v) # Len(y.v)
                                \/ \E j \in 1..n : Crooked(x.v[j], y.v[j])
                                \/ Len(x.v) = Len(y.v) /\ Crooked(x.tail, y.tail)
             [] x.t = "tuple" -> \/ (Len(x.v) <= TUPLELIMIT) # (Len(y.v) <= TUPLELIMIT)
                                 \/ \E j \in 1..n : Crooked(x.v[j], y.v[j])
             [] OTHER -> FALSE

\* erl_compare_ext orders encoded terms as Erlang orders the terms.
OrderTrue ==
    found.d = "compare" =>
        LET x == message[1].e
            y == message[2].e
        IN  Crooked(x, y) \/ Compared(x, y) \in {found.v, 2}

\* Turned around, two terms compare the other way; only equal terms are equal.
OrderTurned ==
    found.d = "compare" =>
        LET x == message[1].e
            y == message[2].e
        IN  Crooked(x, y) \/ /\ found.v = -found.i
                             /\ found.v = 0 <=> Compared(x, y) = 0

\* "COMPARE TWO encoded BYTE ARRAYS e1 and e2. Return: -1 if e1 < e2, 0 if e1 == e2"
\* (compare_top_ext in erl_marshal.c): any two terms, those with a rule of their own
\* as well.
ComparesAll ==
    found.d = "compare" =>
        LET c == Compared(message[1].e, message[2].e)
        IN  c \in {-1, 0} => found.v = c

\* The functions that work on encoded ETERMs agree with each other and with the
\* terms: length, encoding, decoding, search, skipping and order, each with the
\* terms it is known to get wrong left out by name (erl_marshal.c).
EtermsSound ==
    /\ EtTypeOK /\ LengthEnough /\ RoundTrip /\ EndFound /\ PeekRight
    /\ OrderTrue /\ OrderTurned

EtSpec == EtInit /\ [][EtNext]_etvars
=============================================================================
