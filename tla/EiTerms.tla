-------------------------------- MODULE EiTerms --------------------------------
(* A message that travels through the codec: a writer encodes terms into a   *)
(* buffer that grows, a reader takes the message apart with any of the       *)
(* decoders.                                                                 *)
(*                                                                           *)
(* A term is the sequence of the items it is encoded with: a header of a     *)
(* list or a tuple is followed by the elements.                              *)
EXTENDS EiDecode

CONSTANTS
    Term,           \* the terms a writer may send, as sequences of items
    Follower,       \* those that may follow the first one
    MaxTerms,       \* how many it sends
    MayRunOut,        \* whether memory may run out
    Careless,       \* whether the writer goes on after an error
    Big             \* the bigs numbers are compared with

ASSUME TermConstants ==
    MaxTerms \in Nat \ {0} /\ MayRunOut \in BOOLEAN /\ Careless \in BOOLEAN

VARIABLES
    stage,      \* "start", "write", "read" or "freed"
    x,          \* the buffer of the writer
    todo,       \* the items of the term that is being written
    count,      \* the terms begun
    sent,       \* the items written, taken apart as the message shows them
    index,      \* the index of the reader
    got         \* what the last decoder made of what

termvars == <<stage, x, todo, count, sent, index, got>>

Nothing == [d |-> "none", p |-> FALSE, at |-> 0, r |-> 0, v |-> NULL]

Memory == IF MayRunOut THEN BOOLEAN ELSE {TRUE}

-----------------------------------------------------------------------------
(* What a message means. *)

Part(t, v, of) == [t |-> t, v |-> v, of |-> of]

\* What the bytes of an item look like to a reader: the empty string is an
\* empty list, a very long one a list of characters, a trace token a tuple.
Parts(item) ==
    LET long(v) == Part("long", v, NULL)
    IN  IF item.t = "string" /\ Len(item.v) = 0 THEN <<Part("list", 0, item.v)>>
        ELSE IF item.t = "string" /\ Len(item.v) > STRINGLIMIT
        THEN <<Part("list", Len(item.v), item.v)>>
             \o [j \in DOMAIN item.v |-> Part("char", item.v[j], NULL)] \o <<Part("list", 0, NULL)>>
        ELSE IF item.t = "trace"
        THEN <<Part("tuple", 5, item.v), long(item.v.flags), long(item.v.label),
               long(item.v.serial), Part("pid", item.v.from, NULL), long(item.v.prev)>>
        ELSE <<Part(item.t, item.v, NULL)>>

\* Where the items of a row begin, counted in bytes.
Offset(items) ==
    LET at[j \in 0..Len(items)] ==
            IF j = 0 THEN 0 ELSE at[j - 1] + Len(Encode(items[j]).w)
    IN  at

\* The number an integer or character is.
Integer(item) == IF item.t = "char" THEN Z(FALSE, <<item.v % 256>>) ELSE item.v

IsInteger(item) == item.t \in {"char", "long", "ulong", "longlong", "ulonglong"}

NumberOf(big) ==
    Z(big.is_neg # 0,
      [j \in 1..big.arity |-> (big.digits[(j + 1) \div 2] \div 256^((j - 1) % 2)) % 256])

Below(m, n) ==
    \/ Len(m) < Len(n)
    \/ /\ Len(m) = Len(n)
       /\ \E j \in DOMAIN m : m[j] < n[j] /\ \A k \in (j + 1)..Len(m) : m[k] = n[k]

Less(a, b) ==
    \/ a.neg /\ ~b.neg
    \/ a.neg /\ b.neg /\ Below(b.mag, a.mag)
    \/ ~a.neg /\ ~b.neg /\ Below(a.mag, b.mag)

\* -2^(8k-1) <= z < 2^(8k-1).
SignedRange(z, k) ==
    LET limit == [j \in 1..k |-> IF j = k THEN 128 ELSE 0]
    IN  IF z.neg THEN ~Below(limit, z.mag) ELSE Below(z.mag, limit)

\* The numbers a decoder of integers can return.
InRange(d, z) ==
    CASE d = "char" -> IsByte(z)
      [] d = "long" -> SignedRange(z, 4)
      [] d = "longlong" -> SignedRange(z, 8)
      [] d = "ulong" -> ~z.neg /\ Len(z.mag) <= 4
      [] d = "ulonglong" -> ~z.neg /\ Len(z.mag) <= 8

IntDecoder == {"char", "long", "ulong", "longlong", "ulonglong"}

\* The value each item has for the decoder of its type: names are cut off,
\* the fields of identifiers have their widths, of a reference three words.
Masked(p) == [p EXCEPT !.num = @ % 32768, !.serial = @ % 8192, !.creation = @ % 4]

Cut(name) == SubSeq(name, 1, Min({Len(name), MAXATOMLEN}))

Meaning(item) ==
    CASE item.t = "version" -> ERL_VERSION_MAGIC
      [] item.t = "atom" -> Cut(item.v)
      [] item.t = "boolean" -> IF item.v = 0 THEN 0 ELSE 1
      [] item.t = "pid" -> Masked(item.v)
      [] item.t = "port" -> [item.v EXCEPT !.id = @ % 2^28, !.creation = @ % 4]
      [] item.t = "ref" -> [item.v EXCEPT !.creation = @ % 4, !.n = SubSeq(@, 1, Min({Len(@), 3}))]
      [] item.t = "fun" -> [item.v EXCEPT !.pid = Masked(@), !.module = Cut(@)]
      [] OTHER -> item.v

-----------------------------------------------------------------------------
(* The writer. *)

TmInit ==
    /\ stage = "start" /\ todo = <<>> /\ count = 0 /\ sent = <<>>
    /\ x = [buff |-> NULL, buffsz |-> 0, index |-> 0]
    /\ index = 0 /\ got = Nothing

New ==
    /\ stage = "start"
    /\ \E ok \in Memory, version \in BOOLEAN :
        LET n == IF version THEN ei_x_new_with_version(ok) ELSE ei_x_new(ok)
        IN  /\ x' = n.x
            /\ stage' = IF n.r < 0 THEN "freed" ELSE "write"
            /\ sent' = IF version /\ n.r = 0 THEN <<Part("version", 0, NULL)>> ELSE sent
    /\ UNCHANGED <<todo, count, index, got>>

BeginTerm ==
    /\ stage = "write" /\ todo = <<>> /\ count < MaxTerms
    /\ \E term \in IF count = 0 THEN Term ELSE Follower : todo' = term
    /\ count' = count + 1
    /\ UNCHANGED <<stage, x, sent, index, got>>

\* An item is written with its ei_x_encode function.
Written(item, ok) ==
    IF item.t = "trace" THEN ei_x_encode_trace(x, item.v, ok) ELSE ei_x_encode(x, Encode(item), ok)

Write ==
    /\ stage = "write" /\ todo # <<>>
    /\ \E ok \in Memory : \E e \in {Written(Head(todo), ok)} :
        /\ x' = e.x
        /\ IF e.r < 0 /\ ~Careless
           THEN stage' = "failed" /\ todo' = <<>> /\ UNCHANGED sent
           ELSE /\ todo' = Tail(todo) /\ UNCHANGED stage
                /\ sent' = IF e.r < 0 THEN sent ELSE sent \o Parts(Head(todo))
    /\ UNCHANGED <<count, index, got>>

\* The rest of a term was encoded into another buffer.
Rest(bytes) == [buff |-> bytes, buffsz |-> Len(bytes) + EXTRA, index |-> Len(bytes)]

WriteRest ==
    /\ stage = "write" /\ todo # <<>> /\ \A j \in DOMAIN todo : Encode(todo[j]).r = 0
    /\ \E ok \in Memory : \E e \in {ei_x_append(x, Rest(FlattenSeq([j \in DOMAIN todo |-> Encode(todo[j]).w])), ok)} :
        /\ x' = e.x
        /\ IF e.r < 0 THEN stage' = "failed" /\ UNCHANGED sent
           ELSE /\ sent' = sent \o FlattenSeq([j \in DOMAIN todo |-> Parts(todo[j])])
                /\ UNCHANGED stage
        /\ todo' = <<>>
    /\ UNCHANGED <<count, index, got>>

Send ==
    /\ stage = "write" /\ todo = <<>> /\ sent # <<>>
    /\ stage' = "read"
    /\ UNCHANGED <<x, todo, count, sent, index, got>>

-----------------------------------------------------------------------------
(* The reader. *)

\* The decoder called d, with or without a place for the result.
Decode(d, buf, i, p, ok) ==
    CASE d = "version" -> ei_decode_version(buf, i, p)
      [] d = "char" -> ei_decode_char(buf, i, p)
      [] d = "long" -> ei_decode_long(buf, i, p)
      [] d = "ulong" -> ei_decode_ulong(buf, i, p)
      [] d = "longlong" -> ei_decode_longlong(buf, i, p)
      [] d = "ulonglong" -> ei_decode_ulonglong(buf, i, p)
      [] d = "big" ->
            LET b == ei_alloc_big(ei_get_type_internal(buf, i).len, {"big", "digits"})
            IN  ei_decode_big(buf, i, IF p THEN b.arity ELSE NULL)
      [] d = "double" -> ei_decode_double(buf, i, p)
      [] d = "atom" -> ei_decode_atom(buf, i, p)
      [] d = "boolean" -> ei_decode_boolean(buf, i, p)
      [] d = "string" -> ei_decode_string(buf, i, p)
      [] d = "intlist" -> ei_decode_intlist(buf, i, p)
      [] d = "binary" -> ei_decode_binary(buf, i, p)
      [] d = "list" -> ei_decode_list_header(buf, i, p)
      [] d = "tuple" -> ei_decode_tuple_header(buf, i, p)
      [] d = "pid" -> ei_decode_pid(buf, i, p)
      [] d = "port" -> ei_decode_port(buf, i, p)
      [] d = "ref" -> ei_decode_ref(buf, i, p)
      [] d = "fun" -> ei_decode_fun(buf, i, p, ok)
      [] d = "trace" -> ei_decode_trace(buf, i)
      [] d = "skip" -> ei_skip_term(buf, i)
      [] d = "term" -> ei_decode_ei_term(buf, i)

Decoder == IntDecoder \cup {"version", "double", "atom", "boolean", "string", "intlist", "binary",
    "list", "tuple", "pid", "port", "ref", "fun", "trace", "skip", "term", "big"}

\* The item the reader stands at; one that has gone astray stops.
AtItem(i) == \E j \in DOMAIN sent : Offset(sent)[j - 1] = i
ItemAt(i) == CHOOSE j \in DOMAIN sent : Offset(sent)[j - 1] = i

\* The reader calls a decoder, the right one or another.
ReadItem ==
    /\ stage = "read" /\ AtItem(index)
    /\ \E d \in Decoder, p \in BOOLEAN : \E ok \in IF d = "fun" THEN Memory ELSE {TRUE} :
        /\ d = "big" => IsBig(x.buff, index)
        /\ \E a \in {Decode(d, x.buff, index, p, ok)} :
               /\ got' = [d |-> d, p |-> p, at |-> index, r |-> a.r, v |-> a.v]
               /\ index' = a.i
    /\ UNCHANGED <<stage, x, todo, count, sent>>

FreeBuffer ==
    /\ stage \in {"failed", "read"}
    /\ x' = ei_x_free(x).x
    /\ stage' = "freed" /\ got' = Nothing /\ index' = 0
    /\ UNCHANGED <<todo, count, sent>>

TmNext == New \/ BeginTerm \/ Write \/ WriteRest \/ Send \/ ReadItem \/ FreeBuffer

-----------------------------------------------------------------------------
(* What the codec promises. *)

TmTypeOK ==
    /\ stage \in {"start", "write", "read", "failed", "freed"}
    /\ x.index \in Nat /\ x.buffsz \in Nat
    /\ index \in Nat /\ got.r \in {-1, 0, 1}
    /\ x.buff # NULL => Len(x.buff) = x.index /\ \A j \in DOMAIN x.buff : x.buff[j] \in (0..255) \cup {NULL}

\* The size computed by the first pass of an encoder is what the second one
\* writes, and the room made from it is enough: no byte is written behind the
\* buffer (x_fix_buff and every ei_encode_ function).
BufferHolds == x.index <= x.buffsz

\* A message that is sent holds what was encoded, from its first byte on, also
\* when it was moved or memory ran out on the way.
MessageWhole ==
    stage = "read" => x.buff = FlattenSeq([j \in DOMAIN sent |-> Encode(sent[j]).w])

\* The decoder that belongs to the item returns what was encoded; a term of
\* ei_decode_ei_term is what its own decoder returns.
ReadAs(item) ==
    /\ (got.d \in {"version", "atom", "boolean", "pid", "port", "ref", "fun"} /\ got.d = item.t) =>
           /\ got.r = 0 \/ got.d = "fun"
           /\ (got.r = 0 /\ got.p) => got.v = Meaning(item)
    /\ (got.d \in {"double", "string", "binary", "list", "tuple"} /\ got.d = item.t) =>
           got.r = 0 /\ (got.p => got.v = item.v)
    /\ (got.d = "string" /\ item.t = "list" /\ item.of # NULL) =>
           got.r = 0 /\ (got.p => got.v = item.of)
    /\ (got.d = "trace" /\ item.t = "tuple" /\ item.of # NULL) =>
           got.r = 0 /\ got.v = [item.of EXCEPT !.from = Masked(@)]
    /\ (got.d = "term" /\ got.r = 1 /\ IsInteger(item)) => got.v \in {NULL, Integer(item)}
    /\ (got.d = "term" /\ got.r = 1 /\ item.t \in {"atom", "pid", "port", "ref"}) => got.v = Meaning(item)
    /\ (got.d = "term" /\ got.r = 1 /\ item.t \in {"list", "tuple"}) => got.v = item.v

\* A decoder of integers accepts exactly the numbers its type holds, whatever
\* encoder sent them, and never cuts one off.
NumberRead(item, z) ==
    (got.d \in IntDecoder /\ (IsInteger(item) \/ item.t = "big")) =>
        /\ got.r = 0 <=> InRange(got.d, z)
        /\ (got.r = 0 /\ got.p) => got.v = IF got.d = "char" THEN Low(z) ELSE z

RangeChecked(item) == NumberRead(item, IF item.t = "big" THEN NumberOf(item.v) ELSE Integer(item))

\* How many items one call steps over.
Depth(j) ==
    LET RECURSIVE Size(_)
        Size(k) ==
            LET n == IF sent[k].t \in {"list", "tuple"} THEN sent[k].v ELSE 0
                whole == IF sent[k].t = "list" /\ n > 0 THEN n + 1 ELSE n
                at[e \in 0..whole] == IF e = 0 THEN k + 1 ELSE at[e - 1] + Size(at[e - 1])
            IN  at[whole] - k
    IN  Size(j)

\* After a call that succeeds the index is behind what was decoded, with a
\* place for the result or without: one item for a decoder, a whole term for
\* ei_skip_term, the elements of a list without its tail for
\* ei_decode_intlist.  After one that fails it is where it was.
ItemsRead(j) ==
    CASE got.d = "skip" -> Depth(j)
      [] got.d = "intlist" /\ sent[j].t = "list" -> 1 + sent[j].v
      [] got.d = "string" /\ sent[j].t = "list" /\ sent[j].v > 0 -> Depth(j)
      [] got.d = "trace" /\ sent[j].t = "tuple" -> Depth(j)
      [] OTHER -> 1

StepsOver(j, offset) ==
    (stage = "read" /\ got # Nothing) =>
        IF got.r < 0 \/ (got.d = "term" /\ got.r = 0) THEN index \in {got.at, offset[j]}
        ELSE index = offset[j - 1 + ItemsRead(j)]

\* The length ei_get_type announces is that of what the decoder then stores:
\* it is what callers allocate.
LengthTold ==
    (stage = "read" /\ got.p /\ got.r = 0) =>
        LET ty == ei_get_type_internal(x.buff, got.at)
        IN  /\ got.d \in {"atom", "string", "binary", "intlist"} => ty.len = Len(got.v)
            /\ got.d \in {"list", "tuple"} => ty.len = got.v
            /\ got.d = "big" => ty.len = got.v.arity

\* Numbers read into bigs are ordered by ei_big_comp as the numbers they stand
\* for, and ei_big_to_double finds the number that was sent.
BigsOrdered(item) ==
    (got.d = "big" /\ got.r = 0 /\ got.p) =>
        \E m \in {ei_big_to_double(got.v)} :
            /\ m = IF item.t = "big" THEN NumberOf(item.v) ELSE Integer(item)
            /\ \A b \in Big : LET c == ei_big_comp(got.v, b)
                                  n == ei_big_to_double(b)
                              IN  (c < 0 <=> Less(m, n)) /\ (c > 0 <=> Less(n, m))

\* The two calls that are known to go wrong: ei_decode_ei_term does not step
\* over the name of the node of a port, and ei_decode_ref with a place for the
\* reference not over its words from the fourth on.
Faulty(d, p, item) ==
    \/ d = "term" /\ item.t = "port"
    \/ d = "ref" /\ p /\ item.t = "ref" /\ item.v.len > 3

\* What a program encodes into a buffer it reads again, whatever the size of the
\* buffer, the decoder it uses, and whether it asks for the value: the whole
\* message arrives, a value is read as itself or refused where its type ends, and
\* the index is left behind what was read, except by the two faulty calls
\* (ei_x_encode.c, the ei_decode_ functions).
CodecSound ==
    /\ TmTypeOK /\ BufferHolds /\ MessageWhole /\ LengthTold
    /\ got # Nothing => \A j \in {ItemAt(got.at)} :
          Faulty(got.d, got.p, sent[j]) \/
             /\ ReadAs(sent[j]) /\ RangeChecked(sent[j]) /\ BigsOrdered(sent[j])
             /\ StepsOver(j, Offset(sent))

\* When ei_decode_ei_term has decoded a term, "the index will be incremented, and
\* the term contains the decoded term" (misc/ei_decode_term.c).
EiTermDecoded ==
    (got.d = "term" /\ got.r = 1) => \A j \in {ItemAt(got.at)} :
        ReadAs(sent[j]) /\ StepsOver(j, Offset(sent))

TmSpec == TmInit /\ [][TmNext]_termvars
=============================================================================
