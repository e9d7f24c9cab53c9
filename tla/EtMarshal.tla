------------------------------- MODULE EtMarshal -------------------------------
(* The marshalling of ETERMs, the terms of the old interface of              *)
(* erl_interface (src/legacy/erl_marshal.c).                                 *)
(*                                                                           *)
(* An ETERM is a record of its type t and its value v: a number for the      *)
(* integer types, a sequence for atoms, tuples and binaries.  A row of cons  *)
(* cells is one record: v are the heads, tail what the last cell ends with.  *)
(* Of the floats only the integers from -9 to 9 are modelled.                *)
EXTENDS EiDecode

CONSTANT R9     \* whether identifiers are those of release R9

ASSUME MarshalConstants == R9 \in BOOLEAN

ERL_EMPTY_LIST == [t |-> "nil", v |-> <<>>]

\* INT_MIN <= p <= INT_MAX.
IsInt(p) == FitsSigned(p.neg, p.mag, 4)

erl_mk_pid(node, number, serial, creation) ==
    [t |-> "pid", v |-> [node |-> node, number |-> number % 2^15,
                         serial |-> serial % IF R9 THEN 2^3 ELSE 2^13, creation |-> creation % 4]]

erl_mk_port(node, number, creation) ==
    [t |-> "port", v |-> [node |-> node, number |-> number % IF R9 THEN 2^18 ELSE 2^28,
                          creation |-> creation % 4]]

\* Only the first word is masked.
erl_mk_reference(node, n, creation) ==
    [t |-> "ref", v |-> [node |-> node, creation |-> creation % 4,
                         n |-> [j \in DOMAIN n |-> IF j = 1 THEN n[1] % 2^18 ELSE n[j]]]]

-----------------------------------------------------------------------------
(* Floats. *)

\* sprintf with "%.20e": a digit, its zeros and the exponent, filled up to 31.
FloatText(d) ==
    (IF d < 0 THEN <<45, 48 - d>> ELSE <<48 + d>>) \o <<46>> \o [j \in 1..20 |-> 48]
    \o <<101, 43, 48, 48>> \o [j \in 1..(IF d < 0 THEN 4 ELSE 5) |-> 0]

\* The eight bytes of a double.
FloatBytes(d) ==
    LET m == IF d < 0 THEN -d ELSE d
        e == CHOOSE k \in 0..3 : 2^k <= m /\ m < 2^(k + 1)
        fraction == ((m - 2^e) * 16) \div 2^e
    IN  (IF d = 0 THEN <<0, 0>>
         ELSE <<(IF d < 0 THEN 128 ELSE 0) + (1023 + e) \div 16, ((1023 + e) % 16) * 16 + fraction>>)
        \o [j \in 1..6 |-> 0]

FloatOf(bytes) == CHOOSE d \in -9..9 : bytes \in {FloatText(d), FloatBytes(d)}

-----------------------------------------------------------------------------
(* Encoding.  An encoder returns its bytes, NULL for a term it does not know. *)

\* The number of bytes of a list that is a string, or 0.
is_string(ep) ==
    IF ep.tail.t = "nil" /\ \A j \in DOMAIN ep.v : ep.v[j].t = "int" /\ IsByte(ep.v[j].v)
    THEN Len(ep.v) ELSE 0

erl_length_x(ep) == IF ep.t = "list" THEN Len(ep.v) ELSE 0

SentAsString(ep) == is_string(ep) > 0 /\ is_string(ep) <= STRINGLIMIT

\* A number that fits an int, or the bytes of a big.
Integral(p, bytes) ==
    IF ~IsInt(p) THEN <<ERL_SMALL_BIG_EXT, bytes, SignByte(p)>> \o Padded(p.mag, bytes)
    ELSE IF IsByte(p) THEN <<ERL_SMALL_INTEGER_EXT, Low(p)>>
    ELSE <<ERL_INTEGER_EXT>> \o put32be(p)

\* The name of the node, and the numbers of the identifier.
EncodeIdentifier(t, v) ==
    CASE t = "pid" -> <<ERL_PID_EXT>> \o Node(v) \o be(v.number, 4) \o be(v.serial, 4) \o <<v.creation>>
      [] t = "ref" -> <<ERL_NEW_REFERENCE_EXT>> \o be(Len(v.n), 2) \o Node(v) \o <<v.creation>>
                      \o FlattenSeq([j \in DOMAIN v.n |-> be(v.n[j], 4)])
      [] t = "port" -> <<ERL_PORT_EXT>> \o Node(v) \o be(v.number, 4) \o <<v.creation>>

RECURSIVE erl_encode_it(_)

\* Terms one after the other; one that is not known makes the row fail.
EncodeRow(eps) ==
    LET parts == [j \in DOMAIN eps |-> erl_encode_it(eps[j])]
    IN  IF \E j \in DOMAIN parts : parts[j] = NULL THEN NULL ELSE FlattenSeq(parts)

\* In a function a part that is not known is left out.
EncodeParts(eps) ==
    FlattenSeq([j \in DOMAIN eps |-> IF erl_encode_it(eps[j]) = NULL THEN <<>> ELSE erl_encode_it(eps[j])])

EncodeFun(f) ==
    LET new == EncodeParts(<<f.module, f.index, f.uniq, f.creator>> \o f.closure)
        fixed == <<f.arity>> \o f.md5 \o put32be(f.new_index) \o be(Len(f.closure), 4)
    IN  IF f.arity # -1
        THEN <<ERL_NEW_FUN_EXT>> \o be(4 + Len(fixed) + Len(new), 4) \o fixed \o new
        ELSE <<ERL_FUN_EXT>> \o be(Len(f.closure), 4)
             \o EncodeParts(<<f.creator, f.module, f.index, f.uniq>> \o f.closure)

Headed(head, row) == IF row = NULL THEN NULL ELSE head \o row

erl_encode_it(ep) ==
    LET v == ep.v
        n == Len(v)
    IN  CASE ep.t = "atom" -> <<ERL_ATOM_EXT>> \o be(n, 2) \o v
          [] ep.t \in {"int", "uint"} -> Integral(v, 4)
          [] ep.t \in {"longlong", "ulonglong"} -> Integral(v, 8)
          [] ep.t \in {"pid", "ref", "port"} -> EncodeIdentifier(ep.t, v)
          [] ep.t = "nil" -> <<ERL_NIL_EXT>>
          [] ep.t = "list" -> IF SentAsString(ep)
                              THEN <<ERL_STRING_EXT>> \o be(n, 2) \o [j \in DOMAIN v |-> Low(v[j].v)]
                              ELSE Headed(<<ERL_LIST_EXT>> \o be(erl_length_x(ep), 4),
                                          EncodeRow(Append(v, ep.tail)))
          [] ep.t = "tuple" -> Headed(IF n <= TUPLELIMIT THEN <<ERL_SMALL_TUPLE_EXT, n>>
                                      ELSE <<ERL_LARGE_TUPLE_EXT>> \o be(n, 4), EncodeRow(v))
          [] ep.t = "float" -> <<ERL_FLOAT_EXT>> \o FloatText(v)
          [] ep.t = "binary" -> <<ERL_BINARY_EXT>> \o be(n, 4) \o v
          [] ep.t = "fun" -> EncodeFun(v)
          [] OTHER -> NULL

\* The bytes written, none when a term is not known.
erl_encode_buf(ep) ==
    IF erl_encode_it(ep) = NULL THEN <<>> ELSE <<ERL_VERSION_MAGIC>> \o erl_encode_it(ep)

erl_encode3(ep) == erl_encode_buf(ep)

IntegralLen(p, bytes) == IF ~IsInt(p) THEN 3 + bytes ELSE IF IsByte(p) THEN 2 ELSE 5

RECURSIVE erl_term_len_helper(_)

LenOfRow(eps) == FoldSeq(LAMBDA ep, n : n + erl_term_len_helper(ep), 0, eps)

LenOfList(ep) ==
    IF SentAsString(ep) THEN 3 + Len(ep.v) ELSE 5 + LenOfRow(Append(ep.v, ep.tail))

\* The byte of the arity of a function is not counted.  A variable ends the
\* program.
erl_term_len_helper(ep) ==
    LET v == ep.v
    IN  CASE ep.t = "atom" -> 3 + Len(v)
          [] ep.t \in {"int", "uint"} -> IntegralLen(v, 4)
          [] ep.t \in {"longlong", "ulonglong"} -> IntegralLen(v, 8)
          [] ep.t = "pid" -> 13 + Len(v.node)
          [] ep.t = "ref" -> 1 + 2 + (Len(v.node) + 3) + 1 + 4 * Len(v.n)
          [] ep.t = "port" -> 9 + Len(v.node)
          [] ep.t = "nil" -> 1
          [] ep.t = "list" -> LenOfList(ep)
          [] ep.t = "tuple" -> LenOfRow(v) + IF Len(v) <= TUPLELIMIT THEN 2 ELSE 5
          [] ep.t = "float" -> 32
          [] ep.t = "binary" -> 5 + Len(v)
          [] ep.t = "fun" -> LenOfRow(<<v.creator, v.module, v.index, v.uniq>> \o v.closure)
                             + IF v.arity = -1 THEN 1 + 4 ELSE 1 + 4 + 16 + 4 + 4

erl_term_len(ep) == 1 + erl_term_len_helper(ep)

-----------------------------------------------------------------------------
(* Decoding.  A decoder returns the term, NULL when it failed, and the index *)
(* behind it.                                                                *)

Decoded(e, i) == [e |-> e, i |-> i]

\* A big of a kind that fits, or 1 or -1.
DecodeBig(buf, i) ==
    LET d == Digits(buf, i)
        sign == get8(buf, d.at) # 0
        mag == Bytes(buf, d.at + 1, d.n)
        z == Z(sign, mag)
        end == d.at + 1 + d.n
    IN  IF d.n > 8 THEN Decoded([t |-> "int", v |-> Z(sign, <<1>>)], end)
        ELSE IF d.n = 4 /\ mag[4] >= 128 /\ ~sign THEN Decoded([t |-> "uint", v |-> z], end)
        ELSE IF d.n = 4 /\ mag[4] < 128 THEN Decoded([t |-> "int", v |-> z], end)
        ELSE IF d.n = 8 /\ mag[8] >= 128 /\ ~sign THEN Decoded([t |-> "ulonglong", v |-> z], end)
        ELSE IF sign /\ ~FitsSigned(TRUE, mag, 8) THEN Decoded([t |-> "int", v |-> Z(TRUE, <<1>>)], end)
        ELSE Decoded([t |-> "longlong", v |-> z], end)

RECURSIVE erl_decode_it(_, _)

\* n terms in a row; stop says whether the first failure ends it.
DecodeRow(buf, i, n, stop) ==
    LET at[j \in 0..n] ==
            IF j = 0 THEN [es |-> <<>>, i |-> i]
            ELSE IF stop /\ NULL \in ToSet(at[j - 1].es) THEN at[j - 1]
            ELSE LET d == erl_decode_it(buf, at[j - 1].i)
                 IN  [es |-> Append(at[j - 1].es, d.e), i |-> d.i]
    IN  at[n]

DecodeTuple(buf, i, n) ==
    LET row == DecodeRow(buf, i, n, TRUE)
    IN  IF NULL \in ToSet(row.es) THEN Decoded(NULL, row.i)
        ELSE Decoded([t |-> "tuple", v |-> row.es], row.i)

\* The row of the elements ends with the tail.
DecodeList(buf, i, n) ==
    LET row == DecodeRow(buf, i, n + 1, TRUE)
        end == Len(row.es)
    IN  IF NULL \in ToSet(row.es) THEN Decoded(NULL, row.i)
        ELSE IF row.es[end].t = "list"
        THEN Decoded([t |-> "list", v |-> SubSeq(row.es, 1, n) \o row.es[end].v,
                      tail |-> row.es[end].tail], row.i)
        ELSE Decoded([t |-> "list", v |-> SubSeq(row.es, 1, n), tail |-> row.es[end]], row.i)

DecodeString(buf, i, n) ==
    Decoded(IF n = 0 THEN ERL_EMPTY_LIST
            ELSE [t |-> "list", tail |-> ERL_EMPTY_LIST,
                  v |-> [j \in 1..n |-> [t |-> "int", v |-> Z(FALSE, <<buf[i + j]>>)]]], i + n)

\* The parts of a function are stored whether they could be decoded or not.
DecodeFun(buf, i) ==
    LET n == get32be(buf, i)
        row == DecodeRow(buf, i + 4, 4 + n, FALSE)
        k == get32be(buf, i + 25)
        new == DecodeRow(buf, i + 29, 4 + k, FALSE)
    IN  IF get8(buf, i - 1) = ERL_FUN_EXT
        THEN Decoded([t |-> "fun", v |->
                 [arity |-> -1, creator |-> row.es[1], module |-> row.es[2], index |-> row.es[3],
                  uniq |-> row.es[4], closure |-> SubSeq(row.es, 5, 4 + n)]], row.i)
        ELSE Decoded([t |-> "fun", v |->
                 [arity |-> get8(buf, i + 4), md5 |-> Bytes(buf, i + 5, 16),
                  new_index |-> Signed(Bytes(buf, i + 21, 4)), module |-> new.es[1],
                  index |-> new.es[2], uniq |-> new.es[3], creator |-> new.es[4],
                  closure |-> SubSeq(new.es, 5, 4 + k)]], new.i)

\* Pids, ports and references of both kinds; NULL when no node follows.
DecodeIdentifier(buf, i, tag) ==
    LET a == NodeAt(buf, IF tag = ERL_NEW_REFERENCE_EXT THEN i + 2 ELSE i)
        count == get16be(buf, i)
        word(k, bits) == Word(buf, a.i + k, bits)
    IN  IF ~a.ok THEN Decoded(NULL, i)
        ELSE CASE tag = ERL_PID_EXT ->
                    Decoded(erl_mk_pid(a.node, word(0, 15), word(4, 13), get8(buf, a.i + 8)), a.i + 9)
               [] tag = ERL_PORT_EXT ->
                    Decoded(erl_mk_port(a.node, word(0, 28), get8(buf, a.i + 4)), a.i + 5)
               [] tag = ERL_REFERENCE_EXT ->
                    Decoded(erl_mk_reference(a.node, <<get32be(buf, a.i)>>, get8(buf, a.i + 4)), a.i + 5)
               [] OTHER ->
                    Decoded(erl_mk_reference(a.node, [j \in 1..count |-> get32be(buf, a.i + 4 * j - 3)],
                                             get8(buf, a.i)), a.i + 1 + 4 * count)

erl_decode_it(buf, i0) ==
    LET tag == get8(buf, i0)
        i == i0 + 1
        short == get16be(buf, i)
        long == get32be(buf, i)
        f == ei_decode_double(buf, i0, TRUE)
    IN  CASE tag = ERL_INTEGER_EXT -> Decoded([t |-> "int", v |-> Signed(Bytes(buf, i, 4))], i + 4)
          [] tag = ERL_SMALL_INTEGER_EXT -> Decoded([t |-> "int", v |-> Z(FALSE, <<get8(buf, i)>>)], i + 1)
          [] tag \in {ERL_SMALL_BIG_EXT, ERL_LARGE_BIG_EXT} -> DecodeBig(buf, i0)
          [] tag = ERL_ATOM_EXT -> Decoded([t |-> "atom", v |-> Bytes(buf, i + 2, short)], i + 2 + short)
          [] tag \in {ERL_PID_EXT, ERL_PORT_EXT, ERL_REFERENCE_EXT, ERL_NEW_REFERENCE_EXT} ->
                 DecodeIdentifier(buf, i, tag)
          [] tag = ERL_NIL_EXT -> Decoded(ERL_EMPTY_LIST, i)
          [] tag = ERL_LIST_EXT -> DecodeList(buf, i + 4, long)
          [] tag = ERL_STRING_EXT -> DecodeString(buf, i + 2, short)
          [] tag = ERL_SMALL_TUPLE_EXT -> DecodeTuple(buf, i + 1, get8(buf, i))
          [] tag = ERL_LARGE_TUPLE_EXT -> DecodeTuple(buf, i + 4, long)
          [] tag \in {ERL_FLOAT_EXT, NEW_FLOAT_EXT} -> Decoded([t |-> "float", v |-> FloatOf(f.v)], f.i)
          [] tag = ERL_BINARY_EXT -> Decoded([t |-> "binary", v |-> Bytes(buf, i + 4, long)], i + 4 + long)
          [] tag \in {ERL_FUN_EXT, ERL_NEW_FUN_EXT} -> DecodeFun(buf, i)
          [] OTHER -> Decoded(NULL, i)

erl_verify_magic(buf, i) == IF get8(buf, i) = ERL_VERSION_MAGIC THEN 1 ELSE 0

\* The magic of the version may be there or not.
erl_decode_buf(buf, i) == erl_decode_it(buf, i + erl_verify_magic(buf, i))

erl_decode(buf) == erl_decode_buf(buf, 0).e

-----------------------------------------------------------------------------
(* Looking into an encoded term. *)

\* A string has no type, a big has one of its own.
erl_ext_type(buf, i) ==
    LET tag == get8(buf, i + erl_verify_magic(buf, i))
    IN  CASE tag \in {ERL_SMALL_INTEGER_EXT, ERL_INTEGER_EXT} -> "int"
          [] tag = ERL_ATOM_EXT -> "atom"
          [] tag = ERL_PID_EXT -> "pid"
          [] tag = ERL_PORT_EXT -> "port"
          [] tag \in {ERL_REFERENCE_EXT, ERL_NEW_REFERENCE_EXT} -> "ref"
          [] tag = ERL_NIL_EXT -> "nil"
          [] tag = ERL_LIST_EXT -> "list"
          [] tag \in {ERL_SMALL_TUPLE_EXT, ERL_LARGE_TUPLE_EXT} -> "tuple"
          [] tag \in {ERL_FLOAT_EXT, NEW_FLOAT_EXT} -> "float"
          [] tag = ERL_BINARY_EXT -> "binary"
          [] tag \in {ERL_FUN_EXT, ERL_NEW_FUN_EXT} -> "fun"
          [] tag \in {ERL_SMALL_BIG_EXT, ERL_LARGE_BIG_EXT} -> "big"
          [] OTHER -> "none"

\* The number of elements: a string has none, a function its four parts and
\* the values of its closure.
erl_ext_size(buf, i0) ==
    LET i == i0 + erl_verify_magic(buf, i0)
        tag == get8(buf, i)
    IN  CASE tag = ERL_SMALL_TUPLE_EXT -> get8(buf, i + 1)
          [] tag \in {ERL_LIST_EXT, ERL_LARGE_TUPLE_EXT} -> get32be(buf, i + 1)
          [] tag = ERL_FUN_EXT -> get32be(buf, i + 1) + 4
          [] tag = ERL_NEW_FUN_EXT -> get32be(buf, i + 1 + 4 + 1 + 16 + 4) + 4
          [] erl_ext_type(buf, i) # "none" \/ tag = ERL_STRING_EXT -> 0
          [] OTHER -> -1

Jumped(i) == [r |-> 1, i |-> i]

JumpNode(buf, i, behind) ==
    IF NodeAt(buf, i).ok THEN Jumped(NodeAt(buf, i).i + behind) ELSE [r |-> 0, i |-> i]

RECURSIVE jump(_, _)

JumpRow(buf, i, n) ==
    LET at[j \in 0..n] == IF j = 0 THEN Jumped(i)
                          ELSE IF at[j - 1].r = 0 THEN at[j - 1] ELSE jump(buf, at[j - 1].i)
    IN  at[n]

\* The elements and the tail.
JumpList(buf, i, n) ==
    LET row == JumpRow(buf, i, n)
    IN  IF row.r = 0 THEN row
        ELSE IF get8(buf, row.i) = ERL_NIL_EXT THEN Jumped(row.i + 1)
        ELSE jump(buf, row.i)

\* The jump over a function of the new kind goes too far, and that over a big
\* forgets its sign or goes too far.
jump(buf, i0) ==
    LET tag == get8(buf, i0)
        i == i0 + 1
        short == get16be(buf, i)
        long == get32be(buf, i)
    IN  CASE tag = ERL_VERSION_MAGIC -> jump(buf, i)
          [] tag = ERL_INTEGER_EXT -> Jumped(i + 4)
          [] tag = ERL_SMALL_INTEGER_EXT -> Jumped(i + 1)
          [] tag \in {ERL_ATOM_EXT, ERL_STRING_EXT} -> Jumped(i + 2 + short)
          [] tag = ERL_PID_EXT -> JumpNode(buf, i, 9)
          [] tag \in {ERL_REFERENCE_EXT, ERL_PORT_EXT} -> JumpNode(buf, i, 5)
          [] tag = ERL_NEW_REFERENCE_EXT -> JumpNode(buf, i + 2, 4 * short + 1)
          [] tag = ERL_NIL_EXT -> Jumped(i)
          [] tag = ERL_LIST_EXT -> JumpList(buf, i + 4, long)
          [] tag = ERL_SMALL_TUPLE_EXT -> JumpRow(buf, i + 1, get8(buf, i))
          [] tag = ERL_LARGE_TUPLE_EXT -> JumpRow(buf, i + 4, long)
          [] tag = ERL_FLOAT_EXT -> Jumped(i + 31)
          [] tag = NEW_FLOAT_EXT -> Jumped(i + 8)
          [] tag = ERL_BINARY_EXT -> Jumped(i + 4 + long)
          [] tag = ERL_FUN_EXT -> JumpRow(buf, i + 4, long + 4)
          [] tag = ERL_NEW_FUN_EXT -> Jumped(i + 4 + long + 4)
          [] tag = ERL_SMALL_BIG_EXT -> Jumped(i + get8(buf, i) + 1)
          [] tag = ERL_LARGE_BIG_EXT -> Jumped(i + 4 + long + 4)
          [] OTHER -> [r |-> 0, i |-> i]

\* The index of the element behind as many jumps, NULL when there is none.
peek_ext(buf, i0, jumps) ==
    LET i == i0 + erl_verify_magic(buf, i0)
        tag == get8(buf, i)
        n == IF tag = ERL_SMALL_TUPLE_EXT THEN get8(buf, i + 1) ELSE get32be(buf, i + 1)
        row == JumpRow(buf, IF tag = ERL_SMALL_TUPLE_EXT THEN i + 2 ELSE i + 5, jumps)
    IN  IF \/ tag \notin {ERL_SMALL_TUPLE_EXT, ERL_LARGE_TUPLE_EXT, ERL_LIST_EXT}
           \/ n <= jumps
           \/ row.r = 0
        THEN NULL ELSE row.i

erl_peek_ext(buf, i, jumps) == peek_ext(buf, i, jumps)
=============================================================================
