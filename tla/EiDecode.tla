------------------------------- MODULE EiDecode -------------------------------
(* The decoders of erl_interface (src/decode, misc/get_type.c and            *)
(* misc/ei_decode_term.c) for a 32-bit build.                                *)
(*                                                                           *)
(* buf is the message, i the index of the C code, which counts from 0.  A    *)
(* decoder is given a place for its result or NULL (p); it returns the code  *)
(* r, the new index i and the value v, NULL when it was not wanted.  The     *)
(* decoders that fail leave the index alone.                                 *)
EXTENDS EiEncode

get8(buf, i) == buf[i + 1]

get16be(buf, i) == 256 * buf[i + 1] + buf[i + 2]

\* Lengths and arities are far from the sign bit.
get32be(buf, i) == Number(Reverse(SubSeq(buf, i + 1, i + 4)))

Bytes(buf, i, n) == SubSeq(buf, i + 1, i + n)

\* A magnitude without leading zeros; zero has no sign.
Trim(mag) == SubSeq(mag, 1, Max({j \in DOMAIN mag : mag[j] # 0} \cup {0}))

Z(neg, mag) == [neg |-> neg /\ Trim(mag) # <<>>, mag |-> Trim(mag)]

\* The four bytes of an INTEGER_EXT as a signed number.
Signed(bytes) ==
    IF bytes[1] < 128 THEN Z(FALSE, Reverse(bytes))
    ELSE Z(TRUE, Negate(Reverse(bytes)))

Fail(i) == [r |-> -1, i |-> i, v |-> NULL]

Done(p, i, v) == [r |-> 0, i |-> i, v |-> IF p THEN v ELSE NULL]

-----------------------------------------------------------------------------
(* Integers. *)

\* The number of bytes of a big and the index of its sign.
Digits(buf, i) ==
    IF get8(buf, i) = ERL_SMALL_BIG_EXT THEN [n |-> get8(buf, i + 1), at |-> i + 2]
    ELSE [n |-> get32be(buf, i + 1), at |-> i + 5]

IsBig(buf, i) == get8(buf, i) \in {ERL_SMALL_BIG_EXT, ERL_LARGE_BIG_EXT}

\* A bug of the mutants: the sign bit is not looked at.
FitsUnsigned(neg, mag, k) == Len(Trim(mag)) <= k

\* The value does not exceed the k bytes of a signed number.
FitsSigned(neg, mag, k) ==
    LET u == Padded(Trim(mag), k)
    IN  /\ Len(Trim(mag)) <= k
        /\ \/ u[k] < 128
           \/ neg /\ u[k] = 128 /\ \A j \in 1..(k - 1) : u[j] = 0

DecodeSigned(buf, i, p, k) ==
    LET d == Digits(buf, i)
        neg == get8(buf, d.at) # 0
        mag == Bytes(buf, d.at + 1, d.n)
    IN  CASE get8(buf, i) = ERL_SMALL_INTEGER_EXT -> Done(p, i + 2, Z(FALSE, <<get8(buf, i + 1)>>))
          [] get8(buf, i) = ERL_INTEGER_EXT -> Done(p, i + 5, Signed(Bytes(buf, i + 1, 4)))
          [] IsBig(buf, i) -> IF FitsSigned(neg, mag, k) THEN Done(p, d.at + 1 + d.n, Z(neg, mag))
                              ELSE Fail(i)
          [] OTHER -> Fail(i)

ei_decode_long(buf, i, p) == DecodeSigned(buf, i, p, 4)

ei_decode_longlong(buf, i, p) == DecodeSigned(buf, i, p, 8)

\* Bytes beyond the k that are kept must be zero.
DecodeUnsigned(buf, i, p, k) ==
    LET d == Digits(buf, i)
        mag == Bytes(buf, d.at + 1, d.n)
        plain == Signed(Bytes(buf, i + 1, 4))
    IN  CASE get8(buf, i) = ERL_SMALL_INTEGER_EXT -> Done(p, i + 2, Z(FALSE, <<get8(buf, i + 1)>>))
          [] get8(buf, i) = ERL_INTEGER_EXT /\ ~plain.neg -> Done(p, i + 5, plain)
          [] IsBig(buf, i) /\ get8(buf, d.at) = 0 /\ (\A j \in (k + 1)..d.n : mag[j] = 0) ->
                 Done(p, d.at + 1 + d.n, Z(FALSE, mag))
          [] OTHER -> Fail(i)

ei_decode_ulong(buf, i, p) == DecodeUnsigned(buf, i, p, 4)

ei_decode_ulonglong(buf, i, p) == DecodeUnsigned(buf, i, p, 8)

\* A character is returned as the byte it is sent in.
ei_decode_char(buf, i, p) ==
    LET d == Digits(buf, i)
        plain == Signed(Bytes(buf, i + 1, 4))
    IN  CASE get8(buf, i) = ERL_SMALL_INTEGER_EXT -> Done(p, i + 2, get8(buf, i + 1))
          [] get8(buf, i) = ERL_INTEGER_EXT /\ IsByte(plain) -> Done(p, i + 5, Low(plain))
          [] IsBig(buf, i) /\ get8(buf, d.at) = 0 /\ (\A j \in 2..d.n : get8(buf, d.at + j) = 0) ->
                 Done(p, d.at + 1 + Max({d.n, 1}), get8(buf, d.at + 1))
          [] OTHER -> Fail(i)

\* Digits of 16 bits from k bytes.
Digits16(bytes) ==
    [j \in 1..((Len(bytes) + 1) \div 2) |->
        bytes[2 * j - 1] + IF 2 * j <= Len(bytes) THEN 256 * bytes[2 * j] ELSE 0]

\* b is NULL or has room for arity bytes, which must be what is sent.
ei_decode_big(buf, i, b) ==
    LET d == Digits(buf, i)
    IN  IF ~IsBig(buf, i) \/ b \notin {NULL, d.n} THEN Fail(i)
        ELSE Done(b # NULL, d.at + 1 + d.n,
                  [arity |-> d.n, is_neg |-> get8(buf, d.at),
                   digits |-> Digits16(Bytes(buf, d.at + 1, d.n))])

\* ok: which of the two allocations succeed.
ei_alloc_big(digit_bytes, ok) ==
    IF ok # {"big", "digits"} THEN NULL
    ELSE [arity |-> digit_bytes, is_neg |-> 0,
          digits |-> [j \in 1..((digit_bytes + 1) \div 2) |-> 0]]

I_comp(x, y) ==
    LET differ == {j \in DOMAIN x \cap DOMAIN y : x[j] # y[j]}
    IN  IF Len(x) # Len(y) THEN IF Len(x) < Len(y) THEN -1 ELSE 1
        ELSE IF differ = {} THEN 0
        ELSE IF x[Max(differ)] < y[Max(differ)] THEN -1 ELSE 1

ei_big_comp(x, y) ==
    IF x.is_neg # y.is_neg THEN IF x.is_neg # 0 THEN -1 ELSE 1
    ELSE IF x.is_neg # 0 THEN -I_comp(x.digits, y.digits) ELSE I_comp(x.digits, y.digits)

\* As far as a float holds the number exactly: its sign and magnitude.
ei_big_to_double(b) ==
    Z(b.is_neg # 0, FlattenSeq([j \in DOMAIN b.digits |-> le(b.digits[j], 2)]))

\* DLOW and DHIGH of s itself, not of its absolute value.
ei_small_to_big(s, b) ==
    LET n == Len(b.digits)
    IN  IF n < 2 THEN [r |-> -1, b |-> b]
        ELSE [r |-> 0, b |-> [b EXCEPT !.is_neg = IF s < 0 THEN 1 ELSE 0,
                                       !.digits[1] = s % 65536,
                                       !.digits[2] = (s \div 65536) % 65536]]

\* The old format, a text of 31 characters, is left to sscanf.
ei_decode_double(buf, i, p) ==
    CASE get8(buf, i) = ERL_FLOAT_EXT -> Done(p, i + 32, Bytes(buf, i + 1, 31))
      [] get8(buf, i) = NEW_FLOAT_EXT -> Done(p, i + 9, Bytes(buf, i + 1, 8))
      [] OTHER -> Fail(i)

-----------------------------------------------------------------------------
(* Atoms, strings, binaries and headers. *)

ei_decode_version(buf, i, p) ==
    IF get8(buf, i) # ERL_VERSION_MAGIC THEN Fail(i) ELSE Done(p, i + 1, get8(buf, i))

ei_decode_atom(buf, i, p) ==
    LET len == get16be(buf, i + 1)
    IN  IF get8(buf, i) # ERL_ATOM_EXT THEN Fail(i)
        ELSE Done(p, i + 3 + len, Bytes(buf, i + 3, len))

ei_decode_boolean(buf, i, p) ==
    LET len == get16be(buf, i + 1)
        name == Bytes(buf, i + 3, len)
    IN  IF get8(buf, i) # ERL_ATOM_EXT \/ name \notin {True, False} THEN Fail(i)
        ELSE Done(p, i + 3 + len, IF name = True THEN 1 ELSE 0)

\* A list of characters must be one to its end.
ei_decode_string(buf, i, p) ==
    LET len == get16be(buf, i + 1)
        long == get32be(buf, i + 1)
    IN  CASE get8(buf, i) = ERL_STRING_EXT -> Done(p, i + 3 + len, Bytes(buf, i + 3, len))
          [] /\ get8(buf, i) = ERL_LIST_EXT
             /\ \A j \in 1..long : /\ \A k \in 1..(j - 1) : get8(buf, i + 3 + 2 * k) = ERL_SMALL_INTEGER_EXT
                                   /\ get8(buf, i + 3 + 2 * j) = ERL_SMALL_INTEGER_EXT
             /\ get8(buf, i + 5 + 2 * long) = ERL_NIL_EXT ->
                 Done(p, i + 5 + 2 * long + 1, [j \in 1..long |-> get8(buf, i + 4 + 2 * j)])
          [] get8(buf, i) = ERL_NIL_EXT -> Done(p, i + 1, <<>>)
          [] OTHER -> Fail(i)

\* The integers of a list are read until one cannot be; its tail stays.
ei_decode_intlist(buf, i, p) ==
    LET len == get16be(buf, i + 1)
        long == get32be(buf, i + 1)
        at[j \in 0..long] == IF j = 0 THEN Done(FALSE, i + 5, NULL)
                             ELSE IF at[j - 1].r < 0 THEN at[j - 1]
                             ELSE ei_decode_long(buf, at[j - 1].i, TRUE)
    IN  CASE get8(buf, i) = ERL_STRING_EXT ->
                 Done(p, i + 3 + len, [j \in 1..len |-> Z(FALSE, <<buf[i + 3 + j]>>)])
          [] get8(buf, i) = ERL_LIST_EXT /\ at[long].r = 0 ->
                 Done(p, at[long].i, [j \in 1..long |-> at[j].v])
          [] OTHER -> Fail(i)

ei_decode_binary(buf, i, p) ==
    LET len == get32be(buf, i + 1)
    IN  IF get8(buf, i) # ERL_BINARY_EXT THEN Fail(i)
        ELSE Done(p, i + 5 + len, Bytes(buf, i + 5, len))

ei_decode_list_header(buf, i, p) ==
    CASE get8(buf, i) = ERL_NIL_EXT -> Done(p, i + 1, 0)
      [] get8(buf, i) = ERL_LIST_EXT -> Done(p, i + 5, get32be(buf, i + 1))
      [] OTHER -> Fail(i)

ei_decode_tuple_header(buf, i, p) ==
    CASE get8(buf, i) = ERL_SMALL_TUPLE_EXT -> Done(p, i + 2, get8(buf, i + 1))
      [] get8(buf, i) = ERL_LARGE_TUPLE_EXT -> Done(p, i + 5, get32be(buf, i + 1))
      [] OTHER -> Fail(i)

-----------------------------------------------------------------------------
(* Identifiers, functions and trace tokens. *)

\* The name of a node and the index behind it.
NodeAt(buf, i) ==
    LET len == get16be(buf, i + 1)
    IN  [ok |-> get8(buf, i) = ERL_ATOM_EXT, node |-> Bytes(buf, i + 3, len), i |-> i + 3 + len]

Word(buf, i, bits) == get32be(buf, i) % 2^bits

ei_decode_pid(buf, i, p) ==
    LET a == NodeAt(buf, i + 1)
    IN  IF get8(buf, i) # ERL_PID_EXT \/ ~a.ok THEN Fail(i)
        ELSE Done(p, a.i + 9, [node |-> a.node, num |-> Word(buf, a.i, 15),
                               serial |-> Word(buf, a.i + 4, 13), creation |-> get8(buf, a.i + 8) % 4])

ei_decode_port(buf, i, p) ==
    LET a == NodeAt(buf, i + 1)
    IN  IF get8(buf, i) # ERL_PORT_EXT \/ ~a.ok THEN Fail(i)
        ELSE Done(p, a.i + 5, [node |-> a.node, id |-> Word(buf, a.i, 28),
                               creation |-> get8(buf, a.i + 4) % 4])

\* At most three words have a place.  Without a place for the reference all of
\* its words are stepped over, with one only those that are stored.
ei_decode_ref(buf, i, p) ==
    LET a == NodeAt(buf, i + 1)
        count == get16be(buf, i + 1)
        b == NodeAt(buf, i + 3)
        words == IF p THEN Min({count, 3}) ELSE count
    IN  CASE get8(buf, i) = ERL_REFERENCE_EXT /\ a.ok ->
                 Done(p, a.i + 5, [node |-> a.node, len |-> 1, n |-> <<get32be(buf, a.i)>>,
                                   creation |-> get8(buf, a.i + 4) % 4])
          [] get8(buf, i) = ERL_NEW_REFERENCE_EXT /\ b.ok ->
                 Done(p, b.i + 1 + 4 * words,
                      [node |-> b.node, len |-> count, creation |-> get8(buf, b.i) % 4,
                       n |-> [j \in 1..words |-> get32be(buf, b.i + 4 * j - 3)]])
          [] OTHER -> Fail(i)

\* The type of the term and the length it announces; both formats of floats
\* are one type and announce nothing.
ei_get_type_internal(buf, i) ==
    LET tag == get8(buf, i)
    IN  [type |-> IF tag = NEW_FLOAT_EXT THEN ERL_FLOAT_EXT ELSE tag,
         len |-> CASE tag \in {ERL_SMALL_TUPLE_EXT, ERL_SMALL_BIG_EXT} -> get8(buf, i + 1)
                   [] tag \in {ERL_ATOM_EXT, ERL_STRING_EXT} -> get16be(buf, i + 1)
                   [] tag \in {ERL_FLOAT_EXT, NEW_FLOAT_EXT} -> NULL
                   [] tag \in {ERL_LARGE_TUPLE_EXT, ERL_LIST_EXT, ERL_BINARY_EXT,
                               ERL_LARGE_BIG_EXT} -> get32be(buf, i + 1)
                   [] OTHER -> 0]

\* Decoders called one after the other, up to the first that fails.
Row(buf, i, p, kinds) ==
    LET at[j \in 0..Len(kinds)] ==
            CASE j = 0 -> Done(FALSE, i, NULL)
              [] j > 0 /\ at[j - 1].r < 0 -> at[j - 1]
              [] j > 0 /\ at[j - 1].r = 0 ->
                   CASE kinds[j] = "pid" -> ei_decode_pid(buf, at[j - 1].i, p)
                     [] kinds[j] = "atom" -> ei_decode_atom(buf, at[j - 1].i, p)
                     [] kinds[j] = "long" -> ei_decode_long(buf, at[j - 1].i, p)
    IN  at

RECURSIVE ei_skip_term(_, _)

\* The n free variables behind a row.
FreeVariables(buf, row, n) ==
    LET var[j \in 0..n] == IF j = 0 THEN row
                           ELSE IF var[j - 1].r < 0 THEN var[j - 1]
                           ELSE ei_skip_term(buf, var[j - 1].i)
    IN  var[n]

\* The functions of both formats; ok says whether there is memory for the
\* values of the free variables.
FunExt(buf, i, p, ok, row, last) ==
    IF last.r < 0 \/ (p /\ ~ok) THEN Fail(i)
    ELSE Done(p, last.i,
        [arity |-> -1, pid |-> row[1].v, module |-> row[2].v, index |-> row[3].v, uniq |-> row[4].v,
         n_free_vars |-> get32be(buf, i + 1), free_vars |-> Bytes(buf, row[4].i, last.i - row[4].i)])

NewFunExt(buf, i, p, ok, row, end) ==
    IF row[4].r < 0 \/ end < row[4].i \/ (p /\ ~ok /\ end > row[4].i) THEN Fail(i)
    ELSE Done(p, end,
        [arity |-> get8(buf, i + 5), md5 |-> Bytes(buf, i + 6, 16),
         index |-> Signed(Bytes(buf, i + 22, 4)), n_free_vars |-> get32be(buf, i + 26),
         module |-> row[1].v, old_index |-> row[2].v, uniq |-> row[3].v, pid |-> row[4].v,
         free_vars |-> Bytes(buf, row[4].i, end - row[4].i)])

FunVariables(buf, i, p, ok, row) == FunExt(buf, i, p, ok, row, FreeVariables(buf, row[4], get32be(buf, i + 1)))

ei_decode_fun(buf, i, p, ok) ==
    CASE get8(buf, i) = ERL_FUN_EXT ->
           FunVariables(buf, i, p, ok, Row(buf, i + 5, p, <<"pid", "atom", "long", "long">>))
      [] get8(buf, i) = ERL_NEW_FUN_EXT ->
           NewFunExt(buf, i, p, ok, Row(buf, i + 30, p, <<"atom", "long", "long", "pid">>),
                     i + 1 + get32be(buf, i + 1))
      [] OTHER -> Fail(i)

TraceToken(i, row) ==
    IF row[5].r < 0 THEN Fail(i)
    ELSE Done(TRUE, row[5].i, [flags |-> row[1].v, label |-> row[2].v, serial |-> row[3].v,
                               from |-> row[4].v, prev |-> row[5].v])

ei_decode_trace(buf, i) ==
    IF ei_decode_tuple_header(buf, i, TRUE).v # 5 THEN Fail(i)
    ELSE TraceToken(i, Row(buf, ei_decode_tuple_header(buf, i, TRUE).i, TRUE,
                           <<"long", "long", "long", "pid", "long">>))

\* n terms in a row; what the nested calls return is not looked at.
SkipTerms(buf, i, n) ==
    LET at[j \in 0..n] == IF j = 0 THEN i ELSE ei_skip_term(buf, at[j - 1]).i
    IN  at[n]

\* The tail of a list is the empty list or any term.
SkipTail(buf, i) ==
    IF get8(buf, i) = ERL_NIL_EXT THEN ei_decode_list_header(buf, i, FALSE)
    ELSE Done(FALSE, ei_skip_term(buf, i).i, NULL)

ei_skip_term(buf, i) ==
    LET ty == ei_get_type_internal(buf, i).type
        list == ei_decode_list_header(buf, i, TRUE)
        tuple == ei_decode_tuple_header(buf, i, TRUE)
    IN  CASE ty = ERL_ATOM_EXT -> ei_decode_atom(buf, i, FALSE)
          [] ty = ERL_PID_EXT -> ei_decode_pid(buf, i, FALSE)
          [] ty = ERL_PORT_EXT -> ei_decode_port(buf, i, FALSE)
          [] ty \in {ERL_REFERENCE_EXT, ERL_NEW_REFERENCE_EXT} -> ei_decode_ref(buf, i, FALSE)
          [] ty = ERL_NIL_EXT -> list
          [] ty = ERL_LIST_EXT -> SkipTail(buf, SkipTerms(buf, list.i, list.v))
          [] ty = ERL_STRING_EXT -> ei_decode_string(buf, i, FALSE)
          [] ty \in {ERL_SMALL_TUPLE_EXT, ERL_LARGE_TUPLE_EXT} ->
                 Done(FALSE, SkipTerms(buf, tuple.i, tuple.v), NULL)
          [] ty = ERL_BINARY_EXT -> ei_decode_binary(buf, i, FALSE)
          [] ty \in {ERL_SMALL_INTEGER_EXT, ERL_INTEGER_EXT} -> ei_decode_long(buf, i, FALSE)
          [] ty \in {ERL_SMALL_BIG_EXT, ERL_LARGE_BIG_EXT} -> ei_decode_big(buf, i, NULL)
          [] ty = ERL_FLOAT_EXT -> ei_decode_double(buf, i, FALSE)
          [] ty \in {ERL_FUN_EXT, ERL_NEW_FUN_EXT} -> ei_decode_fun(buf, i, FALSE, TRUE)
          [] OTHER -> Fail(i)

\* Returns 1 and moves the index when it has decoded the term, 0 when the
\* caller has to.  The index does not move over the name of a port's node, and
\* of a big the value is computed but not stored.
ei_decode_ei_term(buf, i) ==
    LET tag == get8(buf, i)
        done(j, v) == [r |-> 1, i |-> j, v |-> v]
        of(d) == IF d.r < 0 THEN d ELSE done(d.i, d.v)
        ref == ei_decode_ref(buf, i, TRUE)
    IN  CASE tag = ERL_SMALL_INTEGER_EXT -> done(i + 2, Z(FALSE, <<get8(buf, i + 1)>>))
          [] tag = ERL_INTEGER_EXT -> done(i + 5, Signed(Bytes(buf, i + 1, 4)))
          [] tag \in {ERL_FLOAT_EXT, NEW_FLOAT_EXT} -> ei_decode_double(buf, i, TRUE)
          [] tag = ERL_ATOM_EXT -> of(ei_decode_atom(buf, i, TRUE))
          [] tag \in {ERL_REFERENCE_EXT, ERL_NEW_REFERENCE_EXT} ->
                 of(IF ref.r < 0 THEN ref ELSE [ref EXCEPT !.i = ei_decode_ref(buf, i, FALSE).i])
          [] tag = ERL_PORT_EXT ->
                 IF ~NodeAt(buf, i + 1).ok THEN Fail(i)
                 ELSE done(i + 9, [node |-> NodeAt(buf, i + 1).node, id |-> Word(buf, i + 4, 28),
                                   creation |-> get8(buf, i + 8) % 4])
          [] tag = ERL_PID_EXT -> of(ei_decode_pid(buf, i, TRUE))
          [] tag \in {ERL_SMALL_TUPLE_EXT, ERL_LARGE_TUPLE_EXT} -> of(ei_decode_tuple_header(buf, i, TRUE))
          [] tag \in {ERL_NIL_EXT, ERL_LIST_EXT} -> of(ei_decode_list_header(buf, i, TRUE))
          [] tag = ERL_STRING_EXT -> [r |-> 0, i |-> i, v |-> get16be(buf, i + 1)]
          [] tag = ERL_BINARY_EXT -> [r |-> 0, i |-> i, v |-> get32be(buf, i + 1)]
          [] tag = ERL_SMALL_BIG_EXT ->
                 IF get8(buf, i + 1) # 4 \/ ~FitsSigned(get8(buf, i + 2) # 0, Bytes(buf, i + 3, 4), 4)
                 THEN Fail(i) ELSE done(i + 7, NULL)
          [] tag \in {ERL_LARGE_BIG_EXT, ERL_NEW_FUN_EXT} -> [r |-> 0, i |-> i, v |-> NULL]
          [] OTHER -> Fail(i)
=============================================================================
