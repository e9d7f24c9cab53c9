------------------------------- MODULE EiEncode -------------------------------
(* The encoders of erl_interface (src/encode, misc/ei_x_encode.c) for a      *)
(* 32-bit build (EI_64BIT undefined).                                        *)
(*                                                                           *)
(* A message is a sequence of bytes.  An encoder is called twice: with a     *)
(* NULL buffer it only moves the index, then it writes.  Here it is one      *)
(* operator that returns both: n is what the first call adds to the index, w *)
(* the bytes the second one writes, r the code it returns.                   *)
(*                                                                           *)
(* Integers reach 64 bits: they are records of a sign and a magnitude, the   *)
(* bytes of the magnitude from the lowest on, without leading zeros.         *)
EXTENDS Integers, Sequences, SequencesExt, FiniteSetsExt, Nil

CONSTANTS
    MAXATOMLEN,     \* 255 in the code
    STRINGLIMIT,    \* 16#ffff: the longest string that is not sent as a list
    TUPLELIMIT,     \* 16#ff: the largest arity of a small tuple
    BIGLIMIT,       \* 255: the most bytes of a small big
    EXTRA           \* ei_x_extra, 100: what a buffer gets beyond the need

ASSUME EncodeConstants ==
    /\ MAXATOMLEN \in 5..65535 /\ STRINGLIMIT \in 1..65535
    /\ TUPLELIMIT \in 1..255 /\ BIGLIMIT \in 8..255 /\ EXTRA \in Nat \ {0}

ERL_VERSION_MAGIC == 131
ERL_SMALL_INTEGER_EXT == 97
ERL_INTEGER_EXT == 98
ERL_FLOAT_EXT == 99
NEW_FLOAT_EXT == 70
ERL_ATOM_EXT == 100
ERL_REFERENCE_EXT == 101
ERL_NEW_REFERENCE_EXT == 114
ERL_PORT_EXT == 102
ERL_PID_EXT == 103
ERL_SMALL_TUPLE_EXT == 104
ERL_LARGE_TUPLE_EXT == 105
ERL_NIL_EXT == 106
ERL_STRING_EXT == 107
ERL_LIST_EXT == 108
ERL_BINARY_EXT == 109
ERL_SMALL_BIG_EXT == 110
ERL_LARGE_BIG_EXT == 111
ERL_NEW_FUN_EXT == 112
ERL_FUN_EXT == 117

-----------------------------------------------------------------------------
(* Bytes. *)

\* The k bytes of n, from the highest or from the lowest on.
be(n, k) == [j \in 1..k |-> (n \div 256^(k - j)) % 256]

le(n, k) == Reverse(be(n, k))

\* A magnitude of at most four bytes that fits an integer of TLC.
Number(mag) == FoldRight(LAMBDA b, n : 256 * n + b, mag, 0)

Padded(mag, k) == mag \o [j \in 1..(k - Len(mag)) |-> 0]

\* The two's complement of bytes that stand from the lowest on.
Negate(b) ==
    LET low == Min({j \in DOMAIN b : b[j] # 0} \cup {Len(b) + 1})
    IN  [j \in DOMAIN b |-> IF j < low THEN 0 ELSE IF j = low THEN 256 - b[j] ELSE 255 - b[j]]

\* put32be of a signed number.
put32be(p) ==
    LET m == Padded(p.mag, 4) IN Reverse(IF p.neg THEN Negate(m) ELSE m)

\* p & 0xff of a number below 256, p < 0 as a byte.
Low(p) == Padded(p.mag, 1)[1]

SignByte(p) == IF p.neg THEN 1 ELSE 0

\* 0 <= p < 256.
IsByte(p) == ~p.neg /\ Len(p.mag) <= 1

\* ERL_MIN <= p <= ERL_MAX, that is -2^27 <= p < 2^27.
Is28Bits(p) ==
    \/ Len(p.mag) <= 3
    \/ Len(p.mag) = 4 /\ p.mag[4] < 8
    \/ p.neg /\ p.mag = <<0, 0, 0, 8>>

Encoded(n, w) == [r |-> 0, n |-> n, w |-> w]

Refused == [r |-> -1, n |-> 0, w |-> <<>>]

\* Encoders called one after the other.
Then(a, b) == IF a.r < 0 THEN a ELSE [r |-> b.r, n |-> a.n + b.n, w |-> a.w \o b.w]

-----------------------------------------------------------------------------
(* Integers. *)

ei_encode_version == Encoded(1, <<ERL_VERSION_MAGIC>>)

ei_encode_char(p) == Encoded(2, <<ERL_SMALL_INTEGER_EXT, p % 256>>)

SmallInteger(p) == Encoded(2, <<ERL_SMALL_INTEGER_EXT, Low(p)>>)

PlainInteger(p) == Encoded(5, <<ERL_INTEGER_EXT>> \o put32be(p))

ei_encode_long(p) ==
    IF IsByte(p) THEN SmallInteger(p)
    ELSE IF Is28Bits(p) THEN PlainInteger(p)
    ELSE Encoded(7, <<ERL_SMALL_BIG_EXT, 4, SignByte(p)>> \o Padded(p.mag, 4))

ei_encode_ulong(p) ==
    IF ~Is28Bits(p) THEN Encoded(7, <<ERL_SMALL_BIG_EXT, 4, 0>> \o Padded(p.mag, 4))
    ELSE IF IsByte(p) THEN SmallInteger(p)
    ELSE PlainInteger(p)

\* The arity is counted while the bytes are written.
ei_encode_longlong(p) ==
    IF IsByte(p) THEN SmallInteger(p)
    ELSE IF Is28Bits(p) THEN PlainInteger(p)
    ELSE Encoded(3 + Len(p.mag), <<ERL_SMALL_BIG_EXT, Len(p.mag), SignByte(p)>> \o p.mag)

ei_encode_ulonglong(p) ==
    IF IsByte(p) THEN SmallInteger(p)
    ELSE IF Is28Bits(p) THEN PlainInteger(p)
    ELSE Encoded(3 + Len(p.mag), <<ERL_SMALL_BIG_EXT, Len(p.mag), 0>> \o p.mag)

\* Digits have 16 bits; of the last one only the low byte is sent when the
\* number of bytes is odd.
ei_encode_big(big) ==
    LET k == big.arity
        head == IF k <= BIGLIMIT THEN <<ERL_SMALL_BIG_EXT, k>>
                ELSE <<ERL_LARGE_BIG_EXT>> \o be(k, 4)
    IN  Encoded(Len(head) + 1 + k,
                head \o <<big.is_neg>>
                \o [j \in 1..k |-> (big.digits[(j + 1) \div 2] \div 256^((j - 1) % 2)) % 256])

\* The eight bytes of a float are sent as they are.
ei_encode_double(p) == Encoded(9, <<NEW_FLOAT_EXT>> \o p)

-----------------------------------------------------------------------------
(* Atoms, strings, binaries and headers. *)

\* Longer names are cut off.
ei_encode_atom_len(p) ==
    LET len == Min({Len(p), MAXATOMLEN})
    IN  Encoded(3 + len, <<ERL_ATOM_EXT>> \o be(len, 2) \o SubSeq(p, 1, len))

ei_encode_atom(p) == ei_encode_atom_len(p)

True == <<116, 114, 117, 101>>

False == <<102, 97, 108, 115, 101>>

ei_encode_boolean(p) ==
    LET val == IF p = 0 THEN False ELSE True
    IN  Encoded(3 + Len(val), <<ERL_ATOM_EXT>> \o be(Len(val), 2) \o val)

\* The empty string is the empty list, a very long one a list of integers.
ei_encode_string_len(p) ==
    IF p = <<>> THEN Encoded(1, <<ERL_NIL_EXT>>)
    ELSE IF Len(p) <= STRINGLIMIT
         THEN Encoded(3 + Len(p), <<ERL_STRING_EXT>> \o be(Len(p), 2) \o p)
         ELSE Encoded(5 + 2 * Len(p) + 1, <<ERL_LIST_EXT>> \o be(Len(p), 4)
              \o FlattenSeq([j \in DOMAIN p |-> <<ERL_SMALL_INTEGER_EXT, p[j]>>]) \o <<ERL_NIL_EXT>>)

ei_encode_string(p) == ei_encode_string_len(p)

ei_encode_binary(p) == Encoded(5 + Len(p), <<ERL_BINARY_EXT>> \o be(Len(p), 4) \o p)

ei_encode_list_header(arity) ==
    IF arity < 0 THEN Refused
    ELSE IF arity > 0 THEN Encoded(5, <<ERL_LIST_EXT>> \o be(arity, 4))
    ELSE Encoded(1, <<ERL_NIL_EXT>>)

ei_encode_tuple_header(arity) ==
    IF arity < 0 THEN Refused
    ELSE IF arity <= TUPLELIMIT THEN Encoded(2, <<ERL_SMALL_TUPLE_EXT, arity>>)
    ELSE Encoded(5, <<ERL_LARGE_TUPLE_EXT>> \o be(arity, 4))

-----------------------------------------------------------------------------
(* Identifiers, functions and trace tokens. *)

\* The name of a node is not cut off.
Node(p) == <<ERL_ATOM_EXT>> \o be(Len(p.node), 2) \o p.node

ei_encode_pid(p) ==
    Encoded(13 + Len(p.node),
            <<ERL_PID_EXT>> \o Node(p) \o be(p.num % 32768, 4)
            \o be(p.serial % 8192, 4) \o <<p.creation % 4>>)

ei_encode_port(p) ==
    Encoded(9 + Len(p.node),
            <<ERL_PORT_EXT>> \o Node(p) \o be(p.id % 2^28, 4) \o <<p.creation % 4>>)

ei_encode_ref(p) ==
    Encoded(1 + 2 + (3 + Len(p.node)) + p.len * 4 + 1,
            <<ERL_NEW_REFERENCE_EXT>> \o be(p.len, 2) \o Node(p) \o <<p.creation % 4>>
            \o FlattenSeq([j \in 1..p.len |-> be(p.n[j], 4)]))

\* arity is -1 for functions of old releases.  The size of the others counts
\* itself and all that follows it.
ei_encode_fun(p) ==
    LET id == ei_encode_pid(p.pid)
        vars == Encoded(Len(p.free_vars), p.free_vars)
        old == Then(Encoded(5, <<ERL_FUN_EXT>> \o be(p.n_free_vars, 4)),
                 Then(id, Then(ei_encode_atom(p.module),
                 Then(ei_encode_long(p.index), Then(ei_encode_long(p.uniq), vars)))))
        rest == Then(ei_encode_atom(p.module),
                 Then(ei_encode_long(p.old_index), Then(ei_encode_long(p.uniq), Then(id, vars))))
        fixed == <<p.arity>> \o p.md5 \o put32be(p.index) \o be(p.n_free_vars, 4)
        size == 4 + Len(fixed) + Len(rest.w)
    IN  IF p.arity = -1 THEN old
        ELSE Then(Encoded(1 + 4 + 1 + Len(p.md5) + 4 + 4,
                          <<ERL_NEW_FUN_EXT>> \o be(size, 4) \o fixed), rest)

ei_encode_trace(p) ==
    Then(ei_encode_tuple_header(5),
    Then(ei_encode_long(p.flags),
    Then(ei_encode_long(p.label),
    Then(ei_encode_long(p.serial),
    Then(ei_encode_pid(p.from), ei_encode_long(p.prev))))))

\* An item of a message names its encoder.
Encode(item) ==
    CASE item.t = "version" -> ei_encode_version
      [] item.t = "char" -> ei_encode_char(item.v)
      [] item.t = "long" -> ei_encode_long(item.v)
      [] item.t = "ulong" -> ei_encode_ulong(item.v)
      [] item.t = "longlong" -> ei_encode_longlong(item.v)
      [] item.t = "ulonglong" -> ei_encode_ulonglong(item.v)
      [] item.t = "big" -> ei_encode_big(item.v)
      [] item.t = "double" -> ei_encode_double(item.v)
      [] item.t = "atom" -> ei_encode_atom(item.v)
      [] item.t = "boolean" -> ei_encode_boolean(item.v)
      [] item.t = "string" -> ei_encode_string(item.v)
      [] item.t = "binary" -> ei_encode_binary(item.v)
      [] item.t = "list" -> ei_encode_list_header(item.v)
      [] item.t = "tuple" -> ei_encode_tuple_header(item.v)
      [] item.t = "pid" -> ei_encode_pid(item.v)
      [] item.t = "port" -> ei_encode_port(item.v)
      [] item.t = "ref" -> ei_encode_ref(item.v)
      [] item.t = "fun" -> ei_encode_fun(item.v)
      [] item.t = "trace" -> ei_encode_trace(item.v)

-----------------------------------------------------------------------------
(* Buffers that grow.  buff holds the bytes up to the index; ok says whether *)
(* memory can be had.                                                        *)

ei_x_new(ok) == [r |-> IF ok THEN 0 ELSE -1,
                 x |-> [buff |-> IF ok THEN <<>> ELSE NULL, buffsz |-> EXTRA, index |-> 0]]

\* The version is encoded into the fresh buffer without a look at its size.
ei_x_new_with_version(ok) ==
    LET new == ei_x_new(ok)
    IN  IF new.r < 0 THEN new
        ELSE [new EXCEPT !.x.buff = ei_encode_version.w, !.x.index = ei_encode_version.n]

ei_x_free(x) ==
    IF x.buff = NULL THEN [r |-> -1, x |-> x]
    ELSE [r |-> 0, x |-> [x EXCEPT !.buff = NULL]]

\* When a buffer cannot grow its bytes are lost, its new size is not.  A later
\* call may find memory for a fresh one, of which nothing is written.
x_fix_buff(x, szneeded, ok) ==
    LET sz == szneeded + EXTRA
    IN  IF sz <= x.buffsz THEN x
        ELSE [x EXCEPT !.buffsz = sz + EXTRA,
                       !.buff = IF ~ok THEN NULL
                                ELSE IF x.buff = NULL THEN [j \in 1..x.index |-> NULL]
                                ELSE x.buff]

\* Every ei_x_encode_ function: size, room, bytes.  The code of the first pass
\* is not looked at, that of the second is returned.
ei_x_encode(x, e, ok) ==
    LET room == x_fix_buff(x, x.index + e.n, ok)
    IN  IF room.buff = NULL THEN [r |-> -1, x |-> room]
        ELSE [r |-> e.r,
              x |-> [room EXCEPT !.buff = @ \o e.w, !.index = @ + Len(e.w)]]

\* The two passes over a trace token ignore what their parts return.
ei_x_encode_trace(x, trace, ok) == ei_x_encode(x, [ei_encode_trace(trace) EXCEPT !.r = 0], ok)

ei_x_append_buf(x, bytes, ok) == ei_x_encode(x, Encoded(Len(bytes), bytes), ok)

ei_x_append(x, x2, ok) == ei_x_append_buf(x, SubSeq(x2.buff, 1, x2.index), ok)
=============================================================================
