------------------------------- MODULE EtCompare -------------------------------
(* Comparison of encoded terms (the second half of src/legacy/erl_marshal.c).*)
(*                                                                           *)
(* a and b are messages, i and j the indices in them.  A comparison returns  *)
(* c, -1, 0 or 1, and where it leaves the two indices: what follows in a     *)
(* tuple or a list is compared from there.                                   *)
EXTENDS EtMarshal

CMP_EXT_ERROR_CODE == 4711

Cmp(c, i, j) == [c |-> c, i |-> i, j |-> j]

\* The comparison of the second argument with the first one.
Turned(r) == Cmp(-r.c, r.j, r.i)

Sign(x, y) == IF x < y THEN -1 ELSE IF x > y THEN 1 ELSE 0

cmpbytes(s1, s2) ==
    LET differ == {k \in DOMAIN s1 \cap DOMAIN s2 : s1[k] # s2[k]}
    IN  IF differ = {} THEN Sign(Len(s1), Len(s2)) ELSE Sign(s1[Min(differ)], s2[Min(differ)])

\* The order of kinds of terms.
cmp_array(tag) ==
    CASE tag \in {ERL_SMALL_INTEGER_EXT, ERL_INTEGER_EXT, ERL_FLOAT_EXT, NEW_FLOAT_EXT,
                  ERL_SMALL_BIG_EXT, ERL_LARGE_BIG_EXT} -> 1
      [] tag = ERL_ATOM_EXT -> 2
      [] tag \in {ERL_REFERENCE_EXT, ERL_NEW_REFERENCE_EXT} -> 3
      [] tag \in {ERL_FUN_EXT, ERL_NEW_FUN_EXT} -> 4
      [] tag = ERL_PORT_EXT -> 5
      [] tag = ERL_PID_EXT -> 6
      [] tag \in {ERL_SMALL_TUPLE_EXT, ERL_LARGE_TUPLE_EXT} -> 7
      [] tag = ERL_NIL_EXT -> 8
      [] tag \in {ERL_STRING_EXT, ERL_LIST_EXT} -> 9
      [] tag = ERL_BINARY_EXT -> 10
      [] OTHER -> 0

-----------------------------------------------------------------------------
(* Numbers. *)

ZLess(x, y) ==
    LET below(p, q) == I_comp(p.mag, q.mag) < 0
    IN  IF x.neg # y.neg THEN x.neg ELSE IF x.neg THEN below(y, x) ELSE below(x, y)

ZSign(x, y) == IF ZLess(x, y) THEN -1 ELSE IF ZLess(y, x) THEN 1 ELSE 0

\* The number a float is.
to_float(d) == Z(d < 0, <<IF d < 0 THEN -d ELSE d>>)

cmp_floats(f1, f2) == ZSign(f1, f2)

FloatAt(buf, i) == to_float(FloatOf(ei_decode_double(buf, i, TRUE).v))

FloatEnd(buf, i) == ei_decode_double(buf, i, FALSE).i

BigAt(buf, i) == ei_decode_big(buf, i, ei_get_type_internal(buf, i).len)

\* ei_alloc_big counts bytes: the big made for the small one has one digit,
\* too few for ei_small_to_big.
SmallToBig(l) ==
    ei_small_to_big(IF l.neg THEN -Number(l.mag) ELSE Number(l.mag), ei_alloc_big(2, {"big", "digits"}))

CmpSmallBig(i, j, l, small, big) ==
    IF l.r < 0 \/ small.r < 0 THEN Cmp(-1, i, j)
    ELSE IF big.r < 0 THEN Cmp(1, i, j)
    ELSE Cmp(ei_big_comp(small.b, big.v), l.i, big.i)

cmp_small_big(a, i, b, j) ==
    CmpSmallBig(i, j, ei_decode_long(a, i, TRUE), SmallToBig(ei_decode_long(a, i, TRUE).v), BigAt(b, j))

cmp_small_float(a, i, b, j) ==
    Cmp(cmp_floats(ei_decode_long(a, i, TRUE).v, FloatAt(b, j)), ei_decode_long(a, i, TRUE).i, FloatEnd(b, j))

cmp_float_big(a, i, b, j) ==
    LET big == BigAt(b, j)
    IN  Cmp(cmp_floats(FloatAt(a, i), ei_big_to_double(big.v)), FloatEnd(a, i), big.i)

CmpSmalls(x, y) == Cmp(ZSign(x.v, y.v), x.i, y.i)

cmp_small_small(a, i, b, j) == CmpSmalls(ei_decode_long(a, i, TRUE), ei_decode_long(b, j, TRUE))

cmp_float_float(a, i, b, j) ==
    Cmp(cmp_floats(FloatAt(a, i), FloatAt(b, j)), FloatEnd(a, i), FloatEnd(b, j))

cmp_big_big(a, i, b, j) ==
    LET x == BigAt(a, i)
        y == BigAt(b, j)
    IN  Cmp(ei_big_comp(x.v, y.v), x.i, y.i)

NumberClass(tag) ==
    CASE tag \in {ERL_SMALL_INTEGER_EXT, ERL_INTEGER_EXT} -> "small"
      [] tag \in {ERL_FLOAT_EXT, NEW_FLOAT_EXT} -> "float"
      [] tag \in {ERL_SMALL_BIG_EXT, ERL_LARGE_BIG_EXT} -> "big"

cmp_number(a, i, b, j) ==
    LET class == <<NumberClass(get8(a, i)), NumberClass(get8(b, j))>>
    IN  CASE class = <<"small", "big">> -> cmp_small_big(a, i, b, j)
          [] class = <<"big", "small">> -> Turned(cmp_small_big(b, j, a, i))
          [] class = <<"small", "float">> -> cmp_small_float(a, i, b, j)
          [] class = <<"float", "small">> -> Turned(cmp_small_float(b, j, a, i))
          [] class = <<"float", "big">> -> cmp_float_big(a, i, b, j)
          [] class = <<"big", "float">> -> Turned(cmp_float_big(b, j, a, i))
          [] class = <<"small", "small">> -> cmp_small_small(a, i, b, j)
          [] class = <<"float", "float">> -> cmp_float_float(a, i, b, j)
          [] class = <<"big", "big">> -> cmp_big_big(a, i, b, j)

-----------------------------------------------------------------------------
(* Terms of one kind. *)

\* The index behind the name of a node.
BehindNode(buf, i) == i + 3 + get16be(buf, i + 1)

\* What cmp_refs reads of a reference: the words, from the highest on.
RefParts(buf, i) ==
    LET old == get8(buf, i) = ERL_REFERENCE_EXT
        node == IF old THEN i + 1 ELSE i + 3
        k == BehindNode(buf, node)
        n == IF old THEN 1 ELSE get16be(buf, i + 1)
        word(w) == IF old THEN Bytes(buf, k, 4) ELSE Bytes(buf, k + 4 * w - 3, 4)
    IN  [node |-> node, creation |-> get8(buf, IF old THEN k + 4 ELSE k),
         ids |-> [w \in 1..n |-> word(n + 1 - w)], end |-> IF old THEN k + 5 ELSE k + 1 + 4 * n]

\* The first difference of a row of comparisons.
First(signs) ==
    LET differ == {k \in DOMAIN signs : signs[k] # 0}
    IN  IF differ = {} THEN 0 ELSE signs[Min(differ)]

\* References of different lengths are compared as numbers: the words one of
\* them has more are compared with zeros.
Aligned(ids, n) == [w \in 1..(n - Len(ids)) |-> <<0, 0, 0, 0>>] \o ids

RECURSIVE cmp_exe2(_, _, _, _)

CmpWords(p, q) == First([w \in DOMAIN p |-> cmpbytes(p[w], q[w])])

CmpRefs(x, y, node, n) ==
    Cmp(IF node # 0 THEN node
        ELSE IF x.creation # y.creation THEN Sign(x.creation, y.creation)
        ELSE CmpWords(Aligned(x.ids, n), Aligned(y.ids, n)), x.end, y.end)

RefsAt(a, b, x, y) == CmpRefs(x, y, cmp_exe2(a, x.node, b, y.node).c, Max({Len(x.ids), Len(y.ids)}))

cmp_refs(a, i, b, j) == RefsAt(a, b, RefParts(a, i), RefParts(b, j))

\* The serial, the number, the node, the creation.
CmpPids(a, i, b, j) ==
    LET p == BehindNode(a, i)
        q == BehindNode(b, j)
    IN  Cmp(First(<<cmpbytes(Bytes(a, p + 4, 4), Bytes(b, q + 4, 4)),
                    cmpbytes(Bytes(a, p, 4), Bytes(b, q, 4)),
                    cmp_exe2(a, i, b, j).c,
                    Sign(get8(a, p + 8), get8(b, q + 8))>>), p + 9, q + 9)

\* The node, the creation, the number.
CmpPorts(a, i, b, j) ==
    LET p == BehindNode(a, i)
        q == BehindNode(b, j)
    IN  IF get8(a, i) # ERL_ATOM_EXT \/ get8(b, j) # ERL_ATOM_EXT THEN Cmp(CMP_EXT_ERROR_CODE, i, j)
        ELSE Cmp(First(<<cmp_exe2(a, i, b, j).c, Sign(get8(a, p + 4), get8(b, q + 4)),
                         cmpbytes(Bytes(a, p, 4), Bytes(b, q, 4))>>), p + 5, q + 5)

\* A string and a list: the string is compared as a list.  The index of the
\* string stays where it is.
cmp_string_list(a, i, b, j) ==
    LET n == get16be(a, i + 1)
        list == <<ERL_LIST_EXT, 0, 0>> \o be(n, 2)
                \o FlattenSeq([k \in 1..n |-> <<ERL_SMALL_INTEGER_EXT, get8(a, i + 2 + k)>>]) \o <<ERL_NIL_EXT>>
        r == cmp_exe2(list, 0, b, j)
    IN  Cmp(r.c, i, r.j)

\* Two types are compared by kind first, the magic of the version is skipped.
CompareKinds(a, i, b, j, x, y) ==
    IF x # y THEN Cmp(Sign(x, y), i, j)
    ELSE IF x = 1 THEN cmp_number(a, i, b, j)
    ELSE IF x = 3 THEN cmp_refs(a, i, b, j)
    ELSE cmp_exe2(a, i, b, j)

BehindMagic(a, i, b, j) == CompareKinds(a, i, b, j, cmp_array(get8(a, i)), cmp_array(get8(b, j)))

compare_top_ext(a, i, b, j) == BehindMagic(a, i + erl_verify_magic(a, i), b, j + erl_verify_magic(b, j))

\* n terms in a row, up to the first difference.
CmpRow(a, i, b, j, n) ==
    LET at[k \in 0..n] == IF k = 0 THEN Cmp(0, i, j)
                          ELSE IF at[k - 1].c # 0 THEN at[k - 1]
                          ELSE compare_top_ext(a, at[k - 1].i, b, at[k - 1].j)
    IN  at[n]

\* What the headers of two compound terms say: a difference, or how many
\* elements are to be compared.  Of lists these are as many as both have, and
\* what follows them.
Header(c, i, j, n) == [c |-> c, i |-> i, j |-> j, n |-> n]

ListHeader(i, j, m, n) == Header(0, i + 4, j + 4, IF m = 0 /\ n = 0 THEN 0 ELSE Min({m, n}) + 1)

TupleHeader(i, j, m, n, bytes) == Header(Sign(m, n), i + bytes, j + bytes, m)

\* Both arities are read in the format of the first tuple.
CompoundHeader(a, i, b, j, tag) ==
    CASE tag = ERL_LIST_EXT -> ListHeader(i, j, get32be(a, i), get32be(b, j))
      [] tag = ERL_SMALL_TUPLE_EXT -> TupleHeader(i, j, get8(a, i), get8(b, j), 1)
      [] tag = ERL_LARGE_TUPLE_EXT -> TupleHeader(i, j, get32be(a, i), get32be(b, j), 4)

CmpElements(a, b, h) == IF h.c # 0 THEN Cmp(h.c, h.i, h.j) ELSE CmpRow(a, h.i, b, h.j, h.n)

\* Runs of bytes behind a length of two or four bytes.
CmpRuns(a, i, b, j, bytes) ==
    LET len(buf, k) == IF bytes = 2 THEN get16be(buf, k) ELSE get32be(buf, k)
    IN  Cmp(cmpbytes(Bytes(a, i + bytes, len(a, i)), Bytes(b, j + bytes, len(b, j))),
            i + bytes + len(a, i), j + bytes + len(b, j))

\* Terms of one kind; functions are not compared.
cmp_exe2(a, i0, b, j0) ==
    LET tag == get8(a, i0)
        other == get8(b, j0)
        i == i0 + 1
        j == j0 + 1
    IN  CASE tag = ERL_STRING_EXT /\ other = ERL_LIST_EXT -> cmp_string_list(a, i0, b, j0)
          [] tag = ERL_LIST_EXT /\ other = ERL_STRING_EXT -> Turned(cmp_string_list(b, j0, a, i0))
          [] tag = ERL_SMALL_INTEGER_EXT -> Cmp(Sign(get8(a, i), get8(b, j)), i + 1, j + 1)
          [] tag = ERL_INTEGER_EXT ->
                 Cmp(ZSign(Signed(Bytes(a, i, 4)), Signed(Bytes(b, j, 4))), i + 4, j + 4)
          [] tag = ERL_ATOM_EXT -> CmpRuns(a, i, b, j, 2)
          [] tag = ERL_PID_EXT -> CmpPids(a, i, b, j)
          [] tag = ERL_PORT_EXT -> CmpPorts(a, i, b, j)
          [] tag = ERL_NIL_EXT -> Cmp(0, i, j)
          [] tag = ERL_STRING_EXT /\ other # ERL_LIST_EXT -> CmpRuns(a, i, b, j, 2)
          [] tag \in {ERL_LIST_EXT, ERL_SMALL_TUPLE_EXT, ERL_LARGE_TUPLE_EXT}
             /\ ~(tag = ERL_LIST_EXT /\ other = ERL_STRING_EXT) ->
                 CmpElements(a, b, CompoundHeader(a, i, b, j, tag))
          [] tag \in {ERL_FLOAT_EXT, NEW_FLOAT_EXT} -> cmp_float_float(a, i0, b, j0)
          [] tag = ERL_BINARY_EXT -> CmpRuns(a, i, b, j, 4)
          [] tag \in {ERL_FUN_EXT, ERL_NEW_FUN_EXT} -> Cmp(-1, i, j)
          [] OTHER -> Cmp(Sign(get8(a, i), get8(b, j)), i, j)

erl_compare_ext(a, b) == compare_top_ext(a, 0, b, 0).c
=============================================================================
