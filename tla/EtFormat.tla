------------------------------- MODULE EtFormat -------------------------------
(* Building terms from a format and matching them (src/legacy/erl_format.c). *)
(*                                                                           *)
(* A format fmt is a sequence of characters, i the index of the next one, ap *)
(* the arguments left: references to terms for w, values for the others.  A  *)
(* parser returns the heap, the index and the arguments left, what it made   *)
(* and, in leak, the references it forgot.                                   *)
EXTENDS EtHeap

Digits10 == <<"0", "1", "2", "3", "4", "5", "6", "7", "8", "9">>

Upper == <<"A", "B", "C", "D", "E", "F", "G", "H", "I", "J", "K", "L", "M",
           "N", "O", "P", "Q", "R", "S", "T", "U", "V", "W", "X", "Y", "Z">>

Lower == <<"a", "b", "c", "d", "e", "f", "g", "h", "i", "j", "k", "l", "m",
           "n", "o", "p", "q", "r", "s", "t", "u", "v", "w", "x", "y", "z">>

isdigit == ToSet(Digits10)

isupper == ToSet(Upper)

islower == ToSet(Lower)

isalnum == isdigit \cup isupper \cup islower

\* The code of a letter or a digit.
Code(c) ==
    LET in(s) == CHOOSE k \in DOMAIN s : s[k] = c
    IN  IF c \in isdigit THEN 47 + in(Digits10) ELSE IF c \in isupper THEN 64 + in(Upper) ELSE 96 + in(Lower)

Codes(s) == [k \in DOMAIN s |-> Code(s[k])]

atoi(s) == FoldLeft(LAMBDA n, c : 10 * n + Code(c) - 48, 0, s)

\* The character at an index, the zero behind the last one.
Char(fmt, i) == IF i <= Len(fmt) THEN fmt[i] ELSE "zero"

\* The first index from i on with a character that is not in chars.
Behind(fmt, i, chars) == CHOOSE k \in i..(Len(fmt) + 1) :
                             Char(fmt, k) \notin chars /\ \A n \in i..(k - 1) : fmt[n] \in chars

WordOf(fmt, i, end) == [buf |-> SubSeq(fmt, i, end - 1), i |-> end]

pvariable(fmt, i) == WordOf(fmt, i, Behind(fmt, i, isalnum \cup {"_"}))

patom(fmt, i) == WordOf(fmt, i, Behind(fmt, i, isalnum \cup {"_", "@"}))

\* Digits with at most one point between them.
pdigit(fmt, i) ==
    LET k == Behind(fmt, i, isdigit)
    IN  WordOf(fmt, i, IF Char(fmt, k) = "." THEN Behind(fmt, k + 1, isdigit) ELSE k)

\* Up to the next quote: the test for a backslash looks at the quote itself.
Quoted(fmt, i, quote) ==
    LET end == CHOOSE k \in (i + 1)..Len(fmt) : fmt[k] = quote /\ \A n \in (i + 1)..(k - 1) : fmt[n] # quote
    IN  [buf |-> SubSeq(fmt, i + 1, end - 1), i |-> end + 1]

pstring(fmt, i) == Quoted(fmt, i, "\"")

pquotedatom(fmt, i) == Quoted(fmt, i, "'")

-----------------------------------------------------------------------------

\* ok says whether the parser succeeded, v are the terms made.
Parsed(ok, h, i, ap, v, leak) == [ok |-> ok, h |-> h, i |-> i, ap |-> ap, v |-> v, leak |-> leak]

\* A term made of the next argument.
Made(h, c, arg) ==
    CASE c = "w" -> Shared(h, arg)
      [] c = "a" -> erl_mk_atom(h, arg)
      [] c = "s" -> erl_mk_estring(h, Codes(arg))
      [] c = "i" -> erl_mk_int(h, arg)
      [] c = "f" -> erl_mk_float(h, arg)
      [] c = "b" -> erl_mk_binary(h, arg)

ArgumentMade(made, i, ap) == Parsed(TRUE, made.h, i + 1, Tail(ap), <<made.r>>, <<>>)

pformat(h, fmt, i, ap) ==
    IF Char(fmt, i) \in {"w", "a", "s", "i", "f", "b"} THEN ArgumentMade(Made(h, Char(fmt, i), Head(ap)), i, ap)
    ELSE Parsed(FALSE, h, i + 1, ap, <<>>, <<>>)

RECURSIVE eformat(_, _, _, _)

\* Elements up to the closing character.  What was made before a failure is
\* forgotten.
RECURSIVE Elements(_, _, _, _, _, _)
With(made, fmt, v, close) ==
    IF made.ok THEN Elements(made.h, fmt, made.i, made.ap, v \o made.v, close) ELSE [made EXCEPT !.leak = v \o @]

Elements(h, fmt, i, ap, v, close) ==
    LET c == Char(fmt, i)
    IN  IF c = close THEN Parsed(TRUE, h, i + 1, ap, v, <<>>)
        ELSE IF c \in {",", " "} THEN Elements(h, fmt, i + 1, ap, v, close)
        ELSE With(IF c = "~" THEN pformat(h, fmt, i + 1, ap) ELSE eformat(h, fmt, i, ap), fmt, v, close)

ptuple(h, fmt, i, ap) == Elements(h, fmt, i, ap, <<>>, "}")

plist(h, fmt, i, ap) == Elements(h, fmt, i, ap, <<>>, "]")

Single(t, w, ap) == Parsed(TRUE, t.h, w.i, ap, <<t.r>>, <<>>)

\* The elements are counted by the term and given up by the array.
Compound(t, row) == Parsed(t.r # 0, erl_free_array(t.h, row.v), row.i, row.ap, <<t.r>>, <<>>)

\* ~w is copied.
Inserted(cp, row) == Parsed(cp.r # 0, erl_free_term(cp.h, row.v[1]), row.i, row.ap, <<cp.r>>, <<>>)

TermMade(c, row) ==
    CASE ~row.ok -> row
      [] row.ok /\ c = "{" -> Compound(erl_mk_tuple(row.h, row.v), row)
      [] row.ok /\ c = "[" -> Compound(erl_mk_list(row.h, row.v), row)
      [] row.ok /\ c = "~" -> Inserted(erl_copy_term(row.h, row.v[1]), row)

Opened(h, fmt, i, ap, c) ==
    CASE c = "{" -> ptuple(h, fmt, i + 1, ap)
      [] c = "[" -> plist(h, fmt, i + 1, ap)
      [] c = "~" -> pformat(h, fmt, i + 1, ap)

WordAt(fmt, i, c) ==
    CASE c \in islower -> patom(fmt, i)
      [] c \in isupper \cup {"_"} -> pvariable(fmt, i)
      [] c \in isdigit -> pdigit(fmt, i)
      [] c = "\"" -> pstring(fmt, i)
      [] c = "'" -> pquotedatom(fmt, i)

OfWord(h, c, buf) ==
    CASE c \in islower \cup {"'"} -> erl_mk_atom(h, buf)
      [] c \in isupper \cup {"_"} -> erl_mk_var(h, buf)
      [] c \in isdigit -> IF "." \in ToSet(buf) THEN erl_mk_float(h, buf) ELSE erl_mk_int(h, <<atoi(buf)>>)
      [] c = "\"" -> erl_mk_estring(h, Codes(buf))

Worded(h, c, w, ap) == Single(OfWord(h, c, w.buf), w, ap)

eformat(h, fmt, i, ap) ==
    LET c == Char(fmt, i)
    IN  CASE c = "[" /\ Char(fmt, i + 1) = "]" -> Single(erl_mk_empty_list(h), [i |-> i + 2], ap)
          [] c \in {"{", "[", "~"} /\ ~(c = "[" /\ Char(fmt, i + 1) = "]") -> TermMade(c, Opened(h, fmt, i, ap, c))
          [] c = "$" -> Single(erl_mk_int(h, <<Code(Char(fmt, i + 1))>>), [i |-> i + 2], ap)
          [] c = " " -> eformat(h, fmt, i + 1, ap)
          [] c \in islower \cup isupper \cup isdigit \cup {"_", "'", "\""} -> Worded(h, c, WordAt(fmt, i, c), ap)
          [] OTHER -> Parsed(FALSE, h, i, ap, <<>>, <<>>)

erl_format(h, fmt, ap) == eformat(h, fmt, 1, ap)

-----------------------------------------------------------------------------
(* Matching.  The chain are the variables bound so far, the last one first.  *)

BoundTo(h, r) == IF h.cell[r].kids = <<>> THEN 0 ELSE h.cell[r].kids[1]

\* The value of the first variable of the chain with that name, 0 if none.
find_lvar(h, chain, name) ==
    LET some == {k \in DOMAIN chain : h.cell[chain[k]].val = name}
    IN  IF some = {} THEN 0 ELSE BoundTo(h, chain[Min(some)])

add_lvar(chain, t) == <<t>> \o chain

\* The variables of the chain lose their values.
undo_bindings(h, chain) ==
    FoldLeft(LAMBDA g, r : [erl_free_term(g, BoundTo(g, r)) EXCEPT !.cell[r].kids = <<>>], h, chain)

Matched(ok, h, chain) == [ok |-> ok, h |-> h, chain |-> chain]

\* A variable gets a copy of a term.
Bind(h, p, t) ==
    LET cp == erl_copy_term(h, t)
    IN  [cp.h EXCEPT !.cell[p].kids = IF cp.r = 0 THEN <<>> ELSE <<cp.r>>]

RECURSIVE ematch(_, _, _, _)

MatchRow(h, chain, ps, ts) ==
    LET at[k \in 0..Len(ps)] ==
            IF k = 0 THEN Matched(TRUE, h, chain)
            ELSE IF ~at[k - 1].ok THEN at[k - 1]
            ELSE ematch(at[k - 1].h, at[k - 1].chain, ps[k], ts[k])
    IN  IF Len(ps) # Len(ts) THEN Matched(FALSE, h, chain) ELSE at[Len(ps)]

\* A variable of a name that was bound before must match its value, of which
\* it gets a copy; one that has a value must match that.
Chained(row, p) == [row EXCEPT !.chain = IF row.ok THEN add_lvar(@, p) ELSE @]

MatchBound(h, chain, p, t) == ematch(h, chain, BoundTo(h, p), t)

MatchVar(h, chain, p, t) ==
    LET first == find_lvar(h, chain, h.cell[p].val)
    IN  IF h.cell[p].val = <<"_">> THEN Matched(TRUE, h, chain)
        ELSE IF first # 0 THEN MatchBound(IF BoundTo(h, p) = 0 THEN Bind(h, p, first) ELSE h, chain, p, t)
        ELSE IF BoundTo(h, p) = 0 THEN Matched(TRUE, Bind(h, p, t), add_lvar(chain, p))
        ELSE Chained(MatchBound(h, chain, p, t), p)

\* Only terms of some types can match: not functions, not wide integers.
ematch(h, chain, p, t0) ==
    LET no == Matched(FALSE, h, chain)
        c == h.cell[p]
        t == IF h.cell[t0].type = "var" THEN BoundTo(h, t0) ELSE t0
    IN  IF p = 0 /\ t0 = 0 THEN Matched(TRUE, h, chain)
        ELSE IF p = 0 \/ t0 = 0 THEN no
        ELSE IF t = 0 THEN no
        ELSE IF c.type # "var" /\ c.type # h.cell[t0].type THEN no
        ELSE CASE c.type = "var" -> MatchVar(h, chain, p, t)
               [] c.type \in {"list", "tuple"} -> MatchRow(h, chain, c.kids, h.cell[t].kids)
               [] c.type \in {"atom", "int", "float", "binary", "nil"} ->
                      Matched(c.val = h.cell[t].val, h, chain)
               [] OTHER -> no

\* A failed match takes all the bindings back.
Settled(r) == IF r.ok THEN r ELSE [r EXCEPT !.h = undo_bindings(r.h, r.chain)]

erl_match(h, p, t) == Settled(ematch(h, <<>>, p, t))
=============================================================================
