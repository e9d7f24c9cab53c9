------------------------------- MODULE EtProgram -------------------------------
(* A program that makes, takes apart, matches and frees ETERMs.  It counts   *)
(* the references it was handed and frees each of them once.                 *)
EXTENDS EtFormat

CONSTANTS
    Simple,     \* the types of simple terms the program makes
    Shape,      \* the terms it decodes, as trees
    Formats,    \* its formats: fmt and whether an argument w follows
    MaxHeld, MaxSteps

ASSUME ProgramConstants == MaxHeld \in Nat \ {0} /\ MaxSteps \in Nat \ {0}

VARIABLES
    terms,
    held,       \* the number of references the program has to a term
    lost,       \* references the library dropped without counting them down
    result,     \* what the last call was, for what, and whether it succeeded
    steps

hpvars == <<terms, held, lost, result, steps>>

NoResult == [d |-> "none", p |-> 0, t |-> 0, ok |-> TRUE]

HpInit ==
    /\ terms = erl_init_eterm_alloc
    /\ held = [r \in Ref |-> 0] /\ lost = [r \in Ref |-> 0]
    /\ result = NoResult /\ steps = 0

Held == {r \in Ref : held[r] > 0}

References == FoldSet(LAMBDA r, n : n + held[r], 0, Ref)

Used(h) == {r \in Ref : h.cell[r].st = "used"}

Add(bag, row) == [r \in Ref |-> bag[r] + Cardinality({k \in DOMAIN row : row[k] = r})]

PartsOf(h, r) == ToSet(h.cell[r].kids) \ {0}

\* The blocks of the terms of a set.
RECURSIVE Reach(_, _)
Reach(h, rs) ==
    LET more == rs \cup UNION {PartsOf(h, r) : r \in rs} IN IF more = rs THEN rs ELSE Reach(h, more)

\* A call returns the heap and perhaps a reference.
Call(d, r) ==
    /\ terms' = r.h
    /\ held' = Add(held, IF r.r = 0 THEN <<>> ELSE <<r.r>>)
    /\ result' = [NoResult EXCEPT !.d = d]
    /\ UNCHANGED lost

Ready == steps < MaxSteps /\ steps' = steps + 1

Space(n) == References < MaxHeld /\ Room(terms, n)

MkSimple ==
    /\ Ready /\ Space(1)
    /\ \E type \in Simple :
           Call("make", CASE type = "int" -> erl_mk_int(terms, <<7>>)
                          [] type = "longlong" -> erl_mk_longlong(terms, <<7>>)
                          [] type = "uint" -> erl_mk_uint(terms, <<7>>)
                          [] type = "ulonglong" -> erl_mk_ulonglong(terms, <<7>>)
                          [] type = "float" -> erl_mk_float(terms, <<"7", ".">>)
                          [] type = "binary" -> erl_mk_binary(terms, <<>>)
                          [] type = "atom" -> erl_mk_atom(terms, <<"a">>)
                          [] type = "var" -> erl_mk_var(terms, <<"X">>)
                          [] type = "nil" -> erl_mk_empty_list(terms)
                          [] type = "string" -> erl_mk_estring(terms, <<>>))

MkCons ==
    /\ Ready /\ Space(1)
    /\ \E hd, tl \in Held : Call("make", erl_cons(terms, hd, tl))

MkTuple ==
    /\ Ready /\ Space(1)
    /\ \E x, y \in Held : Call("make", erl_mk_tuple(terms, <<x, y>>))

MkList ==
    /\ Ready /\ Space(3)
    /\ \E x, y \in Held : Call("make", erl_mk_list(terms, <<x, y>>))

\* Each list ends with an empty list: erl_var_content reads on otherwise.
Proper(r) == \A s \in Reach(terms, {r}) :
                 terms.cell[s].type = "list" => terms.cell[terms.cell[s].kids[2]].type \in {"list", "nil"}

\* The variables of a term.
VarsOf(h, p) == {r \in Reach(h, {p}) : h.cell[r].type = "var"}

\* erl_element, erl_hd, erl_tl, erl_var_content.
Select ==
    /\ Ready /\ Space(0)
    /\ \E r \in Held : \/ \E ix \in 1..2 : Call("select", erl_element(terms, ix, r))
                       \/ Call("select", erl_hd(terms, r)) \/ Call("select", erl_tl(terms, r))
                       \/ /\ Proper(r) /\ var_content(terms, r, <<"X">>) # 0
                          /\ Call("select", erl_var_content(terms, r, <<"X">>))

Copy ==
    /\ Ready
    /\ \E r \in Held : VarsOf(terms, r) = {} /\ Space(Weight(terms, r)) /\ Call("copy", erl_copy_term(terms, r))

RECURSIVE Blocks(_)
Blocks(shape) == 1 + FoldSeq(LAMBDA s, n : n + Blocks(s), 0, shape.kids)

DecodeTree ==
    /\ Ready
    /\ \E s \in Shape : Space(Blocks(s)) /\ Call("decode", Build(terms, s))

\* The parts of the functions that were freed keep their counts.
Forgotten(h, g) ==
    FoldSet(LAMBDA r, bag : IF h.cell[r].type = "fun" /\ r \notin Used(g) THEN Add(bag, h.cell[r].kids) ELSE bag,
            lost, Used(h))

FreeTerm ==
    /\ Ready
    /\ \E r \in Held :
           /\ terms' = erl_free_term(terms, r)
           /\ held' = [held EXCEPT ![r] = @ - 1]
           /\ lost' = Forgotten(terms, terms')
           /\ result' = [NoResult EXCEPT !.d = "free"]

Links(h, r) == FoldSet(LAMBDA s, n : n + Cardinality({k \in DOMAIN h.cell[s].kids : h.cell[s].kids[k] = r}),
                       0, Used(h))

\* The one reference there is to the term and to each of its parts.
Alone(r) == \A s \in Reach(terms, {r}) : held[s] + lost[s] + Links(terms, s) = 1

FreeCompound ==
    /\ Ready
    /\ \E r \in Held :
           /\ Alone(r)
           /\ terms' = erl_free_compound(terms, r)
           /\ held' = [held EXCEPT ![r] = 0]
           /\ result' = [NoResult EXCEPT !.d = "free"]
           /\ UNCHANGED lost

Release ==
    /\ Ready /\ terms.free # <<>>
    /\ terms' = erl_eterm_release(terms)
    /\ result' = [NoResult EXCEPT !.d = "release"]
    /\ UNCHANGED <<held, lost>>

Format ==
    /\ Ready
    /\ \E f \in Formats, arg \in Held \cup {0} :
           /\ IF f.w THEN arg # 0 /\ VarsOf(terms, arg) = {} ELSE arg = 0
           /\ Space(f.blocks + IF arg = 0 THEN 0 ELSE Weight(terms, arg))
           /\ \E r \in {erl_format(terms, f.fmt, IF f.w THEN <<arg>> ELSE f.ap)} :
                  /\ terms' = r.h
                  /\ held' = Add(held, IF r.ok THEN r.v ELSE <<>>)
                  /\ lost' = Add(lost, r.leak)
                  /\ result' = [NoResult EXCEPT !.d = "format", !.ok = r.ok]

RECURSIVE Variables(_, _)
Variables(h, r) ==
    FoldSeq(LAMBDA k, n : n + IF k = 0 THEN 0 ELSE Variables(h, k),
            IF h.cell[r].type = "var" THEN 1 ELSE 0, h.cell[r].kids)

Match ==
    /\ Ready
    /\ \E p, t \in Held :
           /\ Reach(terms, {t}) \cap VarsOf(terms, p) = {}
           /\ VarsOf(terms, t) \subseteq IF BoundTo(terms, t) = 0 THEN {} ELSE {t}
           /\ Room(terms, Variables(terms, p) * Weight(terms, t))
           /\ \E r \in {erl_match(terms, p, t)} :
                  /\ terms' = r.h
                  /\ lost' = Forgotten(ematch(terms, <<>>, p, t).h, r.h)
                  /\ result' = [d |-> "match", p |-> p, t |-> t, ok |-> r.ok]
           /\ UNCHANGED held

HpNext == \/ MkSimple \/ MkCons \/ MkTuple \/ MkList \/ Select \/ Copy \/ DecodeTree
          \/ FreeTerm \/ FreeCompound \/ Release \/ Format \/ Match

-----------------------------------------------------------------------------
(* What the library promises. *)

HpTypeOK ==
    /\ held \in [Ref -> 0..(MaxHeld + 1)]
    /\ \A r \in Used(terms) : /\ terms.cell[r].type # "undef"
                             /\ terms.cell[r].kids \in Seq({0} \cup Ref)
    /\ \A r \in Ref \ Used(terms) : terms.cell[r].type = "undef"

\* The terms of which the library dropped a reference: the parts of functions
\* that erl_free_term freed, which it does not count down (erl_malloc.c:178), and
\* the elements made before a format went wrong (erl_format.c:436, 447).
Dropped == {r \in Ref : lost[r] > 0}

\* The count of a term is the number of references to it, those of the program
\* and those of other terms (erl_malloc.c:115, the constructors); that of a term
\* dropped is higher, so that it is never freed.
CountsTrue ==
    \A r \in Used(terms) :
        LET refs == held[r] + Links(terms, r)
        IN  IF r \in Dropped THEN terms.cell[r].count > refs ELSE terms.cell[r].count = refs

\* No part of a term the program can still use is freed.
NoneFreed == Reach(terms, Held) \subseteq Used(terms)

\* What the program does not refer to is freed, but for what was dropped and
\* the parts of it.
NothingLeaks == Used(terms) \subseteq Reach(terms, Held) \cup Reach(terms, Dropped)

\* Without that exception it is false: each function that is freed and each
\* format that fails may leave terms behind for good.
NothingDropped == Used(terms) \subseteq Reach(terms, Held)

FunctionIn(rs) == \E r \in rs : terms.cell[r].type = "fun"

\* Nothing else is ever dropped: freeing a term that has no function in it, a
\* match of such a term and a format that succeeds leave no reference uncounted.
DropsNamed ==
    [][lost' # lost =>
          \/ result'.d = "free" /\ FunctionIn(Used(terms) \ Used(terms'))
          \/ result'.d = "match" /\ FunctionIn(Reach(terms, {result'.p, result'.t}))
          \/ result'.d = "format" /\ ~result'.ok]_hpvars

\* The list of free blocks has each of them once, and erl_eterm_statistics
\* tells how many there are (erl_fix_alloc.c:90, 124, 158).
FreeListTrue ==
    /\ ToSet(terms.free) = {r \in Ref : terms.cell[r].st = "free"}
    /\ terms.freed = Len(terms.free) /\ IsInjective(terms.free)
    /\ terms.allocated = Cardinality(Used(terms))

\* A term as a tree, told apart by type first.
RECURSIVE Tree(_, _)
Tree(h, r) ==
    IF r = 0 THEN <<"null">>
    ELSE <<h.cell[r].type, h.cell[r].val, [k \in DOMAIN h.cell[r].kids |-> Tree(h, h.cell[r].kids[k])]>>

\* What a reference of the program stands for does not change, whatever other
\* terms are made, taken apart or freed; only a match binds variables.
TermsKept ==
    [][result'.d # "match" => \A r \in Held : held'[r] > 0 => Tree(terms', r) = Tree(terms, r)]_hpvars

\* p with the values of its variables is t.
RECURSIVE Stands(_, _, _)
Stands(h, p, t0) ==
    LET t == IF t0 # 0 /\ h.cell[t0].type = "var" THEN BoundTo(h, t0) ELSE t0
        c == h.cell[p]
    IN  IF c.type = "var" THEN c.val = <<"_">> \/ Stands(h, BoundTo(h, p), t)
        ELSE /\ c.type = h.cell[t].type /\ Len(c.kids) = Len(h.cell[t].kids)
             /\ c.val = h.cell[t].val
             /\ \A k \in DOMAIN c.kids : Stands(h, c.kids[k], h.cell[t].kids[k])

\* After a match the pattern stands for the term, and variables of one name
\* for the same value.
MatchRight ==
    (result.d = "match" /\ result.ok) =>
        /\ Stands(terms, result.p, result.t)
        /\ \A x, y \in VarsOf(terms, result.p) :
               (terms.cell[x].val = terms.cell[y].val /\ terms.cell[x].val # <<"_">>) =>
                   Tree(terms, BoundTo(terms, x)) = Tree(terms, BoundTo(terms, y))

\* After a match that failed a variable whose name is the only one of the
\* pattern has no value or the one it had.
Undone ==
    [][(result'.d = "match" /\ ~result'.ok /\ steps' > steps) =>
           \A x \in VarsOf(terms, result'.p) :
               (\A y \in VarsOf(terms, result'.p) : terms.cell[x].val = terms.cell[y].val => x = y) =>
                   \/ BoundTo(terms', x) = 0
                   \/ Tree(terms', BoundTo(terms', x)) = Tree(terms, BoundTo(terms, x))]_hpvars

\* Whatever a program makes, shares, copies, matches and frees: the counts are
\* the references, so that no term in use is freed and none that is not in use
\* stays, and a reference stands for the same term as long as it is held, but
\* for variables that a match binds and a failed match unbinds (erl_malloc.c,
\* erl_eterm.c, erl_format.c).  The parts of freed functions and the elements of
\* failed formats are the two exceptions: they stay.
HeapSound ==
    /\ [](HpTypeOK /\ CountsTrue /\ NoneFreed /\ NothingLeaks /\ FreeListTrue /\ MatchRight)
    /\ TermsKept /\ Undone /\ DropsNamed

HpSpec == HpInit /\ [][HpNext]_hpvars
=============================================================================
