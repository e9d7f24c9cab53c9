-------------------------------- MODULE EtHeap --------------------------------
(* The heap of the ETERMs: the blocks of erl_fix_alloc.c, the reference      *)
(* counts of erl_malloc.c and the constructors of erl_eterm.c.               *)
(*                                                                           *)
(* A heap h is a record: cell maps a block to the term in it, free is the    *)
(* list of the blocks given back, allocated and freed are the counters of    *)
(* erl_eterm_statistics.  A cell is                                          *)
(*     st      "none" when malloc has not returned the block, "used", "free" *)
(*     type    the type, "undef" once the term was freed                     *)
(*     count   the reference count                                           *)
(*     val     the number, or the characters of an atom or a variable's name *)
(*     kids    head and tail, elements, the value of a variable, the parts   *)
(*             of a function                                                 *)
(* 0 stands for NULL.                                                        *)
EXTENDS Integers, Sequences, FiniteSets, SequencesExt, FiniteSetsExt

CONSTANT MaxRef     \* the blocks malloc has

ASSUME HeapConstants == MaxRef \in Nat \ {0}

Ref == 1..MaxRef

Blank == [st |-> "none", type |-> "undef", count |-> 0, val |-> <<>>, kids |-> <<>>]

erl_init_eterm_alloc ==
    [cell |-> [r \in Ref |-> Blank], free |-> <<>>, allocated |-> 0, freed |-> 0]

Fresh(h) == {r \in Ref : h.cell[r].st = "none"}

\* There are n blocks.
Room(h, n) == Len(h.free) + Cardinality(Fresh(h)) >= n

\* The block given back last, or one from malloc, with the term c in it.
erl_eterm_alloc(h, c) ==
    LET r == IF h.free # <<>> THEN Head(h.free) ELSE Min(Fresh(h))
    IN  [r |-> r, h |-> [h EXCEPT !.cell[r] = c, !.allocated = @ + 1,
                                  !.free = IF @ # <<>> THEN Tail(@) ELSE @,
                                  !.freed = IF h.free # <<>> THEN @ - 1 ELSE @]]

\* A term with one reference.
erl_alloc_eterm(h, type, val, kids) ==
    erl_eterm_alloc(h, [st |-> "used", type |-> type, count |-> 1, val |-> val, kids |-> kids])

\* A block that was given back already is left alone.
erl_eterm_free(h, r) ==
    IF h.cell[r].st = "free" THEN h
    ELSE [h EXCEPT !.cell[r] = [Blank EXCEPT !.st = "free"], !.free = <<r>> \o @,
                   !.freed = @ + 1, !.allocated = @ - 1]

\* The blocks of the list go back to malloc.
erl_eterm_release(h) ==
    [h EXCEPT !.cell = [r \in Ref |-> IF r \in ToSet(h.free) THEN Blank ELSE h.cell[r]],
              !.free = <<>>, !.freed = @ - Len(h.free)]

Count(h, r, d) == [h EXCEPT !.cell[r].count = @ + d]

-----------------------------------------------------------------------------
(* Freeing. *)

RECURSIVE free_term(_, _, _, _)

\* The parts of a term, whose counts go down before.
FreeParts(h, kids, compound) ==
    FoldLeft(LAMBDA g, k : IF k = 0 THEN g ELSE free_term(Count(g, k, -1), k, FALSE, compound), h, kids)

\* The head, the cell, then the tail.
FreeList(h, r, compound) ==
    LET kids == h.cell[r].kids
    IN  FreeParts(erl_eterm_free(FreeParts(h, SubSeq(kids, 1, 1), compound), r), SubSeq(kids, 2, 2), compound)

\* The counts of the parts of a function do not go down.
FreeFun(h, r, compound) ==
    erl_eterm_free(FoldLeft(LAMBDA g, k : free_term(g, k, FALSE, compound), h, h.cell[r].kids), r)

free_term(h, r, external, compound) ==
    LET c == h.cell[r]
    IN  IF ~compound /\ c.count # 0
        THEN IF external THEN free_term(Count(h, r, -1), r, FALSE, compound) ELSE h
        ELSE CASE c.type = "var" -> FreeParts(erl_eterm_free(h, r), c.kids, compound)
               [] c.type = "list" -> FreeList(h, r, compound)
               [] c.type = "tuple" -> erl_eterm_free(FreeParts(h, c.kids, compound), r)
               [] c.type = "fun" -> FreeFun(h, r, compound)
               [] OTHER -> erl_eterm_free(h, r)

erl_free_term(h, r) == IF r = 0 THEN h ELSE free_term(h, r, TRUE, FALSE)

erl_free_compound(h, r) == IF r = 0 THEN h ELSE free_term(h, r, TRUE, TRUE)

erl_free_array(h, arr) == FoldLeft(LAMBDA g, r : erl_free_term(g, r), h, arr)

-----------------------------------------------------------------------------
(* Constructors and selectors.  They return the heap and the term. *)

Ok(h, r) == [r |-> r, h |-> h]

erl_mk_int(h, i) == erl_alloc_eterm(h, "int", i, <<>>)

erl_mk_longlong(h, i) == erl_alloc_eterm(h, "longlong", i, <<>>)

erl_mk_uint(h, u) == erl_alloc_eterm(h, "uint", u, <<>>)

erl_mk_ulonglong(h, i) == erl_alloc_eterm(h, "ulonglong", i, <<>>)

erl_mk_float(h, d) == erl_alloc_eterm(h, "float", d, <<>>)

erl_mk_binary(h, b) == erl_alloc_eterm(h, "binary", b, <<>>)

erl_mk_atom(h, s) == erl_alloc_eterm(h, "atom", s, <<>>)

erl_mk_var(h, s) == erl_alloc_eterm(h, "var", s, <<>>)

erl_mk_empty_list(h) == erl_alloc_eterm(h, "nil", <<>>, <<>>)

erl_mk_tuple(h, arr) ==
    IF 0 \in ToSet(arr) THEN Ok(h, 0)
    ELSE LET t == erl_alloc_eterm(h, "tuple", <<>>, arr)
         IN  Ok(FoldSeq(LAMBDA r, g : Count(g, r, 1), t.h, arr), t.r)

erl_cons(h, hd, tl) ==
    IF hd = 0 \/ tl = 0 THEN Ok(h, 0)
    ELSE LET c == erl_alloc_eterm(h, "list", <<>>, <<hd, tl>>)
         IN  Ok(Count(Count(c.h, hd, 1), tl, 1), c.r)

\* Only the first cell of the list belongs to the caller.
Uncounted(g, when) == IF when THEN Ok(Count(g.h, g.r, -1), g.r) ELSE g

ListOn(nil, arr) ==
    LET at[i \in 0..Len(arr)] ==
            IF i = 0 THEN Uncounted(nil, arr # <<>>)
            ELSE Uncounted(erl_cons(at[i - 1].h, arr[Len(arr) - i + 1], at[i - 1].r), i < Len(arr))
    IN  at[Len(arr)]

erl_mk_list(h, arr) == IF 0 \in ToSet(arr) THEN Ok(h, 0) ELSE ListOn(erl_mk_empty_list(h), arr)

\* The cells of a string and their integers have one reference each.
erl_mk_estring(h, s) ==
    FoldRight(LAMBDA c, g : LET i == erl_mk_int(g.h, <<c>>)
                            IN  erl_alloc_eterm(i.h, "list", <<>>, <<i.r, g.r>>), s, erl_mk_empty_list(h))

Shared(h, r) == Ok(IF r = 0 THEN h ELSE Count(h, r, 1), r)

\* The element in front of the first one is not asked for.
erl_element(h, ix, r) ==
    IF h.cell[r].type = "tuple" /\ ix \in 1..Len(h.cell[r].kids) THEN Shared(h, h.cell[r].kids[ix])
    ELSE Ok(h, 0)

\* A bug of the mutants: the head is handed out uncounted.
HeadUncounted(h, r) == IF h.cell[r].type = "list" THEN Ok(h, h.cell[r].kids[1]) ELSE Ok(h, 0)

erl_hd(h, r) == IF h.cell[r].type = "list" THEN Shared(h, h.cell[r].kids[1]) ELSE Ok(h, 0)

erl_tl(h, r) == IF h.cell[r].type = "list" THEN Shared(h, h.cell[r].kids[2]) ELSE Ok(h, 0)

RECURSIVE var_content(_, _, _)

\* The value of the first variable of that name that has one; 0 if none.  The
\* walk along a list ends only with an empty list.
FirstContent(h, kids, name) ==
    LET some == {k \in DOMAIN kids : var_content(h, kids[k], name) # 0}
    IN  IF some = {} THEN 0 ELSE var_content(h, kids[Min(some)], name)

var_content(h, r, name) ==
    LET c == h.cell[r]
    IN  CASE c.type = "var" /\ c.val = name /\ c.kids # <<>> -> c.kids[1]
          [] c.type \in {"list", "tuple"} -> FirstContent(h, c.kids, name)
          [] OTHER -> 0

erl_var_content(h, r, name) == Shared(h, var_content(h, r, name))

RECURSIVE erl_copy_term(_, _)

CopyParts(h, kids) ==
    FoldLeft(LAMBDA g, k : LET c == IF k = 0 THEN Ok(g.h, 0) ELSE erl_copy_term(g.h, k)
                           IN  [h |-> c.h, kids |-> Append(g.kids, c.r)],
             [h |-> h, kids |-> <<>>], kids)

\* A copy shares nothing with the term.  A variable cannot be copied: its copy
\* is freed, with a name and a value that were never set.
erl_copy_term(h, r) ==
    LET c == h.cell[r]
        cp == erl_alloc_eterm(h, c.type, c.val, <<>>)
        parts == CopyParts(cp.h, c.kids)
    IN  IF c.type = "var" THEN Ok(erl_free_term(cp.h, cp.r), 0)
        ELSE Ok([parts.h EXCEPT !.cell[cp.r].kids = parts.kids], cp.r)

\* What erl_decode builds: every part has the one reference of its parent.
\* A shape is a term as a tree.
RECURSIVE Build(_, _)
Build(h, shape) ==
    LET cp == erl_alloc_eterm(h, shape.type, shape.val, <<>>)
        parts == FoldLeft(LAMBDA g, s : LET d == Build(g.h, s)
                                        IN  [h |-> d.h, kids |-> Append(g.kids, d.r)],
                          [h |-> cp.h, kids |-> <<>>], shape.kids)
    IN  Ok([parts.h EXCEPT !.cell[cp.r].kids = parts.kids], cp.r)

\* The blocks a term needs, the term itself included.
RECURSIVE Weight(_, _)
Weight(h, r) == 1 + FoldSeq(LAMBDA k, n : n + IF k = 0 THEN 0 ELSE Weight(h, k), 0, h.cell[r].kids)
=============================================================================
