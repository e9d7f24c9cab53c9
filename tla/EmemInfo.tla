------------------------------ MODULE EmemInfo ------------------------------
(* What emem makes of a memory trace (erl_memory.c): the tables of live      *)
(* blocks and carriers, the figures kept for every allocator and block type, *)
(* and the lines printed of them at intervals and at the end.                *)
(*                                                                           *)
(* The parser of the trace is external: an operation is any one that fits    *)
(* the description of allocators in the header of the trace.  Of what is     *)
(* printed it is kept how many values a line has.                            *)
EXTENDS EmemTable, Nil

CONSTANTS
    Traces,     \* descriptions: allocators, block types, segments; how many operations
    Switches,   \* what the command line asks for
    Seconds,    \* times of operations
    Addrs,      \* addresses and sizes in a trace
    Sizes,
    Word,       \* number of values of an unsigned figure
    PrevWord,   \* and of prev_size, which is narrower
    IFaults     \* allocations of complete_state that may fail

VARIABLE em     \* em_state

no_info ==
    [size |-> 0, min_size |-> 0, max_size |-> 0, max_ever_size |-> 0,
     no |-> 0, min_no |-> 0, max_no |-> 0, max_ever_no |-> 0,
     allocs |-> 0, reallocs |-> 0, frees |-> 0,
     low |-> 0, high |-> 0, peak |-> 0]     \* history: extremes since the last line, and ever

Larger(a, b) == IF a > b THEN a ELSE b
Smaller(a, b) == IF a < b THEN a ELSE b

-----------------------------------------------------------------------------
(* The state: arrays are indexed from -1, so a pointer to one is moved up    *)
(* when it has been allocated and down again before it is freed.             *)

new_state(info, sw) ==
    [info |-> info, sw |-> sw, allctrs |-> <<>>, btypes |-> <<>>, usd |-> {}, prv |-> {},
     vpo |-> 0, vpl |-> 0,
     arrays |-> [carriers |-> NULL, btype |-> NULL, allctr |-> NULL, prv |-> NULL, usd |-> NULL],
     misfreed |-> {}, blocks |-> emtbt_new_table, crr |-> [i \in {} |-> emtbt_new_table],
     fig |-> [i \in {} |-> no_info], next_print |-> 0, printed |-> 0,
     now |-> 0, n |-> 0, stop |-> NULL, res |-> 0,
     failed |-> FALSE, cut |-> FALSE]    \* history: a reallocation failed, a size was cut short

\* The names given are looked up among those of the trace; one that is not there
\* is dropped, and so is what is not valid.
ALL == -9    \* the name "all"
Selected(wanted, valid) == SetToSortSeq(IF ALL \in wanted THEN valid ELSE wanted \cap valid, <)

Figures(e) ==
    {<<"total", 0>>} \cup {<<"btype", t>> : t \in DOMAIN e.info.btype}
    \cup {<<"allctr", a>> : a \in DOMAIN e.info.allctr}
    \cup {<<"prv", a>> : a \in e.prv} \cup {<<"usd", a>> : a \in e.usd}

\* The table of blocks and the two arrays of figures are asked for one after the
\* other; only when all three are there the pointers to the arrays are moved up.
Tables(e, fault) ==
    IF fault = "carriers" THEN [e EXCEPT !.res = NOMEM]
    ELSE IF fault \in {"table", "btype", "allctr"}
    THEN [e EXCEPT !.res = NOMEM, !.arrays.carriers = 1,
                   !.arrays.btype = IF fault = "btype" THEN NULL ELSE 0,
                   !.arrays.allctr = IF fault = "allctr" THEN NULL ELSE 0]
    ELSE [e EXCEPT !.arrays.carriers = 1, !.arrays.btype = 1, !.arrays.allctr = 1]

CarrierFigures(e, fault) ==
    IF e.res # 0 THEN e
    ELSE IF fault = "prv" THEN [e EXCEPT !.res = NOMEM]
    ELSE IF fault = "usd" THEN [e EXCEPT !.res = NOMEM, !.arrays.prv = 1]
    ELSE [e EXCEPT !.arrays.prv = 1, !.arrays.usd = 1,
            !.usd = {a \in DOMAIN e.info.allctr : e.info.allctr[a].used}
                    \cup (IF e.info.segments THEN {e.info.segment_ix} ELSE {}),
            !.prv = UNION {e.info.allctr[a].providers : a \in DOMAIN e.info.allctr}]

\* Values per object and per line.
ValuesPerObject(sw) ==
    1 + (IF sw.max_min THEN 2 ELSE 0) + (IF sw.ops THEN 3 ELSE 0)
      + (IF sw.counts THEN IF sw.max_min THEN 3 ELSE 1 ELSE 0)

ValuesPerLine(e) ==
    1 + (IF e.sw.total THEN e.vpo * (IF e.info.segments THEN 3 ELSE 1) ELSE 0)
      + FoldLeft(LAMBDA n, a :
            n + e.vpo * (1 + (IF e.info.carriers THEN 1 + (IF a \in e.prv THEN 1 ELSE 0) ELSE 0)),
            0, e.allctrs)
      + Len(e.btypes) * e.vpo

\* What is to be shown, room for a line of it, and for its header.
Chosen(e, valid) ==
    [e EXCEPT !.allctrs = Selected(e.sw.allctrs, valid),
              !.btypes = Selected(e.sw.btypes, DOMAIN e.info.btype), !.vpo = ValuesPerObject(e.sw)]

Sized(e) == [e EXCEPT !.vpl = ValuesPerLine(e), !.fig = [f \in Figures(e) |-> no_info]]

Headed(e, fault) == IF fault = "header" THEN [e EXCEPT !.res = NOMEM] ELSE e

Completed(e, fault) ==
    IF e.res # 0 THEN e
    ELSE Headed(Sized(Chosen(e, {a \in DOMAIN e.info.allctr : e.info.allctr[a].valid /\ a >= 0})), fault)

complete_state(e, fault) == Completed(CarrierFigures(Tables(e, fault), fault), fault)

\* Each pointer is moved down before it is freed, whether it was moved up or not.
destroy_state(e) ==
    [e EXCEPT !.misfreed = {a \in DOMAIN e.arrays : e.arrays[a] \notin {NULL, 1}}]

-----------------------------------------------------------------------------
(* Figures. *)

Seen(mi) == [mi EXCEPT !.low = Smaller(@, mi.size), !.high = Larger(@, mi.size), !.peak = Larger(@, mi.size)]

update_max_values(mi) == [mi EXCEPT !.max_size = Larger(@, mi.size), !.max_no = Larger(@, mi.no)]
update_min_values(mi) == [mi EXCEPT !.min_size = Smaller(@, mi.size), !.min_no = Smaller(@, mi.no)]

update_alloc_op(mi, size) ==
    Seen(update_max_values([mi EXCEPT !.allocs = @ + 1, !.size = (@ + size) % Word, !.no = @ + 1]))

update_realloc_op(mi, size, prev_size, no_change) ==
    Seen(update_min_values(update_max_values(
        [mi EXCEPT !.reallocs = @ + 1, !.size = (@ - prev_size + size) % Word,
                   !.no = @ + no_change])))

update_free_op(mi, prev_size) ==
    Seen(update_min_values([mi EXCEPT !.frees = @ + 1, !.size = (@ - prev_size) % Word, !.no = @ - 1]))

\* A bug of the mutants: the maximum of all times is not kept.
MemInfoForgets(mi) ==
    [mi EXCEPT !.max_size = mi.size, !.min_size = mi.size, !.max_no = mi.no, !.min_no = mi.no,
               !.low = mi.size, !.high = mi.size]

\* What is printed starts a new interval.
write_mem_info(mi) ==
    [mi EXCEPT !.max_ever_size = Larger(@, mi.max_size), !.max_ever_no = Larger(@, mi.max_no),
               !.max_size = mi.size, !.min_size = mi.size, !.max_no = mi.no, !.min_no = mi.no,
               !.low = mi.size, !.high = mi.size]

\* The figures of a line, in the order in which they are printed.
Shown(e) ==
    LET Carriers(a) == (IF a \in e.prv THEN <<<<"prv", a>>>> ELSE <<>>)
                       \o (IF a \in e.usd THEN <<<<"usd", a>>>> ELSE <<>>)
        Of(a) == <<<<"allctr", a>>>> \o Carriers(a)
    IN  (IF e.sw.total
         THEN <<<<"total", 0>>>> \o (IF e.info.segments THEN Carriers(e.info.segment_ix) ELSE <<>>)
         ELSE <<>>)
        \o FlattenSeq([i \in DOMAIN e.allctrs |-> Of(e.allctrs[i])])
        \o [i \in DOMAIN e.btypes |-> <<"btype", e.btypes[i]>>]

print_info(e) ==
    [e EXCEPT !.fig = [f \in DOMAIN e.fig |->
                          IF f \in ToSet(Shown(e)) THEN write_mem_info(e.fig[f]) ELSE e.fig[f]],
              !.printed = 1 + e.vpo * Len(Shown(e))]

\* A line for every interval that has passed.
PrintDue(e, secs) ==
    LET due == {i \in 0..secs : e.next_print + i * e.sw.interval <= secs}
    IN  [FoldLeft(LAMBDA x, i : print_info(x), e, SetToSeq(due))
            EXCEPT !.next_print = @ + Cardinality(due) * e.sw.interval]

\* The maxima of all times; this is printed only of a trace that was ended.
print_main_footer(e) == [e EXCEPT !.printed = 1 + e.vpo * Len(Shown(e))]

-----------------------------------------------------------------------------
(* Operations. *)

\* emem aborts when an operation does not fit the table (ERR_RET).
Result(e, r) == IF r.code # 0 THEN [e EXCEPT !.res = r.code] ELSE e

Update(e, figs, F(_)) ==
    [e EXCEPT !.fig = [f \in DOMAIN e.fig |-> IF f \in figs THEN F(e.fig[f]) ELSE e.fig[f]]]

\* The figures that an operation on a block, or on a carrier, concerns.
OfBlock(e, type) == {<<"btype", type>>, <<"allctr", e.info.btype[type]>>, <<"total", 0>>}
OfCarrier(e, crrix, aix) == {<<"usd", aix>>, <<"prv", crrix>>, <<"allctr", crrix>>}

Concerned(e, op, type) ==
    IF op.carrier THEN OfCarrier(e, op.crrix, type) ELSE OfBlock(e, type)

TableFor(e, op) ==
    IF ~op.carrier THEN e.blocks
    ELSE IF op.crrix \in DOMAIN e.crr THEN e.crr[op.crrix] ELSE emtbt_new_table

WithTable(e, op, t) ==
    IF ~op.carrier THEN [e EXCEPT !.blocks = t]
    ELSE [e EXCEPT !.crr = [i \in DOMAIN @ \cup {op.crrix} |-> IF i = op.crrix THEN t ELSE @[i]]]

Allocated(e, op, r) ==
    LET F(mi) == update_alloc_op(mi, op.new_size)
    IN  IF r.code # 0 THEN Result(e, r)
        ELSE Update(WithTable(e, op, r.tab), Concerned(e, op, op.type), F)

AllocOp(e, op) == IF op.new_ptr = 0 THEN e ELSE Allocated(e, op, emtbt_alloc_op(TableFor(e, op), op))

\* What a reallocation changes of the number of blocks.
NoChange(op, old) ==
    IF old.ptr = 0 /\ op.new_ptr # 0 THEN 1 ELSE IF old.ptr # 0 /\ op.new_size = 0 THEN -1 ELSE 0

\* The size of a block that is there no longer is kept in a narrower variable.
prev_size(old) == old.size % PrevWord
Cut(e, old) == [e EXCEPT !.cut = @ \/ prev_size(old) # old.size]

\* One that failed is counted with the size that was asked for.
Realloced(e, op, r, type) ==
    LET F(mi) == update_realloc_op(mi, op.new_size, prev_size(r.old), NoChange(op, r.old))
    IN  IF r.code # 0 THEN Result(e, r)
        ELSE [Cut(Update(WithTable(e, op, r.tab), Concerned(e, op, type), F), r.old)
                EXCEPT !.failed = @ \/ (op.new_ptr = 0 /\ op.new_size > 0)]

ByBlockType(e, op, r) == Realloced(e, op, r, IF op.prev_ptr = 0 THEN op.type ELSE r.old.type)

ReallocOp(e, op) == ByBlockType(e, op, emtbt_realloc_op(TableFor(e, op), op))

Freed(e, op, r) ==
    LET F(mi) == update_free_op(mi, prev_size(r.old))
    IN  IF r.code # 0 THEN Result(e, r)
        ELSE Cut(Update(WithTable(e, op, r.tab), Concerned(e, op, r.old.type), F), r.old)

FreeOp(e, op) ==
    IF op.carrier /\ op.crrix \notin DOMAIN e.crr THEN [e EXCEPT !.res = NOBLK]
    ELSE IF op.prev_ptr = 0 THEN e
    ELSE Freed(e, op, emtbt_free_op(TableFor(e, op), op))

\* The trace was stopped, or the emulator has exited.
StopOp(e, op) == print_main_footer([print_info(e) EXCEPT !.stop = op.kind])

\* Before an operation of insert_operations the lines are printed that are due.
Before(e, op) == [PrintDue(e, op.secs) EXCEPT !.now = op.secs, !.n = @ + 1]

-----------------------------------------------------------------------------

Header(fault) ==
    /\ em.arrays.carriers = NULL /\ em.res = 0
    /\ \E e \in {complete_state(em, fault)} :
          em' = IF e.res # 0 THEN destroy_state(e) ELSE e

Continues == em.arrays.carriers # NULL /\ em.res = 0 /\ em.stop = NULL /\ em.n < em.info.max_ops

Op(kind, secs, carrier, crrix, type, prev, new, size) ==
    [kind |-> kind, secs |-> secs, carrier |-> carrier, crrix |-> crrix, type |-> type,
     prev_ptr |-> prev, new_ptr |-> new, new_size |-> size]

\* On a block of some type, or on a carrier of an allocator from a provider.
Places ==
    {<<FALSE, 0, t>> : t \in DOMAIN em.info.btype}
    \cup {<<TRUE, c, a>> : c \in em.prv, a \in {x \in DOMAIN em.info.allctr : em.info.allctr[x].used}}

\* insert_operations, one operation after the other.
Traced(op) == Continues /\ op.secs >= em.now

AllocTraced == \E s \in Seconds, pl \in Places, p \in Addrs, z \in Sizes :
    \E op \in {Op("alloc", s, pl[1], pl[2], pl[3], 0, p, z)} :
        Traced(op) /\ em' = AllocOp(Before(em, op), op)
ReallocTraced == \E s \in Seconds, pl \in Places, p, q \in Addrs \cup {0}, z \in Sizes \cup {0} :
    \E op \in {Op("realloc", s, pl[1], pl[2], pl[3], p, q, z)} :
        Traced(op) /\ em' = ReallocOp(Before(em, op), op)
FreeTraced == \E s \in Seconds, pl \in Places, p \in Addrs :
    \E op \in {Op("free", s, pl[1], pl[2], pl[3], p, 0, 0)} :
        Traced(op) /\ em' = FreeOp(Before(em, op), op)
StopTraced == \E s \in Seconds, kind \in {"stop", "exit"} :
    \E op \in {Op(kind, s, FALSE, 0, 0, 0, 0, 0)} :
        Traced(op) /\ em' = StopOp(Before(em, op), op)

IInit == \E info \in Traces, sw \in Switches : em = new_state(info, sw)
INext == (\E f \in IFaults \cup {"none"} : Header(f)) \/ AllocTraced \/ ReallocTraced \/ FreeTraced \/ StopTraced
ISpec == IInit /\ [][INext]_em

-----------------------------------------------------------------------------
(* Properties. *)

Blocks(t) == ToSet(t.blocks)

\* The blocks and carriers that a figure is about, in pairs with their provider.
About(f) ==
    LET of == {<<0, b>> : b \in Blocks(em.blocks)}
        crr == UNION {{<<1, c, b>> : b \in Blocks(em.crr[c])} : c \in DOMAIN em.crr}
    IN  CASE f[1] = "total" -> of
          [] f[1] = "btype" -> {x \in of : x[2].type = f[2]}
          [] f[1] = "allctr" -> {x \in of : em.info.btype[x[2].type] = f[2]}
                                \cup {x \in crr : x[2] = f[2]}
          [] f[1] = "prv" -> {x \in crr : x[2] = f[2]}
          [] OTHER -> {x \in crr : x[3].type = f[2]}

SizeAbout(f) == FoldSet(LAMBDA x, n : x[Len(x)].size + n, 0, About(f))

ITypeOK ==
    /\ em.n \in 0..em.info.max_ops /\ em.stop \in {NULL, "stop", "exit"}
    /\ \A f \in DOMAIN em.fig : em.fig[f].size \in 0..Word - 1

\* Every number of blocks is that of the live blocks it is about; every size is
\* their sum, up to what was cut off the size of a block that did not fit prev_size
\* when it was freed or reallocated, as long as no reallocation has failed: each
\* operation reaches the figures of the type the block was allocated with
\* (insert_operations).
FiguresTrue ==
    em.res = 0 => \A f \in DOMAIN em.fig :
        /\ em.fig[f].no = Cardinality(About(f))
        /\ ~em.failed /\ ~em.cut => em.fig[f].size = SizeAbout(f)
        /\ ~em.failed => (em.fig[f].size - SizeAbout(f)) % PrevWord = 0

\* Every size is the sum of the blocks, unless a reallocation has failed: not so
\* once a block is gone whose size prev_size does not hold.
SizesTrue == em.res = 0 /\ ~em.failed => \A f \in DOMAIN em.fig : em.fig[f].size = SizeAbout(f)

\* Minima and maxima are those since the last line, and the maximum of all times
\* is not lost between the lines (update_*, write_mem_info); a size that a failed
\* reallocation has made wrong may even be less than nothing.
ExtremesTrue ==
    ~em.failed => \A f \in ToSet(Shown(em)) \cap DOMAIN em.fig :
        LET mi == em.fig[f]
        IN  /\ mi.min_size = mi.low /\ mi.max_size = mi.high
            /\ Larger(mi.max_ever_size, mi.max_size) = mi.peak
            /\ em.stop # NULL => mi.max_ever_size = mi.peak

\* There is room for all the values that a line has (complete_state, print_info,
\* print_main_footer).
RoomEnough == em.printed <= em.vpl

\* When memory runs out while the state is completed, each array is freed at the
\* address it was allocated at, with the exception of those of the figures, whose
\* pointers are moved up only when both and the table of blocks are there
\* (complete_state, destroy_state).
FreedAsAllocated ==
    /\ em.misfreed \subseteq {"btype", "allctr"}
    /\ em.misfreed # {} => em.arrays.carriers = 1 /\ em.arrays.prv = NULL

\* Without the exception: an array of figures is freed in front of its beginning.
NothingMisfreed == em.misfreed = {}

\* ASSERT(mi->size >= prev_size) (update_free_op): a block is counted with the
\* size it has.
SizeCoversBlock ==
    em.res = 0 => \A f \in DOMAIN em.fig : \A x \in About(f) : em.fig[f].size >= x[Len(x)].size

\* The figures of a trace are those of the blocks, extremes and lines included,
\* and the lines that show them have room (emem.c, erl_memory.c).
FiguresSound == ITypeOK /\ FiguresTrue /\ ExtremesTrue /\ RoomEnough /\ FreedAsAllocated

=============================================================================
