----------------------------- MODULE EmemTable -----------------------------
(* The table of live memory blocks of emem, which digests the memory trace   *)
(* of an emulator (erl_memory_trace_block_table.c).  All blocks are in one   *)
(* list, in which those of a bucket stand together; a bucket refers to the   *)
(* first of its blocks.  The table grows and shrinks with the number of      *)
(* buckets in use.                                                           *)
EXTENDS Integers, Sequences, FiniteSets, SequencesExt

CONSTANTS
    Ptr,            \* addresses of blocks; 0 is no address
    BlockSize,      \* sizes of blocks
    BlockType,      \* types of blocks
    Hash,           \* MK_HASH of each address
    table_sizes,    \* numbers of buckets
    BlocksPerPool,  \* blocks allocated at a time
    TFaults         \* of "malloc", "realloc": whose calls may fail

ASSUME TableConstants ==
    /\ Ptr \subseteq Nat \ {0} /\ BlockSize \subseteq Nat \ {0} /\ Hash \in [Ptr -> Nat]
    /\ Len(table_sizes) > 2 /\ \A i \in DOMAIN table_sizes : table_sizes[i] \in Nat \ {0}
    /\ BlocksPerPool > 1 /\ TFaults \subseteq {"malloc", "realloc"}

VARIABLES
    tab,        \* the table
    done       \* what the last operation did, its result, and the block there was before

\* ENOMEM, EMTBT_*_XBLK_ERROR, EMTBT_*_NOBLK_ERROR, and what is no result: a
\* size read beyond table_sizes, a division by zero.
NOMEM == 12
XBLK == -2
NOBLK == -3
BEYOND == -4
DIVIDES == -5

null_blk == [ptr |-> 0, type |-> 0, size |-> 0]

\* Positions in table_sizes count from 0, as in the code.
emtbt_new_table ==
    [blocks |-> <<>>, heads |-> <<>>, no_of_buckets |-> 0, max_used_buckets |-> 0,
     min_used_buckets |-> 0, used_buckets |-> 0, current_size_index |-> 0,
     free_blocks |-> 0, pools |-> 0, code |-> 0, fault |-> "none"]

Fails(t, call) == t.fault = call

\* A block from the free list, or from a new pool.
block_alloc(t) ==
    IF t.free_blocks > 0 THEN [t EXCEPT !.free_blocks = @ - 1]
    ELSE IF Fails(t, "malloc") THEN [t EXCEPT !.code = NOMEM]
    ELSE [t EXCEPT !.pools = @ + 1, !.free_blocks = BlocksPerPool - 1]

block_free(t) == [t EXCEPT !.free_blocks = @ + 1]

Bucket(t, p) == Hash[p] % t.no_of_buckets
Position(t, p) ==
    LET at == {i \in DOMAIN t.blocks : t.blocks[i].ptr = p}
    IN  IF at = {} THEN 0 ELSE CHOOSE i \in at : \A j \in at : i <= j

link_block(t, blk) ==
    LET b == Bucket(t, blk.ptr)
        at == IF t.heads[b] # 0 THEN Position(t, t.heads[b]) ELSE 1
    IN  [t EXCEPT !.blocks = InsertAt(@, at, [blk EXCEPT !.bucket = b]), !.heads[b] = blk.ptr,
                  !.used_buckets = IF t.heads[b] # 0 THEN @ ELSE @ + 1]

\* The buckets are renewed and the blocks linked again, from the first one on.
\* When larger ones cannot be had, the old ones are gone; when smaller ones
\* cannot, the old ones stay.
resize_table(t, n) ==
    IF n = t.no_of_buckets \/ (n < t.no_of_buckets /\ Fails(t, "realloc")) THEN t
    ELSE IF n > t.no_of_buckets /\ Fails(t, "malloc") THEN [t EXCEPT !.code = NOMEM]
    ELSE FoldLeft(link_block,
                  [t EXCEPT !.blocks = <<>>, !.heads = [b \in 0..n - 1 |-> 0],
                            !.no_of_buckets = n, !.max_used_buckets = (4 * n) \div 5,
                            !.min_used_buckets = n \div 5, !.used_buckets = 0],
                  t.blocks)

\* The bound admits an index beyond table_sizes.
grow_table(t) ==
    LET ix == t.current_size_index + 1
    IN  IF t.current_size_index >= Len(table_sizes) THEN t
        ELSE IF ix = Len(table_sizes) THEN [t EXCEPT !.code = BEYOND, !.current_size_index = ix]
        ELSE resize_table([t EXCEPT !.current_size_index = ix], table_sizes[ix + 1])

shrink_table(t) ==
    LET ix == t.current_size_index - 1
    IN  IF t.current_size_index = 0 THEN t
        ELSE resize_table([t EXCEPT !.current_size_index = ix], table_sizes[ix + 1])

\* The position of the block, 0 if there is none: from the first block of the
\* bucket up to the first one of another bucket.
InBucket(t, p, b, first) ==
    {i \in first..Len(t.blocks) : t.blocks[i].ptr = p /\ \A j \in first..i : t.blocks[j].bucket = b}

FirstOf(at) == IF at = {} THEN 0 ELSE CHOOSE i \in at : TRUE

peek_block(t, p) ==
    IF t.heads[Bucket(t, p)] = 0 THEN 0
    ELSE FirstOf(InBucket(t, p, Bucket(t, p), Position(t, t.heads[Bucket(t, p)])))

Grown(t) == IF t.used_buckets >= t.max_used_buckets THEN grow_table(t) ELSE t

InsertGrown(t, blk) ==
    IF t.code # 0 THEN t
    ELSE IF peek_block(t, blk.ptr) # 0 THEN [t EXCEPT !.code = XBLK]
    ELSE link_block(t, blk)

insert_block(t, blk) == InsertGrown(Grown(t), blk)

\* The block behind the i-th one, if it is of the same bucket.
NextInBucket(t, i) ==
    IF i < Len(t.blocks) /\ t.blocks[i + 1].bucket = t.blocks[i].bucket THEN t.blocks[i + 1].ptr ELSE 0

Shrunk(t) == IF t.used_buckets < t.min_used_buckets THEN shrink_table(t) ELSE t

Unlinked(t, i, blk, next) ==
    IF t.heads[blk.bucket] # blk.ptr THEN [t EXCEPT !.blocks = RemoveAt(@, i)]
    ELSE [t EXCEPT !.blocks = RemoveAt(@, i), !.heads[blk.bucket] = next,
                   !.used_buckets = IF next = 0 THEN @ - 1 ELSE @]

delete_block(t, i) == Shrunk(Unlinked(t, i, t.blocks[i], NextInBucket(t, i)))

-----------------------------------------------------------------------------
(* Operations on the table: the table afterwards, and what is returned.  To  *)
(* look for a block before there are buckets divides by zero.                *)

Returns(t, old) == [tab |-> t, code |-> t.code, old |-> IF t.code = 0 THEN old ELSE null_blk]
Refuses(t, code) == Returns([t EXCEPT !.code = code], null_blk)
CP_BLK(blk) == [ptr |-> blk.ptr, type |-> blk.type, size |-> blk.size]
Filled(p, type, size) == [ptr |-> p, type |-> type, size |-> size, bucket |-> 0]

AllocatedFrom(t, op) ==
    Returns(IF t.code # 0 THEN t ELSE insert_block(t, Filled(op.new_ptr, op.type, op.new_size)), null_blk)

emtbt_alloc_op(t, op) == AllocatedFrom(block_alloc(t), op)

FreedAt(t, i) ==
    IF i = 0 THEN Refuses(t, NOBLK) ELSE Returns(block_free(delete_block(t, i)), CP_BLK(t.blocks[i]))

emtbt_free_op(t, op) ==
    IF op.prev_ptr = 0 THEN Returns(t, null_blk)
    ELSE IF t.no_of_buckets = 0 THEN Refuses(t, DIVIDES)
    ELSE FreedAt(t, peek_block(t, op.prev_ptr))

\* What becomes of the i-th block: it is resized where it is, or moved.
MovedAt(t, op, i) ==
    IF op.new_ptr = op.prev_ptr THEN [t EXCEPT !.blocks[i].size = op.new_size]
    ELSE insert_block(delete_block(t, i), Filled(op.new_ptr, t.blocks[i].type, op.new_size))

ReallocatedAt(t, op, i) ==
    IF i = 0 THEN Refuses(t, NOBLK)
    ELSE Returns(IF op.new_ptr = 0 THEN t ELSE MovedAt(t, op, i), CP_BLK(t.blocks[i]))

\* Mutation: the block of a reallocation that failed is taken out.
FailedDrops(t, op) ==
    IF op.new_ptr = 0 THEN FreedAt(t, peek_block(t, op.prev_ptr))
    ELSE ReallocatedAt(t, op, peek_block(t, op.prev_ptr))

\* An old block that is looked for and found stays when it cannot have its new size.
Reallocated(t, op) == ReallocatedAt(t, op, peek_block(t, op.prev_ptr))

emtbt_realloc_op(t, op) ==
    IF op.prev_ptr = 0 /\ op.new_size > 0
    THEN IF op.new_ptr = 0 THEN Returns(t, null_blk) ELSE emtbt_alloc_op(t, op)
    ELSE IF t.no_of_buckets = 0 THEN Refuses(t, DIVIDES)
    ELSE IF op.prev_ptr = 0 THEN Refuses(t, NOBLK)
    ELSE IF op.new_size = 0 THEN emtbt_free_op(t, op)
    ELSE Reallocated(t, op)

\* emem gives up when an operation has not been carried out.
Applies(did, result) ==
    /\ done.code = 0
    /\ tab' = [result.tab EXCEPT !.fault = "none"]
    /\ done' = [code |-> result.code, old |-> result.old, did |-> did]

WithFault(f) == [tab EXCEPT !.fault = f]

TbInit == tab = emtbt_new_table /\ done = [code |-> 0, old |-> null_blk, did |-> "none"]

Alloc(f) == \E p \in Ptr, s \in BlockSize, b \in BlockType :
    Applies("alloc", emtbt_alloc_op(WithFault(f), [new_ptr |-> p, new_size |-> s, type |-> b]))
Free(f) == \E p \in Ptr \cup {0} :
    Applies(IF p = 0 THEN "keep" ELSE "free", emtbt_free_op(WithFault(f), [prev_ptr |-> p]))
Realloc(f) == \E p, q \in Ptr \cup {0}, s \in BlockSize \cup {0}, b \in BlockType :
    Applies(IF s = 0 THEN "free" ELSE IF q = 0 THEN "keep" ELSE IF p = 0 THEN "alloc" ELSE "move",
        emtbt_realloc_op(WithFault(f),
        [prev_ptr |-> p, new_ptr |-> q, new_size |-> s, type |-> b]))

TbNext == \E f \in TFaults \cup {"none"} : Alloc(f) \/ Free(f) \/ Realloc(f)

tbvars == <<tab, done>>
TbSpec == TbInit /\ [][TbNext]_tbvars

-----------------------------------------------------------------------------
(* Properties. *)

TbTypeOK ==
    /\ done.code \in {0, NOMEM, XBLK, NOBLK, BEYOND, DIVIDES}
    /\ tab.current_size_index \in 0..Len(table_sizes)
    /\ tab.heads \in [0..tab.no_of_buckets - 1 -> Ptr \cup {0}]
    /\ \A i \in DOMAIN tab.blocks : tab.blocks[i].ptr \in Ptr /\ tab.blocks[i].type \in BlockType

\* Every block can be found: the blocks of a bucket stand together, the bucket
\* refers to the first of them, and the count of the used buckets on which
\* growing and shrinking depend is right (link_block, delete_block, resize_table).
BlocksFound ==
    done.code = 0 =>
        /\ \A i \in DOMAIN tab.blocks : peek_block(tab, tab.blocks[i].ptr) = i
        /\ tab.used_buckets = Cardinality({b \in DOMAIN tab.heads : tab.heads[b] # 0})

\* Blocks are neither lost nor used twice: those in the list and those in the
\* free list are those of the pools (block_alloc, block_free).
PoolsBalance ==
    done.code = 0 => Len(tab.blocks) + tab.free_blocks = tab.pools * BlocksPerPool

\* A look-up divides by zero in no table but one that has never held a block.
DividesAtFirst == done.code = DIVIDES => tab.pools = 0

\* Its buckets, its list and its pools agree at every moment.
BlocksSound == TbTypeOK /\ BlocksFound /\ PoolsBalance /\ DividesAtFirst

\* The table is a map from addresses to blocks, whatever it does to its buckets,
\* and refuses what does not fit the map (emtbt_alloc_op, emtbt_realloc_op,
\* emtbt_free_op).  A refusal is the end; so is a crash, which there is in a table
\* that has never held a block (peek_block).
Live == [p \in {tab.blocks[i].ptr : i \in DOMAIN tab.blocks} |->
            LET blk == tab.blocks[Position(tab, p)] IN [type |-> blk.type, size |-> blk.size]]
Promise == INSTANCE BlockMap WITH
    Address <- Ptr, Size <- BlockSize, Kind <- BlockType, live <- Live, answer <- done
IsBlockMap == Promise!ABSpec /\ []BlocksSound

\* ASSERT(new_size > 0) (grow_table): the size is one of table_sizes.
NewSizeKnown == done.code # BEYOND

\* "Deallocation of non-existing block", "Reallocation of non-existing block"
\* (emtbt_error_string): a block that is not there is refused, in a new table too.
NeverDivides == done.code # DIVIDES
=============================================================================
