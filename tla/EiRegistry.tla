------------------------------ MODULE EiRegistry ------------------------------
(* The registry of a C node (erl_interface, src/registry): a chained hash    *)
(* table of objects that are marked dirty and deleted rather than removed.   *)
(*                                                                           *)
(* A bucket is named by its key and holds the object obj[key].  The memory   *)
(* of strings and binaries is a set of blocks of the heap; the registry owns *)
(* the blocks its objects point to.  Objects and buckets that are not in use *)
(* wait on two free lists, of which only the lengths matter.                 *)
EXTENDS Integers, FiniteSets, Sequences, SequencesExt, Nil

CONSTANTS
    Key,        \* names of objects
    LongKey,    \* those of EI_SMALLKEY characters or more
    Hash,       \* Hash[k]: what the hash function makes of a key
    Content,    \* what integers, floats, strings and binaries may hold
    Block,      \* places of the heap for strings and binaries
    Type,       \* the types of objects used
    BinSize,    \* sizes that binaries with a block are given: 0, 1 or both
    Sizes,      \* sizes of tables an application asks for
    MayFail     \* allocations that may fail: "object", "bucket", "table", "message"

ASSUME RegistryConstants ==
    /\ LongKey \subseteq Key
    /\ Hash \in [Key -> Nat]
    /\ Type \subseteq {"INT", "FLT", "STR", "BIN"}
    /\ BinSize \subseteq {0, 1}
    /\ Sizes \subseteq Nat \ {0}
    /\ MayFail \subseteq {"object", "bucket", "table", "message"}
    /\ NULL \notin Key \cup Content \cup Block

VARIABLES
    tab,        \* the hash table: size, chains of keys, counters, free buckets
    obj,        \* the object of each key: its type, value, size and marks
    objfree,    \* objects on the free list
    heap,       \* the content of each block, NULL when it is free
    wild        \* a block was freed that was not allocated

regvars == <<tab, obj, objfree, heap, wild>>

Pointer == {"STR", "BIN"}

-----------------------------------------------------------------------------
(* The hash table. *)

\* Trial divisors: 2, 3, and the numbers that leave 1 or 5 modulo 6.
factor(n) ==
    {d \in 2..n : (d \in {2, 3} \/ d % 6 \in {1, 5}) /\ d * d <= n /\ n % d = 0}

ei_isprime(n) == factor(n) = {}

\* The first odd number from n on that passes for a prime.
TableSize(n) ==
    LET odd == IF n % 2 = 0 THEN n + 1 ELSE n
    IN  CHOOSE p \in odd..(4 * odd) :
            /\ p % 2 = 1 /\ ei_isprime(p)
            /\ \A q \in odd..(p - 1) : q % 2 = 0 \/ ~ei_isprime(q)

ei_hash_newtab(n) ==
    [size |-> TableSize(n), npos |-> 0, nelem |-> 0, freelist |-> 0,
     chain |-> [i \in 0..(TableSize(n) - 1) |-> <<>>]]

Position(t, k) == Hash[k] % t.size

ei_hash_lookup(t, k) == Contains(t.chain[Position(t, k)], k)

\* Whether a bucket can be had for the key.
ei_hash_bmalloc(t, k, memory) ==
    \/ "bucket" \notin memory
    \/ k \notin LongKey /\ t.freelist > 0

\* A key that is new goes to the front of its chain; short keys take a bucket
\* of the free list when there is one.
ei_hash_insert(t, k, memory) ==
    LET p == Position(t, k)
    IN  IF ei_hash_lookup(t, k) \/ ~ei_hash_bmalloc(t, k, memory) THEN t
        ELSE [t EXCEPT
                 !.chain[p] = <<k>> \o @,
                 !.npos = IF t.chain[p] = <<>> THEN @ + 1 ELSE @,
                 !.nelem = @ + 1,
                 !.freelist = IF k \in LongKey \/ @ = 0 THEN @ ELSE @ - 1]

\* Buckets of long keys are freed, the others are kept.
ei_hash_bfree(t, ks) == t.freelist + Cardinality(ks \ LongKey)

\* The keys in the order a traversal of a table meets them.
Traversal(t) == FlattenSeq([i \in 1..t.size |-> t.chain[i - 1]])

\* The keys are moved in the order of the old table, each to the front of its
\* new chain; the new table takes the free list over.
ei_hash_resize(t, n) ==
    LET new == ei_hash_newtab(n)
        Move(u, k) ==
            LET p == Position(u, k)
            IN  [u EXCEPT !.npos = IF u.chain[p] = <<>> THEN @ + 1 ELSE @,
                          !.chain[p] = <<k>> \o @]
    IN  IF TableSize(n) = t.size THEN t
        ELSE [FoldLeft(Move, new, Traversal(t)) EXCEPT
                 !.nelem = t.nelem, !.freelist = t.freelist]

-----------------------------------------------------------------------------
(* Objects and their memory. *)

NewObject(type, val, size) ==
    [type |-> type, val |-> val, size |-> size, dirty |-> TRUE, delet |-> FALSE]

\* The blocks of the objects of keys ks; free() does nothing with NULL.
BlocksOf(ks) == {obj[k].val : k \in {j \in ks : obj[j].type \in Pointer}} \ {NULL}

Free(h, blocks) == [b \in Block |-> IF b \in blocks THEN NULL ELSE h[b]]

\* The objects of keys ks go to the free list and their values are freed.
ei_reg_free(ks) ==
    /\ objfree' = objfree + Cardinality(ks)
    /\ heap' = Free(heap, BlocksOf(ks))
    /\ wild' = (wild \/ \E b \in BlocksOf(ks) : heap[b] = NULL)

ei_reg_make(memory) == objfree > 0 \/ "object" \notin memory

\* A new object is wanted and cannot be had.
NoObject(k, memory) == ~ei_hash_lookup(tab, k) /\ ~ei_reg_make(memory)

\* What a new object takes from the free list.
Taken == IF objfree > 0 THEN 1 ELSE 0

\* The heap with a content in a block that was free; NULL is no block.
Filled(b, c) == IF b = NULL THEN heap ELSE [heap EXCEPT ![b] = c]

\* The common part of the four set functions, in a heap h that already holds
\* the value.  When there is no memory for the object the call fails.  When
\* there is none for the bucket it does not: the object is filled in and lost.
SetObject(k, type, val, size, h, memory) ==
    LET t == ei_hash_insert(tab, k, memory)
    IN  IF ei_hash_lookup(tab, k)
        THEN LET freed == IF obj[k].size > 0 THEN BlocksOf({k}) ELSE {}
             IN  /\ obj' = [obj EXCEPT ![k] = NewObject(type, val, size)]
                 /\ heap' = Free(h, freed)
                 /\ wild' = (wild \/ \E b \in freed : heap[b] = NULL)
                 /\ UNCHANGED <<tab, objfree>>
        ELSE IF NoObject(k, memory) THEN UNCHANGED regvars
        ELSE /\ tab' = t
             /\ objfree' = objfree - Taken
             /\ obj' = IF ei_hash_lookup(t, k)
                       THEN [obj EXCEPT ![k] = NewObject(type, val, size)]
                       ELSE obj
             /\ heap' = h
             /\ UNCHANGED wild

ei_reg_setival(k, c, memory) == SetObject(k, "INT", c, 0, heap, memory)
ei_reg_setfval(k, c, memory) == SetObject(k, "FLT", c, 0, heap, memory)
ei_reg_setsval(k, b, h, memory) ==
    SetObject(k, "STR", b, IF b = NULL THEN 0 ELSE 1, h, memory)
ei_reg_setpval(k, b, size, h, memory) == SetObject(k, "BIN", b, size, h, memory)

\* The general function picks one of the four by the type.
ei_reg_setval(k, type, b, c, memory) ==
    \/ type = "INT" /\ b = NULL /\ ei_reg_setival(k, c, memory)
    \/ type = "FLT" /\ b = NULL /\ ei_reg_setfval(k, c, memory)
    \/ type = "STR" /\ ei_reg_setsval(k, b, Filled(b, c), memory)
    \/ /\ type = "BIN"
       /\ \E size \in IF b = NULL THEN {0} ELSE BinSize :
              ei_reg_setpval(k, b, size, Filled(b, c), memory)

Found(k) == ei_hash_lookup(tab, k) /\ ~obj[k].delet

\* What the objects hold: a block stands for what is in it.
ValueOf(o) == [type |-> o.type,
             val |-> IF o.type \notin Pointer THEN o.val
                     ELSE IF o.val = NULL THEN NULL ELSE heap[o.val]]

\* Of a type asked for, or of any (NULL); NULL is also the answer for failure.
ei_reg_getval(k, type) ==
    IF Found(k) /\ type \in {NULL, obj[k].type} THEN ValueOf(obj[k]) ELSE NULL

ei_reg_getival(k) == ei_reg_getval(k, "INT")
ei_reg_getfval(k) == ei_reg_getval(k, "FLT")
ei_reg_getsval(k) == ei_reg_getval(k, "STR")
ei_reg_getpval(k) == ei_reg_getval(k, "BIN")

\* The marks of an object and the size, also of one that is deleted.
ei_reg_stat(k) ==
    IF ei_hash_lookup(tab, k)
    THEN [dirty |-> obj[k].dirty, delet |-> obj[k].delet, size |-> obj[k].size]
    ELSE NULL

ei_reg_tabstat ==
    [npos |-> tab.npos, size |-> tab.size, nelem |-> tab.nelem,
     collisions |-> tab.nelem - tab.npos]

ei_reg_delete(k) ==
    /\ ei_hash_lookup(tab, k)
    /\ obj' = [obj EXCEPT ![k].delet = TRUE, ![k].dirty = TRUE]
    /\ UNCHANGED <<tab, objfree, heap, wild>>

ei_reg_markdirty(k) ==
    /\ ei_hash_lookup(tab, k)
    /\ obj' = [obj EXCEPT ![k].dirty = TRUE]
    /\ UNCHANGED <<tab, objfree, heap, wild>>

\* Mutation: only the front of the chain is looked at.
PurgeFront(i) ==
    LET c == tab.chain[i]
    IN  IF c # <<>> /\ obj[Head(c)].delet THEN Tail(c) ELSE c

\* The chain without its deleted objects: first those at the front, then those
\* behind an object that stays.
do_purge(i) == SelectSeq(tab.chain[i], LAMBDA k : ~obj[k].delet)

ei_reg_purge ==
    LET gone == {k \in Key : ei_hash_lookup(tab, k) /\ obj[k].delet}
        emptied == {i \in DOMAIN tab.chain :
                        tab.chain[i] # <<>> /\ do_purge(i) = <<>>}
    IN  /\ tab' = [tab EXCEPT
                      !.chain = [i \in DOMAIN tab.chain |-> do_purge(i)],
                      !.nelem = @ - Cardinality(gone),
                      !.npos = @ - Cardinality(emptied),
                      !.freelist = ei_hash_bfree(tab, gone)]
        /\ obj' = [k \in Key |-> IF k \in gone THEN NULL ELSE obj[k]]
        /\ ei_reg_free(gone)

\* The old table stays when there is no memory for the new one.
ei_reg_resize(n, memory) ==
    /\ tab' = IF "table" \in memory THEN tab ELSE ei_hash_resize(tab, n)
    /\ UNCHANGED <<obj, objfree, heap, wild>>

\* Closing frees the objects of the table with their values, and both free
\* lists; the registry opened next starts from nothing.
ei_reg_close(n) ==
    LET all == {k \in Key : ei_hash_lookup(tab, k)}
    IN  /\ tab' = ei_hash_newtab(n)
        /\ obj' = [k \in Key |-> NULL]
        /\ objfree' = 0
        /\ heap' = Free(heap, BlocksOf(all))
        /\ wild' = (wild \/ \E b \in BlocksOf(all) : heap[b] = NULL)

ei_reg_open ==
    /\ tab \in {ei_hash_newtab(n) : n \in Sizes}
    /\ obj = [k \in Key |-> NULL]
    /\ objfree = 0
    /\ heap = [b \in Block |-> NULL]
    /\ wild = FALSE

\* The first key with a given object.
ei_hash_rlookup(t, o) ==
    LET ks == SelectSeq(Traversal(t), LAMBDA k : obj[k] = o)
    IN  IF ks = <<>> THEN NULL ELSE Head(ks)

=============================================================================
