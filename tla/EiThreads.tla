------------------------------ MODULE EiThreads ------------------------------
(* What erl_interface keeps apart for the threads of a program: mutexes      *)
(* (ei_locking.c over ei_pthreads.c) and the reentrant look-up of hosts      *)
(* (ei_resolve.c), which serialises a resolver with one static result and    *)
(* copies that into the buffer of each caller.                               *)
EXTENDS Nil, Integers, FiniteSets, Sequences, SequencesExt

CONSTANTS
    Thread,
    Mutex,      \* mutexes that can be created
    Host,       \* hosts known to the resolver: name length, aliases, addresses
    Unknown,    \* a name that is not found
    BufferSize, \* lengths of the buffers of callers
    NonBlocking,\* values of the argument nblock that the program uses
    EarlyInit   \* the program calls ei_init_resolve before it starts threads

ASSUME ThreadConstants ==
    /\ NonBlocking \subseteq {0, 1} /\ EarlyInit \in BOOLEAN
    /\ BufferSize \subseteq Nat
    /\ NULL \notin Thread \cup Mutex \cup DOMAIN Host

VARIABLES
    alive,      \* mutexes that exist
    holder,     \* the thread that holds each mutex
    inside,     \* threads that were told they hold it
    sem,        \* ei_gethost_sem
    init,       \* ei_resolve_initialized
    static,     \* the host in the static result of the resolver
    look        \* the look-up of each thread

tvars == <<alive, holder, inside, sem, init, static, look>>
mutexes == <<alive, holder, inside>>
resolver == <<sem, init, static, look>>

-----------------------------------------------------------------------------
(* Mutexes. *)

ei_mutex_create(m) ==
    /\ m \notin alive /\ alive' = alive \cup {m}
    /\ holder' = [holder EXCEPT ![m] = NULL]

\* EBUSY, which is positive, when the mutex is held, and 0 otherwise.
ei_m_trylock(m) == IF holder[m] = NULL THEN 0 ELSE 16

\* The mutex is held by the caller afterwards, or the caller believes so.
Locked(t, m) ==
    /\ holder' = [holder EXCEPT ![m] = IF @ = NULL THEN t ELSE @]
    /\ inside' = [inside EXCEPT ![m] = @ \cup {t}]

\* Mutation: a blocking call does not wait.
LockAtOnce(t, m, nblock) == m \in alive /\ Locked(t, m) /\ UNCHANGED alive

\* A call that must not block fails when ei_m_trylock returns less than 0.
ei_mutex_lock(t, m, nblock) ==
    /\ m \in alive
    /\ IF nblock = 0 THEN holder[m] = NULL ELSE ~(ei_m_trylock(m) < 0)
    /\ Locked(t, m)
    /\ UNCHANGED alive

ei_mutex_unlock(t, m) ==
    /\ holder' = [holder EXCEPT ![m] = NULL]
    /\ inside' = [inside EXCEPT ![m] = @ \ {t}]
    /\ UNCHANGED alive

\* The mutex is locked first, to make sure that nobody holds it.
ei_mutex_free(m, nblock) ==
    /\ m \in alive
    /\ IF nblock = 0 THEN holder[m] = NULL ELSE ~(ei_m_trylock(m) < 0)
    /\ alive' = alive \ {m}
    /\ UNCHANGED <<holder, inside>>

\* A program that guards something of its own with mutexes.
Guard(t) ==
    /\ \E m \in Mutex \ {sem}, nblock \in NonBlocking :
         \/ ei_mutex_create(m) /\ inside' = [inside EXCEPT ![m] = {}]
         \/ \A n \in Mutex : t \notin inside[n] /\ ei_mutex_lock(t, m, nblock)
         \/ t \in inside[m] /\ ei_mutex_unlock(t, m)
         \/ inside[m] = {} /\ ei_mutex_free(m, nblock)
    /\ UNCHANGED resolver

-----------------------------------------------------------------------------
(* Looking up a host. *)

NoLookup == [pc |-> "idle", name |-> NULL, buflen |-> 0, ret |-> NULL]

\* Bytes from a position to the next that is a multiple of 4.
align_buf(at) == (4 - (at % 4)) % 4

\* One step of the copy: align, or take n bytes.  Pointers are compared with the
\* size of their type, which has no sign: less than nothing is left passes for
\* enough.  The rest is compared as signed numbers.
Step(s, step) ==
    IF s.ret # 0 THEN s
    ELSE CASE step.do = "align" ->
                 [s EXCEPT !.at = @ + align_buf(@), !.len = @ - align_buf(s.at)]
           [] step.do = "pointer" ->
                 IF s.len >= 0 /\ s.len < 4 THEN [s EXCEPT !.ret = -1]
                 ELSE [s EXCEPT !.at = @ + 4, !.len = @ - 4]
           [] step.do = "bytes" ->
                 IF s.len < step.n THEN [s EXCEPT !.ret = -1]
                 ELSE [s EXCEPT !.at = @ + step.n, !.len = @ - step.n]

Times(n, step) == [i \in 1..n |-> step]
Bytes(n) == [do |-> "bytes", n |-> n + 1]
Align == [do |-> "align", n |-> 0]
APointer == [do |-> "pointer", n |-> 4]

\* The name; the pointers to the aliases and their end; the aliases; the same
\* for the addresses.
Layout(h) ==
    <<Align, Bytes(h.name), Align>>
    \o Times(Len(h.aliases) + 1, APointer)
    \o [i \in DOMAIN h.aliases |-> Bytes(h.aliases[i])]
    \o <<Align>> \o Times(h.addrs + 1, APointer) \o Times(h.addrs, Bytes(4))

\* The steps of a layout one after the other.
Copied(layout, buflen) ==
    LET f[i \in 0..Len(layout)] ==
            IF i = 0 THEN [at |-> 0, len |-> buflen, ret |-> 0]
            ELSE LET s == f[i - 1] IN Step(s, layout[i])
        s == f[Len(layout)]
    IN  IF s.ret = 0 /\ s.len < 0 THEN -1 ELSE s.ret

\* Mutation: the pointer that ends a list is not looked for.
CopyUnended == [h \in DOMAIN Host, n \in BufferSize |->
    Copied(SelectSeq(Layout(Host[h]), LAMBDA x : x # APointer), n)]

\* 0 on success, -1 when the buffer is too small.
copy_hostent == [h \in DOMAIN Host, n \in BufferSize |-> Copied(Layout(Host[h]), n)]

\* A look-up begins: the mutex is created by the first one that finds none.
my_gethostbyname_r(t) ==
    /\ look[t].pc = "idle" /\ (EarlyInit => init)
    /\ \E name \in DOMAIN Host \cup {Unknown}, n \in BufferSize :
         look' = [look EXCEPT ![t] = [pc |-> IF init THEN "lock" ELSE "init", name |-> name,
                                      buflen |-> n, ret |-> NULL]]
    /\ UNCHANGED <<mutexes, sem, init, static>>

ei_init_resolve(t) ==
    /\ look[t].pc = "init" \/ (EarlyInit /\ ~init)
    /\ \E m \in Mutex : ei_mutex_create(m) /\ sem' = m
    /\ init' = TRUE
    /\ look' = [look EXCEPT ![t].pc = IF @ = "init" THEN "lock" ELSE @]
    /\ UNCHANGED <<inside, static>>

\* Mutation: the mutex is not locked.
LockNone(t) ==
    /\ look[t].pc = "lock"
    /\ look' = [look EXCEPT ![t].pc = "find"]
    /\ UNCHANGED <<mutexes, sem, init, static>>

LockResolver(t) ==
    /\ look[t].pc = "lock"
    /\ ei_mutex_lock(t, sem, 0)
    /\ look' = [look EXCEPT ![t].pc = "find"]
    /\ UNCHANGED <<sem, init, static>>

\* The resolver puts what it finds in its static result.
ei_gethostbyname(t) ==
    /\ look[t].pc = "find"
    /\ IF look[t].name = Unknown
       THEN UNCHANGED static /\ look' = [look EXCEPT ![t].pc = "unlock", ![t].ret = "not found"]
       ELSE static' = look[t].name /\ look' = [look EXCEPT ![t].pc = "copy"]
    /\ UNCHANGED <<mutexes, sem, init>>

CopyResult(t) ==
    /\ look[t].pc = "copy"
    /\ look' = [look EXCEPT ![t].pc = "unlock",
                            ![t].ret = IF copy_hostent[static, look[t].buflen] = 0
                                       THEN static ELSE "ERANGE"]
    /\ UNCHANGED <<mutexes, sem, init, static>>

UnlockResolver(t) ==
    /\ look[t].pc = "unlock"
    /\ ei_mutex_unlock(t, sem)
    /\ look' = [look EXCEPT ![t].pc = "done"]
    /\ UNCHANGED <<sem, init, static>>

\* The caller is done with the answer.
Used(t) ==
    /\ look[t].pc = "done"
    /\ look' = [look EXCEPT ![t] = NoLookup]
    /\ UNCHANGED <<mutexes, sem, init, static>>

-----------------------------------------------------------------------------

TInit ==
    /\ alive = {} /\ sem = NULL /\ init = FALSE /\ static = NULL
    /\ holder = [m \in Mutex |-> NULL] /\ inside = [m \in Mutex |-> {}]
    /\ look = [t \in Thread |-> NoLookup]

Resolve(t) ==
    \/ ei_init_resolve(t) \/ LockResolver(t) \/ ei_gethostbyname(t) \/ CopyResult(t)
    \/ UnlockResolver(t)

TNext == \E t \in Thread :
    Guard(t) \/ my_gethostbyname_r(t) \/ Resolve(t) \/ Used(t)

TSpec == TInit /\ [][TNext]_tvars

-----------------------------------------------------------------------------
(* Properties. *)

ThTypeOK ==
    /\ alive \subseteq Mutex /\ init \in BOOLEAN /\ sem \in IF init THEN alive ELSE {NULL}
    /\ \A m \in Mutex : holder[m] \in Thread \cup {NULL} /\ inside[m] \subseteq Thread
    /\ static \in DOMAIN Host \cup {NULL}
    /\ \A t \in Thread : look[t].pc \in {"idle", "init", "lock", "find", "copy", "unlock", "done"}

\* The section between locking and unlocking belongs to one thread, and that
\* thread holds the mutex (ei_mutex_lock, ei_mutex_unlock).
MutualExclusion ==
    \A m \in Mutex : \A t \in inside[m] : inside[m] = {t} /\ holder[m] = t

\* What a look-up answers follows from its own question alone.
ResultOf(l) ==
    IF l.name = Unknown THEN "not found"
    ELSE IF copy_hostent[l.name, l.buflen] = 0 THEN l.name ELSE "ERANGE"

\* A look-up that succeeds returns the host that was asked for, whoever else uses the
\* resolver and its static result, and one that fails had too little room for it or
\* asked for a name that is not known (my_gethostbyname_r).
OwnAnswer == \A t \in Thread : look[t].pc = "done" => look[t].ret = ResultOf(look[t])

LookupsSound == ThTypeOK /\ OwnAnswer

\* A host is copied exactly when what it needs fits: aligned names, pointers and the
\* pointers that end the lists (copy_hostent).
Needed == [h \in DOMAIN Host |->
    LET layout == Layout(Host[h])
        f[i \in 0..Len(layout)] ==
            IF i = 0 THEN 0
            ELSE LET n == f[i - 1]
                 IN  n + (IF layout[i].do = "align" THEN align_buf(n) ELSE layout[i].n)
    IN  f[Len(layout)]]

CopyExact ==
    \A t \in Thread : look[t].pc = "copy" =>
        (copy_hostent[static, look[t].buflen] = 0 <=> Needed[static] <= look[t].buflen)

\* "If the mutex is busy and nblock != 0, the function will not block. Instead it
\* will return -1 immediately" (ei_locking.c).
BusyIsToldApart == \A m \in Mutex : Cardinality(inside[m]) <= 1

=============================================================================
