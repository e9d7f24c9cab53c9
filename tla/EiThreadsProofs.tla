--------------------------- MODULE EiThreadsProofs ---------------------------
(***************************************************************************)
(* What erl_interface keeps apart for any number of threads, mutexes and   *)
(* hosts.  The theorems are about programs that use the library as its own *)
(* sources do: every call of ei_mutex_lock blocks, and ei_init_resolve has *)
(* returned before a second thread looks up a host.                        *)
(***************************************************************************)
EXTENDS EiThreads, EiErrno, TLAPS

-----------------------------------------------------------------------------
(* The mutexes and the resolver.                                           *)

Pc == {"idle", "init", "lock", "find", "copy", "unlock", "done"}
Answer == DOMAIN Host \cup {NULL, "not found", "ERANGE"}

Lookup == [pc : Pc, name : DOMAIN Host \cup {Unknown, NULL},
           buflen : BufferSize \cup {0}, ret : Answer]

\* The types of all variables, those of the fields of a look-up included.
Types ==
    /\ alive \subseteq Mutex /\ init \in BOOLEAN /\ sem \in IF init THEN alive ELSE {NULL}
    /\ holder \in [Mutex -> Thread \cup {NULL}]
    /\ inside \in [Mutex -> SUBSET Thread]
    /\ static \in DOMAIN Host \cup {NULL}
    /\ look \in [Thread -> Lookup]

\* A look-up is past "init" only when the resolver is initialised, and from
\* "find" to "unlock" its thread is inside the resolver's mutex.
InResolver ==
    \A t \in Thread :
        /\ look[t].pc \notin {"init"}
        /\ look[t].pc \in {"lock", "find", "copy", "unlock"} => init
        /\ look[t].pc \in {"find", "copy", "unlock"} => t \in inside[sem]

\* Nobody is inside a mutex that does not exist.
AliveOnly == \A m \in Mutex \ alive : inside[m] = {}

\* The static result is the host of the thread that is about to copy it, and
\* the answer of a look-up that is over is that of its own question.
OwnResult ==
    \A t \in Thread :
        /\ look[t].pc = "copy" => static = look[t].name /\ look[t].name # Unknown
        /\ look[t].pc \in {"unlock", "done"} => look[t].ret = ResultOf(look[t])

ThreadsInv == Types /\ MutualExclusion /\ InResolver /\ AliveOnly

Used0 == NonBlocking \subseteq {0} /\ EarlyInit

\* At the start the mutexes are free and no result is out.
LEMMA InitThreads == TInit => ThreadsInv /\ OwnResult
<1> SUFFICES ASSUME TInit PROVE ThreadsInv /\ OwnResult
  OBVIOUS
<1>1. NoLookup \in Lookup
  BY DEF NoLookup, Lookup, Pc, Answer
<1>2. Types /\ MutualExclusion /\ AliveOnly
  BY <1>1 DEF TInit, Types, MutualExclusion, AliveOnly
<1>3. \A t \in Thread : look[t].pc = "idle"
  BY DEF TInit, NoLookup
<1> QED
  BY <1>2, <1>3 DEF ThreadsInv, InResolver, OwnResult

\* A thread that enters a mutex finds nobody inside.
LEMMA LockKeeps ==
    ASSUME ThreadsInv, Used0, NEW t \in Thread, NEW m \in Mutex, NEW nblock \in NonBlocking \cup {0},
           ei_mutex_lock(t, m, nblock)
    PROVE  /\ holder' \in [Mutex -> Thread \cup {NULL}] /\ inside' \in [Mutex -> SUBSET Thread]
           /\ MutualExclusion' /\ m \in alive /\ alive' = alive /\ inside[m] = {}
           /\ inside' = [inside EXCEPT ![m] = {t}]
<1>1. nblock = 0 /\ m \in alive /\ holder[m] = NULL /\ alive' = alive
  BY DEF Used0, ei_mutex_lock
<1>2. inside[m] = {}
  BY <1>1, ThreadConstants DEF ThreadsInv, MutualExclusion, Types
<1>3. holder' = [holder EXCEPT ![m] = t] /\ inside' = [inside EXCEPT ![m] = {t}]
  BY <1>1, <1>2 DEF ei_mutex_lock, Locked, ThreadsInv, Types
<1> QED
  BY <1>1, <1>2, <1>3 DEF ThreadsInv, MutualExclusion, Types

\* A thread unlocks a mutex.
LEMMA UnlockKeeps ==
    ASSUME ThreadsInv, NEW t \in Thread, NEW m \in Mutex, t \in inside[m],
           ei_mutex_unlock(t, m)
    PROVE  /\ holder' \in [Mutex -> Thread \cup {NULL}] /\ inside' \in [Mutex -> SUBSET Thread]
           /\ MutualExclusion' /\ alive' = alive
           /\ inside' = [inside EXCEPT ![m] = {}]
<1>1. inside[m] = {t}
  BY DEF ThreadsInv, MutualExclusion
<1>2. inside' = [inside EXCEPT ![m] = {}] /\ holder' = [holder EXCEPT ![m] = NULL] /\ alive' = alive
  BY <1>1 DEF ei_mutex_unlock, ThreadsInv, Types
<1> QED
  BY <1>2 DEF ThreadsInv, MutualExclusion, Types

\* A program that guards something of its own leaves the resolver alone.
LEMMA GuardKeeps ==
    ASSUME ThreadsInv, Used0, NEW t \in Thread, Guard(t)
    PROVE  ThreadsInv'
<1>0. UNCHANGED <<sem, init, static, look>>
  BY DEF Guard, resolver
<1> PICK m \in Mutex \ {sem}, nblock \in NonBlocking :
         \/ ei_mutex_create(m) /\ inside' = [inside EXCEPT ![m] = {}]
         \/ \A n \in Mutex : t \notin inside[n] /\ ei_mutex_lock(t, m, nblock)
         \/ t \in inside[m] /\ ei_mutex_unlock(t, m)
         \/ inside[m] = {} /\ ei_mutex_free(m, nblock)
  BY DEF Guard
<1>1. CASE ei_mutex_create(m) /\ inside' = [inside EXCEPT ![m] = {}]
  BY <1>0, <1>1 DEF ei_mutex_create, ThreadsInv, Types, MutualExclusion, InResolver, AliveOnly
<1>2. CASE \A n \in Mutex : t \notin inside[n] /\ ei_mutex_lock(t, m, nblock)
  <2>1. ei_mutex_lock(t, m, nblock)
    BY <1>2
  <2> QED
    BY <1>0, <2>1, LockKeeps DEF ThreadsInv, Types, InResolver, AliveOnly
<1>3. CASE t \in inside[m] /\ ei_mutex_unlock(t, m)
  BY <1>0, <1>3, UnlockKeeps DEF ThreadsInv, Types, InResolver, AliveOnly
<1>4. CASE inside[m] = {} /\ ei_mutex_free(m, nblock)
  BY <1>0, <1>4 DEF ei_mutex_free, ThreadsInv, Types, MutualExclusion, InResolver, AliveOnly
<1> QED
  BY <1>1, <1>2, <1>3, <1>4

\* The first thread creates the mutex of the host look-up.
LEMMA InitResolveKeeps ==
    ASSUME ThreadsInv, Used0, NEW t \in Thread, ei_init_resolve(t)
    PROVE  ThreadsInv' /\ look' = look
<1>1. ~init /\ sem = NULL /\ look' = look
  BY DEF ei_init_resolve, ThreadsInv, InResolver, Types, Lookup
<1> PICK m \in Mutex : ei_mutex_create(m) /\ sem' = m
  BY DEF ei_init_resolve
<1> QED
  BY <1>1 DEF ei_init_resolve, ei_mutex_create, ThreadsInv, Types, MutualExclusion, InResolver,
      AliveOnly

\* A thread that has gone on to pc in its look-up, which is typed.
LEMMA StepTyped ==
    ASSUME Types, NEW t \in Thread, NEW pc \in Pc, NEW ret \in Answer,
           look' = [look EXCEPT ![t] = [@ EXCEPT !.pc = pc, !.ret = ret]]
    PROVE  /\ look' \in [Thread -> Lookup]
           /\ look'[t].pc = pc /\ look'[t].ret = ret
           /\ look'[t].name = look[t].name /\ look'[t].buflen = look[t].buflen
           /\ \A u \in Thread \ {t} : look'[u] = look[u]
BY DEF Types, Lookup

\* The section that uses the static result is entered and left through the mutex.
LEMMA LookKeeps ==
    ASSUME ThreadsInv, Used0, NEW t \in Thread,
           \/ my_gethostbyname_r(t) \/ LockResolver(t) \/ ei_gethostbyname(t) \/ CopyResult(t)
           \/ UnlockResolver(t) \/ Used(t)
    PROVE  ThreadsInv'
<1>0. look[t] \in Lookup /\ Types
  BY DEF ThreadsInv, Types
<1>1. CASE my_gethostbyname_r(t)
  <2> PICK name \in DOMAIN Host \cup {Unknown}, n \in BufferSize :
         look' = [look EXCEPT ![t] = [pc |-> "lock", name |-> name, buflen |-> n, ret |-> NULL]]
    BY <1>1 DEF my_gethostbyname_r, Used0
  <2>1. [pc |-> "lock", name |-> name, buflen |-> n, ret |-> NULL] \in Lookup
    BY DEF Lookup, Pc, Answer
  <2> QED
    BY <1>1, <2>1 DEF my_gethostbyname_r, mutexes, ThreadsInv, Types, MutualExclusion, InResolver,
        AliveOnly, Used0
<1>2. CASE LockResolver(t)
  <2>1. sem \in Mutex /\ ei_mutex_lock(t, sem, 0) /\ init
    BY <1>2 DEF LockResolver, ThreadsInv, InResolver, Types
  <2>2. look' = [look EXCEPT ![t] = [@ EXCEPT !.pc = "find", !.ret = look[t].ret]]
    BY <1>0, <1>2 DEF LockResolver, Types, Lookup
  <2>3. "find" \in Pc /\ look[t].ret \in Answer
    BY <1>0 DEF Pc, Lookup
  <2>4. /\ look' \in [Thread -> Lookup] /\ look'[t].pc = "find"
        /\ \A u \in Thread \ {t} : look'[u] = look[u]
    BY <1>0, <2>2, <2>3, StepTyped
  <2> QED
    BY <1>2, <2>1, <2>4, LockKeeps DEF LockResolver, ThreadsInv, Types, InResolver, AliveOnly
<1>3. CASE ei_gethostbyname(t)
  <2>1. PICK pc \in {"unlock", "copy"}, ret \in {"not found", look[t].ret} :
           look' = [look EXCEPT ![t] = [@ EXCEPT !.pc = pc, !.ret = ret]]
    BY <1>0, <1>3 DEF ei_gethostbyname, Types, Lookup
  <2>2. pc \in Pc /\ ret \in Answer
    BY <1>0 DEF Pc, Lookup, Answer
  <2>3. /\ look' \in [Thread -> Lookup] /\ look'[t].pc = pc
        /\ \A u \in Thread \ {t} : look'[u] = look[u]
    BY <1>0, <2>1, <2>2, StepTyped
  <2>4. static' \in DOMAIN Host \cup {NULL}
    BY <1>0, <1>3 DEF ei_gethostbyname, Types, Lookup, ThreadsInv
  <2> QED
    BY <1>3, <2>3, <2>4, ZenonT(60) DEF ei_gethostbyname, mutexes, ThreadsInv, Types, MutualExclusion,
        InResolver, AliveOnly
<1>4. CASE CopyResult(t)
  <2>1. PICK ret \in {static, "ERANGE"} :
           look' = [look EXCEPT ![t] = [@ EXCEPT !.pc = "unlock", !.ret = ret]]
    BY <1>0, <1>4 DEF CopyResult, Types, Lookup
  <2>2. "unlock" \in Pc /\ ret \in Answer
    BY <1>0 DEF Pc, Types, Answer
  <2>3. /\ look' \in [Thread -> Lookup] /\ look'[t].pc = "unlock"
        /\ \A u \in Thread \ {t} : look'[u] = look[u]
    BY <1>0, <2>1, <2>2, StepTyped
  <2> QED
    BY <1>4, <2>3, ZenonT(60) DEF CopyResult, mutexes, ThreadsInv, Types, MutualExclusion, InResolver,
        AliveOnly
<1>5. CASE UnlockResolver(t)
  <2>1. init /\ sem \in Mutex /\ inside[sem] = {t} /\ ei_mutex_unlock(t, sem)
    BY <1>5 DEF UnlockResolver, ThreadsInv, InResolver, Types, MutualExclusion
  <2>2. look' = [look EXCEPT ![t] = [@ EXCEPT !.pc = "done", !.ret = look[t].ret]]
    BY <1>0, <1>5 DEF UnlockResolver, Types, Lookup
  <2>3. "done" \in Pc /\ look[t].ret \in Answer
    BY <1>0 DEF Pc, Lookup
  <2>4. /\ look' \in [Thread -> Lookup] /\ look'[t].pc = "done"
        /\ \A u \in Thread \ {t} : look'[u] = look[u]
    BY <1>0, <2>2, <2>3, StepTyped
  <2> QED
    BY <1>5, <2>1, <2>4, UnlockKeeps
    DEF UnlockResolver, ThreadsInv, Types, InResolver, AliveOnly
<1>6. CASE Used(t)
  <2>1. NoLookup \in Lookup /\ NoLookup.pc = "idle"
    BY DEF NoLookup, Lookup, Pc, Answer
  <2> QED
    BY <1>6, <2>1 DEF Used, mutexes, ThreadsInv, Types, MutualExclusion, InResolver, AliveOnly
<1> QED
  BY <1>1, <1>2, <1>3, <1>4, <1>5, <1>6

\* Every step keeps the bookkeeping of the mutexes.
LEMMA NextThreads == ASSUME ThreadsInv, Used0, [TNext]_tvars PROVE ThreadsInv'
<1>1. CASE UNCHANGED tvars
  BY <1>1 DEF tvars, ThreadsInv, Types, MutualExclusion, InResolver, AliveOnly
<1>2. CASE TNext
  BY <1>2, GuardKeeps, InitResolveKeeps, LookKeeps DEF TNext, Resolve
<1> QED
  BY <1>1, <1>2
\* Only one thread is between finding a host and leaving the mutex.
LEMMA OneInResolver ==
    ASSUME ThreadsInv, NEW t \in Thread, NEW u \in Thread,
           look[t].pc \in {"find", "copy", "unlock"}, look[u].pc \in {"find", "copy", "unlock"}
    PROVE  t = u
<1>1. init /\ sem \in Mutex /\ t \in inside[sem] /\ u \in inside[sem]
  BY DEF ThreadsInv, InResolver, Types
<1> QED
  BY <1>1 DEF ThreadsInv, MutualExclusion

\* Every step leaves each thread with its own result.
LEMMA NextOwn == ASSUME ThreadsInv, Used0, OwnResult, [TNext]_tvars PROVE OwnResult'
<1>0. Types
  BY DEF ThreadsInv
<1>1. CASE UNCHANGED <<static, look>>
  BY <1>1 DEF OwnResult, ResultOf
<1> SUFFICES ASSUME NEW t \in Thread,
                    \/ my_gethostbyname_r(t) \/ LockResolver(t) \/ ei_gethostbyname(t)
                    \/ CopyResult(t) \/ UnlockResolver(t) \/ Used(t)
             PROVE  OwnResult'
  BY <1>1, InitResolveKeeps DEF tvars, TNext, Resolve, Guard, resolver, ei_init_resolve
<1>2. look[t] \in Lookup
  BY <1>0 DEF Types
\* The other threads: their look-ups stay, and so does the static result of one that copies.
<1>3. \A u \in Thread \ {t} :
         /\ look'[u] = look[u] /\ ResultOf(look'[u]) = ResultOf(look[u])
         /\ look[u].pc = "copy" => static' = static
  <2> TAKE u \in Thread \ {t}
  <2>1. look'[u] = look[u]
    BY <1>0 DEF Types, my_gethostbyname_r, LockResolver, ei_gethostbyname, CopyResult,
        UnlockResolver, Used
  <2>2. CASE ei_gethostbyname(t)
    BY <2>1, <2>2, OneInResolver DEF ei_gethostbyname
  <2>3. CASE ~ei_gethostbyname(t)
    BY <2>1, <2>3 DEF my_gethostbyname_r, LockResolver, CopyResult, UnlockResolver, Used
  <2> QED
    BY <2>1, <2>2, <2>3
<1>4. /\ look'[t].pc = "copy" => static' = look'[t].name /\ look'[t].name # Unknown
      /\ look'[t].pc \in {"unlock", "done"} => look'[t].ret = ResultOf(look'[t])
  <2>1. CASE my_gethostbyname_r(t)
    BY <1>0, <2>1 DEF my_gethostbyname_r, Used0, Types
  <2>2. CASE LockResolver(t)
    BY <1>0, <1>2, <2>2 DEF LockResolver, Types, Lookup
  <2>3. CASE ei_gethostbyname(t)
    <3>1. PICK pc \in {"unlock", "copy"}, ret \in {"not found", look[t].ret} :
             /\ look' = [look EXCEPT ![t] = [@ EXCEPT !.pc = pc, !.ret = ret]]
             /\ IF look[t].name = Unknown THEN pc = "unlock" /\ ret = "not found"
                ELSE pc = "copy" /\ static' = look[t].name
      BY <1>0, <1>2, <2>3 DEF ei_gethostbyname, Types, Lookup
    <3>2. pc \in Pc /\ ret \in Answer
      BY <1>2 DEF Pc, Lookup, Answer
    <3>3. look'[t].pc = pc /\ look'[t].ret = ret /\ look'[t].name = look[t].name
      BY <1>0, <3>1, <3>2, StepTyped, ZenonT(60)
    <3> QED
      BY <3>1, <3>3 DEF ResultOf
  <2>4. CASE CopyResult(t)
    <3>1. static = look[t].name /\ look[t].name # Unknown
      BY <2>4 DEF CopyResult, OwnResult
    <3>2. PICK ret \in {static, "ERANGE"} :
             /\ ret = IF copy_hostent[static, look[t].buflen] = 0 THEN static ELSE "ERANGE"
             /\ look' = [look EXCEPT ![t] = [@ EXCEPT !.pc = "unlock", !.ret = ret]]
      BY <1>0, <1>2, <2>4 DEF CopyResult, Types, Lookup
    <3>3. look' = [look EXCEPT ![t] = [@ EXCEPT !.pc = "unlock", !.ret = ret]]
      BY <3>2
    <3>4. /\ look'[t].pc = "unlock" /\ look'[t].name = look[t].name
          /\ look'[t].buflen = look[t].buflen /\ look'[t].ret = ret
      BY <1>0, <1>2, <3>3 DEF Types, Lookup
    <3> QED
      BY <3>1, <3>2, <3>4 DEF ResultOf
  <2>5. CASE UnlockResolver(t)
    <3>1. /\ look'[t].pc = "done" /\ look'[t].name = look[t].name
          /\ look'[t].buflen = look[t].buflen /\ look'[t].ret = look[t].ret
          /\ look[t].ret = ResultOf(look[t])
      BY <1>0, <1>2, <2>5 DEF UnlockResolver, OwnResult, Types, Lookup
    <3> QED
      BY <3>1 DEF ResultOf
  <2>6. CASE Used(t)
    BY <1>0, <2>6 DEF Used, NoLookup, Types
  <2> QED
    BY <2>1, <2>2, <2>3, <2>4, <2>5, <2>6
<1> QED
  BY <1>3, <1>4 DEF OwnResult

\* Both hold throughout.
LEMMA ThreadsAlways ==
    ASSUME Used0
    PROVE  TSpec => [](ThreadsInv /\ OwnResult)
<1>1. ThreadsInv /\ OwnResult /\ [TNext]_tvars => (ThreadsInv /\ OwnResult)'
  BY NextThreads, NextOwn
<1> QED
  BY InitThreads, <1>1, PTL DEF TSpec

\* No two threads are between ei_mutex_lock and ei_mutex_unlock of one mutex,
\* and whoever is there holds it, although mutexes are created and freed while
\* others are in use.
THEOREM OneThreadInside ==
    ASSUME NonBlocking \subseteq {0}, EarlyInit
    PROVE  TSpec => []MutualExclusion
<1>1. Used0
  BY DEF Used0
<1>2. ThreadsInv /\ OwnResult => MutualExclusion
  BY DEF ThreadsInv
<1> QED
  BY <1>1, <1>2, ThreadsAlways, PTL

\* What my_gethostbyname_r returns is the answer to the caller's own question,
\* although all threads share the static result of the resolver.
THEOREM AnswersAreOwn ==
    ASSUME NonBlocking \subseteq {0}, EarlyInit
    PROVE  TSpec => []LookupsSound
<1>1. Used0
  BY DEF Used0
<1>2. ThreadsInv /\ OwnResult => LookupsSound
  <2> SUFFICES ASSUME ThreadsInv, OwnResult PROVE LookupsSound
    OBVIOUS
  <2>1. OwnAnswer
    BY DEF OwnResult, OwnAnswer
  <2>2. ThTypeOK
    BY DEF ThreadsInv, Types, Lookup, Pc, ThTypeOK
  <2> QED
    BY <2>1, <2>2 DEF LookupsSound
<1> QED
  BY <1>1, <1>2, ThreadsAlways, PTL

-----------------------------------------------------------------------------
(* The error number.                                                       *)

ErrnoInv ==
    /\ place \in [Asker -> {NULL, "own"}] /\ errno \in [Asker -> Errno]
    /\ wrote \in [Asker -> Errno]
    /\ fallback \in [use : BOOLEAN, errno : Errno]
    /\ \A t \in Asker : place[t] = "own" /\ ~fallback.use => errno[t] = wrote[t]

\* A thread that has a place of its own finds there what it last set, whatever
\* other threads set, and also after others were refused a key (__erl_errno_place).
THEOREM ErrnoIsPrivate == ESpec => []ErrnoPrivate
<1>1. EInit => ErrnoInv
  BY ErrnoConstants DEF EInit, ErrnoInv
<1>2. ErrnoInv /\ [ENext]_evars => ErrnoInv'
  <2> SUFFICES ASSUME ErrnoInv, [ENext]_evars PROVE ErrnoInv'
    OBVIOUS
  <2>1. CASE UNCHANGED evars
    BY <2>1 DEF evars, ErrnoInv
  <2>2. ASSUME NEW t \in Asker, SetErrno(t) PROVE ErrnoInv'
    <3> PICK v \in Errno, p \in Places(t) :
           /\ wrote' = [wrote EXCEPT ![t] = v]
           /\ IF p = "own"
              THEN /\ place' = [place EXCEPT ![t] = "own"]
                   /\ errno' = [__erl_errno_place(t, p) EXCEPT ![t] = v]
                   /\ UNCHANGED fallback
              ELSE /\ \/ fallback' = [use |-> TRUE, errno |-> v] /\ "memory" \in TFaults
                      \/ fallback' = [fallback EXCEPT !.errno = v] /\ "key" \in TFaults
                   /\ UNCHANGED <<place, errno>>
      BY <2>2 DEF SetErrno
    <3>1. CASE p = "own"
      <4>1. errno' = [errno EXCEPT ![t] = v]
        BY <3>1 DEF __erl_errno_place, ErrnoInv
      <4> QED
        BY <3>1, <4>1 DEF ErrnoInv
    <3>2. CASE p # "own" /\ fallback' = [use |-> TRUE, errno |-> v]
      BY <3>2 DEF ErrnoInv
    <3>3. CASE p # "own" /\ fallback' = [fallback EXCEPT !.errno = v]
      <4>1. fallback.use \/ place[t] # "own"
        BY <3>3 DEF Places
      <4>2. fallback' \in [use : BOOLEAN, errno : Errno] /\ fallback'.use = fallback.use
        BY <3>3 DEF ErrnoInv
      <4> QED
        BY <3>3, <4>1, <4>2 DEF ErrnoInv
    <3> QED
      BY <3>1, <3>2, <3>3
  <2> QED
    BY <2>1, <2>2 DEF ENext
<1>3. ErrnoInv => ErrnoPrivate
  BY DEF ErrnoInv, ErrnoPrivate, ReadErrno, __erl_errno_place
<1> QED
  BY <1>1, <1>2, <1>3, PTL DEF ESpec
=============================================================================
