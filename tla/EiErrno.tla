------------------------------- MODULE EiErrno -------------------------------
(* The place of erl_errno (ei_pthreads.c): each thread has its own, except   *)
(* when it cannot be given one.                                              *)
EXTENDS Nil, Integers

CONSTANTS
    Asker,      \* threads
    TFaults,    \* "memory", "key"
    Errno       \* values of erl_errno

ASSUME ErrnoConstants == TFaults \subseteq {"memory", "key"} /\ 0 \in Errno

VARIABLES
    place,      \* where each thread has its erl_errno: "own", or nowhere yet
    fallback,   \* use_fallback and fallback_errno
    errno,      \* the value at the thread's own place
    wrote       \* what each thread last set erl_errno to

evars == <<place, fallback, errno, wrote>>

\* Where a thread finds its erl_errno: its own place, made the first time, or
\* one for all when there is no memory; once that has happened, for every thread.
Places(t) ==
    IF fallback.use THEN {"fallback"}
    ELSE IF place[t] = "own" THEN {"own"}
    ELSE {"own"} \cup (IF TFaults = {} THEN {} ELSE {"fallback"})

\* Mutation: a place is made anew every time.
PlaceAnew(t, p) == IF p = "own" THEN [errno EXCEPT ![t] = 0] ELSE errno

\* The values after a thread has asked for its place and was given p; those of a
\* place that was just made are set before they are read.
__erl_errno_place(t, p) == IF p = "own" /\ place[t] # "own" THEN [errno EXCEPT ![t] = 0] ELSE errno

SetErrno(t) ==
    /\ \E v \in Errno, p \in Places(t) :
         /\ wrote' = [wrote EXCEPT ![t] = v]
         /\ IF p = "own"
            THEN /\ place' = [place EXCEPT ![t] = "own"]
                 /\ errno' = [__erl_errno_place(t, p) EXCEPT ![t] = v]
                 /\ UNCHANGED fallback
            ELSE /\ \/ fallback' = [use |-> TRUE, errno |-> v] /\ "memory" \in TFaults
                    \/ fallback' = [fallback EXCEPT !.errno = v] /\ "key" \in TFaults
                 /\ UNCHANGED <<place, errno>>

\* What a thread reads when it asks again.
ReadErrno(t) == IF fallback.use THEN fallback.errno ELSE __erl_errno_place(t, "own")[t]

-----------------------------------------------------------------------------

EInit ==
    /\ place = [t \in Asker |-> NULL] /\ fallback = [use |-> FALSE, errno |-> 0]
    /\ errno = [t \in Asker |-> 0] /\ wrote = [t \in Asker |-> 0]

ENext == \E t \in Asker : SetErrno(t)

ESpec == EInit /\ [][ENext]_evars

-----------------------------------------------------------------------------
(* Properties. *)

\* A thread that was given a place of its own reads the error it set last, whatever
\* others set, until some thread is given none for lack of memory.
ErrnoPrivate ==
    \A t \in Asker : place[t] = "own" /\ ~fallback.use => ReadErrno(t) = wrote[t]

=============================================================================
