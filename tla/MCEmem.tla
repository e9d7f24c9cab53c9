------------------------------- MODULE MCEmem -------------------------------
(* Three parts of emem that share no state: the table of blocks, the figures *)
(* of two traces (one of two block types, one of an allocator that gets its  *)
(* carriers from segments), and the threads.                                 *)
EXTENDS EmemInfo, EmemQueue

\* Of three blocks 1 and 3 share a bucket of 3, and 1 and 2 one of 10; with one
\* bucket of 10 in use the table shrinks around the blocks that are in it.
MCHash == 1 :> 2 @@ 2 :> 12 @@ 3 :> 5
MCSizes == <<2, 3, 10>>

Allctr(valid, used, providers) == [valid |-> valid, used |-> used, providers |-> providers]

Plain == [allctr |-> (-1 :> Allctr(FALSE, FALSE, {}) @@ 0 :> Allctr(TRUE, FALSE, {})),
          btype |-> (0 :> 0 @@ 1 :> 0), segment_ix |-> -1, segments |-> FALSE, carriers |-> FALSE,
          max_ops |-> 4]
OnSegments == [allctr |-> (-1 :> Allctr(FALSE, FALSE, {}) @@ 0 :> Allctr(TRUE, TRUE, {-1})),
               btype |-> (0 :> 0), segment_ix |-> -1, segments |-> TRUE, carriers |-> TRUE,
               max_ops |-> 3]
MCTraces == {Plain, OnSegments}

Named == [total |-> FALSE, allctrs |-> {0, 7}, btypes |-> {1}, max_min |-> TRUE, counts |-> TRUE,
          ops |-> FALSE, interval |-> 2]
All == [total |-> TRUE, allctrs |-> {ALL}, btypes |-> {}, max_min |-> FALSE, counts |-> FALSE,
        ops |-> TRUE, interval |-> 1]
MCSwitches == {Named, All}

VARIABLE part   \* the part that runs

emvars == <<part, tbvars, em, qvars>>

Table(A) == part = "table" /\ A /\ UNCHANGED <<part, em, qvars>>
Digest(A) == part = "info" /\ A /\ UNCHANGED <<part, tbvars, qvars>>
Threads(A) == part = "threads" /\ A /\ UNCHANGED <<part, tbvars, em>>

EmInit ==
    /\ part \in {"table", "info", "threads"} /\ TbInit /\ IInit /\ QInit
    /\ <<em.info, em.sw>> \in {<<Plain, Named>>, <<OnSegments, All>>}
    /\ part # "info" => em.info = Plain
EmNext == Table(TbNext) \/ Digest(INext) \/ Threads(QNext)
EmSpec == EmInit /\ [][EmNext]_emvars /\ QFairness
=============================================================================
