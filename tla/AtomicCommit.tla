---------------------------- MODULE AtomicCommit ----------------------------
(* What the commit of a transaction promises: the nodes that stay up all    *)
(* make the updates or all go without them, and nobody makes them if a node *)
(* has refused.                                                             *)
CONSTANT Node

VARIABLES
    alive,      \* the nodes that are up
    refused,    \* some node could not take the updates
    applied,    \* the nodes that have made the updates
    undone      \* the nodes that have ended the transaction without them

acVars == <<alive, refused, applied, undone>>

ACInit == alive = Node /\ ~refused /\ applied = {} /\ undone = {}

\* A node may fail at any time; what it did is then no longer in the way.
Fail(n) == alive' = alive \ {n} /\ UNCHANGED <<refused, applied, undone>>

\* A node that refuses may go without the updates at once.
Refuse(n) ==
    /\ applied = {}
    /\ refused' = TRUE
    /\ undone' \in {undone, undone \cup {n}}
    /\ UNCHANGED <<alive, applied>>

MakeUpdates(n) ==
    /\ ~refused /\ undone \cap alive = {}
    /\ applied' = applied \cup {n}
    /\ UNCHANGED <<alive, refused, undone>>

GoWithout(n) ==
    /\ applied \cap alive = {}
    /\ undone' = undone \cup {n}
    /\ UNCHANGED <<alive, refused, applied>>

ACNext == \E n \in alive : Fail(n) \/ Refuse(n) \/ MakeUpdates(n) \/ GoWithout(n)

ACSpec == ACInit /\ [][ACNext]_acVars

=============================================================================
