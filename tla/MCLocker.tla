------------------------------ MODULE MCLocker ------------------------------
(* Small instances of MnesiaLocker: one lock manager, at n1.               *)
EXTENDS MnesiaLocker, TLC

CONSTANTS n1, n2, t1, k1, k2, p1, p2, p3

OneRemote == p1 :> n1 @@ p2 :> n2 @@ p3 :> n1
ThreeProcesses == 1 :> p1 @@ 2 :> p2 @@ 3 :> p3

Concerns(n) == {l.tid : l \in tidLocks[n] \cup replies[n]} \cup job[n].tids \cup job[n].ack

\* Bounds of the instance.  Either two transactions use the table and one of
\* its records, as they like; or all three use both records and the table,
\* which is not sticky: they have three locks or requests in all, and one
\* answer at a time is in transit.
Instance ==
    \A n \in LockNode :
        \/ /\ Concerns(n) \subseteq {1, 2}
           /\ \A l \in tidLocks[n] : l.oid.key # k2
        \/ /\ \A tab \in Tab : stickyAt[n][tab] = NoNode
           /\ Cardinality(tidLocks[n]) <= 3
           /\ Cardinality(replies[n]) <= 1

\* Steps stay within the bounds.
Within == Instance'
=============================================================================
