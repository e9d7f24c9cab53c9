---------------------------- MODULE MCTransaction ----------------------------
(* Small instances of MnesiaTransaction.                                   *)
EXTENDS MnesiaTransaction, TLC

CONSTANTS n1, n2, n3, n4, t1, k1, k2, p1, p2, p3

TwoNodes == p1 :> n1 @@ p2 :> n2
TwoTids == 1 :> p1 @@ 2 :> p2
Successive == 1 :> p1 @@ 2 :> p2 @@ 3 :> p1

\* The table has a replica on both nodes.
ReadOwn == t1 :> (n1 :> n1 @@ n2 :> n2)
WriteBoth == t1 :> (n1 :> <<n1, n2>> @@ n2 :> <<n2, n1>>)

\* The table has replicas on three nodes, and a fourth node uses it.
FourNodes == p1 :> n2 @@ p2 :> n4
ReadNearest == t1 :> (n1 :> n1 @@ n2 :> n2 @@ n3 :> n3 @@ n4 :> n1)
WriteThree == t1 :> (n1 :> <<n1, n2, n3>> @@ n2 :> <<n2, n1, n3>>
                     @@ n3 :> <<n3, n1, n2>> @@ n4 :> <<n1, n2, n3>>)

On(calls, keys) == [call : calls, oid : [tab : Tab, key : keys]]
Table(calls) == On(calls, {ALL})
Record(calls) == On(calls, {k1})

PlainCalls == Record({"rlock", "wlock", "rwlock"}) \cup Table({"rlock", "wlock"})
StickyCalls == Record({"rwlock", "sticky_wlock", "sticky_rwlock"}) \cup Table({"rlock"})
StickyRecords == On({"rlock", "sticky_wlock"}, {k1, k2})
KilledCalls == PlainCalls \cup Record({"sticky_wlock"})
RemoteCalls == Record({"rlock", "wlock", "rwlock"}) \cup Table({"ixrlock"})
=============================================================================
