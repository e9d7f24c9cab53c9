------------------------------ MODULE MCCommit ------------------------------
(* Small instances of MnesiaCommit: three nodes, the process is at n1.     *)
EXTENDS MnesiaCommit

CONSTANTS n1, n2, n3

\* Where the process may be killed: everywhere, except between the release of
\* its locks and the message to mnesia_tm that it has ended, and while it
\* tells the nodes where it has only read.
KillPlaces == (CoordPc \ {"released", "ended", "killed", "recovered"}) \cup {"telling"}
=============================================================================
