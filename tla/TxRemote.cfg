\* Three replicas; one of the processes is on a fourth node; index reads; processes are killed while they send requests or restart.
SPECIFICATION TxSpec
CONSTANTS
  n1 = n1
  n2 = n2
  n3 = n3
  n4 = n4
  t1 = t1
  k1 = k1
  k2 = k2
  p1 = p1
  p2 = p2
  p3 = p3
  ALL = ALL
  STICK = STICK
  NoNode = NoNode
  Node = {n1, n2, n3, n4}
  LockNode = {n1, n2, n3, n4}
  Tab = {t1}
  Key = {k1, STICK}
  Volatile = {}
  Tid = {1, 2}
  Pid = {p1, p2}
  PidOf <- TwoTids
  NodeOf <- FourNodes
  WhereToRead <- ReadNearest
  WhereToWrite <- WriteThree
  Calls <- RemoteCalls
  MaxCalls = 1
  Kills = {"sending", "restarting"}
INVARIANTS AnswersMatch StoresTrue
CHECK_DEADLOCK FALSE
