\* Two records of a table that becomes sticky.
SPECIFICATION TxSpec
CONSTANTS
  n1 = n1
  n2 = n2
  n3 = n3
  n4 = n4
  t1 = t1
  k1 = k1
  k2 = k2
  p1 = p1
  p2 = p2
  p3 = p3
  ALL = ALL
  STICK = STICK
  NoNode = NoNode
  Node = {n1, n2}
  LockNode = {n1, n2}
  Tab = {t1}
  Key = {k1, k2, STICK}
  Volatile = {}
  Tid = {1, 2}
  Pid = {p1, p2}
  PidOf <- TwoTids
  NodeOf <- TwoNodes
  WhereToRead <- ReadOwn
  WhereToWrite <- WriteBoth
  Calls <- StickyRecords
  MaxCalls = 2
  Kills = {}
INVARIANTS Isolation
CHECK_DEADLOCK FALSE
