\* The first process runs two transactions, one after the other; calls are plain ones or make a record sticky; processes are killed while they wait or compute; the copies of the table may disappear.
SPECIFICATION TxSpec
CONSTANTS
  n1 = n1
  n2 = n2
  n3 = n3
  n4 = n4
  t1 = t1
  k1 = k1
  k2 = k2
  p1 = p1
  p2 = p2
  p3 = p3
  ALL = ALL
  STICK = STICK
  NoNode = NoNode
  Node = {n1, n2}
  LockNode = {n1, n2}
  Tab = {t1}
  Key = {k1, STICK}
  Volatile = {t1}
  Tid = {1, 2, 3}
  Pid = {p1, p2}
  PidOf <- Successive
  NodeOf <- TwoNodes
  WhereToRead <- ReadOwn
  WhereToWrite <- WriteBoth
  Calls <- KilledCalls
  MaxCalls = 1
  Kills = {"waiting"}
INVARIANTS NothingLeftBehind
CHECK_DEADLOCK FALSE
