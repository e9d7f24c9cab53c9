\* Two transactions, one of them remote, sticky and lost tables; or three on two records.
SPECIFICATION Spec
CONSTANTS
  n1 = n1
  n2 = n2
  t1 = t1
  k1 = k1
  k2 = k2
  p1 = p1
  p2 = p2
  p3 = p3
  ALL = ALL
  NoNode = NoNode
  Node = {n1, n2}
  LockNode = {n1}
  Tab = {t1}
  Key = {k1, k2}
  Volatile = {t1}
  Tid = {1, 2, 3}
  Pid = {p1, p2, p3}
  PidOf <- ThreeProcesses
  NodeOf <- OneRemote
INVARIANTS TypeOK Tracked OneAnswer LockExclusion NoLostWakeup
PROPERTIES ReleaseEnds YoungestFirst
ACTION_CONSTRAINT Within
