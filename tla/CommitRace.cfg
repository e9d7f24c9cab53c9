\* The process and its node fail while a message it sent is still unread at another node.
SPECIFICATION CmSpec
CONSTANTS
  n1 = n1
  n2 = n2
  n3 = n3
  Node = {n1, n2, n3}
  Coord = n1
  Protocols = {"sym_trans"}
  MaxFailures = 1
  KillAt = {}
  Prompt = FALSE
INVARIANTS Agreement
CHECK_DEADLOCK FALSE
