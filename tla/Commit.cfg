\* One node fails or the process is killed, at any moment; messages of the process are handled before questions.
SPECIFICATION CmSpec
CONSTANTS
  n1 = n1
  n2 = n2
  n3 = n3
  Node = {n1, n2, n3}
  Coord = n1
  Protocols = {"read_only", "sym_trans", "sync_sym_trans", "asym_trans", "schema_trans"}
  MaxFailures = 1
  KillAt <- KillPlaces
  Prompt = TRUE
INVARIANTS CmTypeOK Agreement
PROPERTIES DecisionKept AppliedUnderLock CommitEnds CommitIsAtomic
CHECK_DEADLOCK FALSE
