\* Executions, an editing client and a delete overlap.
SPECIFICATION FairSpec
CONSTANTS
  N = 2
  MaxAttempts = 1
  MaxExecutions = 2
  Executors = {e1}
  Clients = {c1}
INVARIANTS StagesInOrder
PROPERTIES DeleteLosesNoWork EvidenceKept ExecutionEnds
CHECK_DEADLOCK FALSE
