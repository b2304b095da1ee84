\* One caller at a time, crashes anywhere.
SPECIFICATION Spec
ACTION_CONSTRAINT OneCaller
CONSTANTS
  N = 2
  MaxAttempts = 2
  MaxExecutions = 3
  Executors = {e1}
  Clients = {c1}
INVARIANTS TypeOK CheckpointBacksRow AttemptsAccounted DeletedStaysDeleted
PROPERTIES ResumeKeepsProgress ImplementsLifecycle
CHECK_DEADLOCK FALSE
