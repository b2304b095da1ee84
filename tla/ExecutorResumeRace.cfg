\* Two resumes of one run overlap: completed stages are reopened.
SPECIFICATION Spec
CONSTANTS
  N = 2
  MaxAttempts = 1
  MaxExecutions = 2
  Executors = {e1, e2}
  Clients = {}
PROPERTIES ResumeKeepsProgress
CHECK_DEADLOCK FALSE
