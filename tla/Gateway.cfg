\* One admin and a reader beside the gateway's own polls.
CONSTANTS
  Admins = {a1}
  Readers = {r1}
  MaxRuntimes = 2
  MaxRequests = 3
  MaxDays = 2
  Budget = 1
SPECIFICATION FairSpec
INVARIANTS TypeOK HoldIsDeserved OnlyTheRegisteredRuns
PROPERTIES StopEnds
CHECK_DEADLOCK FALSE
