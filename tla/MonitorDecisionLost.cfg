\* A failed job is run again after the analyst has decided.
CONSTANTS
  Markets = {"CN"}
  Days = {1, 2}
  Data = {"confirmed", "low"}
  GradeOf <- MCGradeOf
  Filings = {"filing"}
  Workers = {w1}
  Users = {u1}
  MaxAttempts = 2
  MaxDecisions = 1
SPECIFICATION Spec

PROPERTIES DecisionStays
CHECK_DEADLOCK FALSE
