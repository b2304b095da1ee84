\* A user captures a filing again while the model reviews its text.
CONSTANTS
  Companies = {"x"}
  Filings = {"f"}
  Official <- FilingOfX
  Contents = {"a", "b"}
  MaxAttempts = 1
  MaxRequests = 1
SPECIFICATION BootstrapSpec
INVARIANTS QuotesAreOfTheCapture
CHECK_DEADLOCK FALSE
