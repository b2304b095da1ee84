\* One request at a time, no crash.
CONSTANTS
  Sources = {"page", "filing"}
  Discovered = {"filing"}
  Urls = {"u1", "u2"}
  UrlOf <- MCUrlOf
  Contents = {c1, c2}
  Users = {t1}
  MaxRequests = 6
  MaxCrashes = 0
SPECIFICATION QueueSpec
INVARIANTS DuplicateKeepsCapture
SYMMETRY Interchangeable
CHECK_DEADLOCK FALSE
