\* One request at a time with two signals and a crash, or two with one.
CONSTANTS
  Signals = {s1, s2}
  Tasks = {k1, k2}
  Sources = {"page"}
  Discovered = {}
  Urls = {"u1", "u2"}
  UrlOf <- MCUrlOf
  Contents = {c1, c2}
  Users = {t1, t2}
  MaxRequests = 7
  MaxOverlapping = 5
  MaxCrashes = 1
SPECIFICATION MCSpec
INVARIANTS LinkIsApproved LinkedSignalHasLink ReviewedIsApproved
  AlonePendingMeansOpen AloneRejectedHasNoLink
SYMMETRY Interchangeable
CHECK_DEADLOCK FALSE
