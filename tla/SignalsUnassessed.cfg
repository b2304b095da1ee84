\* No crash at all: the bridge appends while an ingestion has not assessed yet.
CONSTANTS
  Keys = {"flash"}
  Observations = {1, 2}
  Polled = {1}
  KeyOf <- MCKeyOf
  VerificationStates = {"signal_only", "official_source_pending", "evidence_linked"}
  Decisions = {"opened", "linked"}
  StateOf <- MCStateOf
  Ingesters = {i1, i2}
  Bridges = {b1}
  MaxVersions = 4
  MaxCrashes = 0
SPECIFICATION Spec
INVARIANTS EveryVersionAssessed
SYMMETRY Interchangeable
