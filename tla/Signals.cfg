\* One key delivered by two channels, two ingesting threads and a bridge
\* thread racing over it, two crashes.
CONSTANTS
  Keys = {"flash"}
  Observations = {1, 2}
  Polled = {1}
  KeyOf <- MCKeyOf
  VerificationStates = {"signal_only", "official_source_pending", "evidence_linked"}
  Decisions = {"opened", "linked"}
  StateOf <- MCStateOf
  Ingesters = {i1, i2}
  Bridges = {b1}
  MaxVersions = 3
  MaxCrashes = 2
SPECIFICATION FairSpec
INVARIANTS ReturnedIsLinked
PROPERTIES ImplementsLog DeliveredInTheEnd AlertInTheEnd
