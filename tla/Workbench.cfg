\* One component at a time, each in the instance MCWorkbench gives it.
CONSTANTS
  t1 = t1
  t2 = t2
  Trackers = {t1, t2}
  TrackingDates = {1, 2}
  Prices = {10, 20}
  Triggers <- MCTriggers
  Feeds <- MCFeeds
  MaxTracking = 3
  Desks = {t1, t2}
  ThemeDays = {1, 2}
  Documents <- MCDocuments
  MaxThemeWork = 4
  EventFilings = {"f", "g"}
  Mapper <- MCMapper
  KeyOf <- MCKeyOf
  Published <- MCPublished
  Downloads = {"a"}
  Readers = {t1, t2}
  LastEventDay = 2
  MaxIngests = 3
  StoreProcesses = {"p", "q"}
  KnownTo <- MCKnownTo
  Automatic <- MCAutomatic
  MaxOpens = 3
  News = {"m", "n", "o"}
  MaxFaults = 3
  MaxFailures = 2
  Callers = {"c", "d"}
  MaxLaunches = 2
  MaxAsks = 2
  Providers = {"codex", "openai"}
  Models = {"m", "n"}
  Steps = 2
  MaxStepAttempts = 2
  Requesters = {t1, t2}
  MaxChoices = 2
  Syncers = {t1, t2}
  Windows = {1, 4}
  Overlap = 1
  StaleAfter = 2
  FirstDay = 2
  LastDay = 5
  MaxAdjustments = 2
  MaxSyncs = 2
  LargeSplits = {2}
  Threads = {t1, t2}
  Texts = {"x", "y"}
  Parsed <- MCParsed
  Reported <- MCReported
  MaxReviews = 2
  MaxFactRequests = 3
  Markets = {"CN"}
  MarketDays = {1, 2}
  Data = {"confirmed", "low"}
  GradeOf <- MCGradeOf
  MonitorFilings = {"filing"}
  Workers = {"w1"}
  Users = {"u1"}
  MaxJobAttempts = 2
  MaxDecisions = 1
  Sources = {"page", "filing"}
  Discovered = {"filing"}
  Urls = {"u1", "u2"}
  UrlOf <- MCUrlOf
  Contents = {"c1", "c2"}
  Analysts = {"t1"}
  MaxAsked = 6
  MaxCrashes = 1
  Companies = {"x", "y"}
  AgentFilings = {"f", "g"}
  Official <- MCOfficial
  Downloaded = {"a", "b"}
  MaxPasses = 2
  MaxVisits = 1
SPECIFICATION Spec
INVARIANTS TypeOK TriggersFire SnapshotsReproducible HistoryIsOrdered LedgerTellsSchema
  DeletionTakesNothing CountedIsLogged NothingWaits AnswerIsOwn CallsMatchManifest
  SoundSeesLargeSplits AcceptedIsFact JobBacked CapturedHasEvidence
  CapturesAreReviewed ApprovalsBackTrust
PROPERTIES DoneDecisionStays
SYMMETRY Interchangeable
CHECK_DEADLOCK FALSE
