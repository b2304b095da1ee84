------------------------------ MODULE Workbench ------------------------------
(***************************************************************************)
(* The components beside the run engine and the live signals, one of which *)
(* is at work: the first state chooses it, and only its actions are taken. *)
(* The components do not interact except through what their modules leave  *)
(* open, so what holds of one of them here holds of it in the workbench.   *)
(***************************************************************************)
EXTENDS Integers, Sequences, FiniteSets

\* The constants of each component, under its own names where no other has them.
CONSTANTS
  Trackers, TrackingDates, Prices, Triggers, Feeds, MaxTracking,
  Desks, ThemeDays, Documents, MaxThemeWork,
  EventFilings, Mapper, KeyOf, Published, Downloads, Readers, LastEventDay, MaxIngests,
  StoreProcesses, KnownTo, Automatic, MaxOpens,
  News, MaxFaults, MaxFailures,
  Callers, MaxLaunches, MaxAsks,
  Providers, Models, Steps, MaxStepAttempts, Requesters, MaxChoices,
  Syncers, Windows, Overlap, StaleAfter, FirstDay, LastDay, MaxAdjustments, MaxSyncs, LargeSplits,
  Threads, Texts, Parsed, Reported, MaxReviews, MaxFactRequests,
  Markets, MarketDays, Data, GradeOf, MonitorFilings, Workers, Users, MaxJobAttempts, MaxDecisions,
  Sources, Discovered, Urls, UrlOf, Contents, Analysts, MaxAsked, MaxCrashes,
  Companies, AgentFilings, Official, Downloaded, MaxPasses, MaxVisits

VARIABLES
  chosen,
  candidate, snapshots, triggered, tracking, requested, cutShort,
  definitions, sources, memberships, universes, desk, themeWork, fresh,
  today, filings, versions, portable, reader, ingests,
  file, process, opens,
  phase, failures, source, poll, row, kept, unsent, faults,
  server, launched, live, inbox, stdout, nextId, pending, startLock, loginState,
  browser, call, asks,
  saved, asking, queued, task, answered, requests, upToDate, overtaken,
  day, adjustments, bars, report, sync, returned, syncs,
  disclosure, captures, candidates, facts, run, served, request, factRequests,
  jobs, assessments, events, acked, proposals, worker, job, attempts, decisions,
  queue, ledger, files, user, local, approved, asked, crashes,
  result, evidence, nodes, suggestions, texts, agent, scratch, accepted, visits

-----------------------------------------------------------------------------
Tracked == INSTANCE Tracking WITH Dates <- TrackingDates, events <- triggered

Themes == INSTANCE ThemeRegistry WITH Days <- ThemeDays

Calendar == INSTANCE EventCalendar WITH
  Filings <- EventFilings, EventKey <- KeyOf, LastDay <- LastEventDay

Store == INSTANCE Database WITH Processes <- StoreProcesses

Stream == INSTANCE LiveStream

Codex == INSTANCE CodexServer WITH process <- server

Choice == INSTANCE ModelChoice WITH MaxAttempts <- MaxStepAttempts, MaxRequests <- MaxChoices

Market == INSTANCE MarketData

Facts == INSTANCE FinancialFacts WITH MaxRequests <- MaxFactRequests, requests <- factRequests

Monitor == INSTANCE MainlineMonitor WITH
  Days <- MarketDays, Filings <- MonitorFilings, MaxAttempts <- MaxJobAttempts,
  pc <- worker, mem <- job

Queue == INSTANCE SourceQueue WITH
  Users <- Analysts, MaxRequests <- MaxAsked, pc <- user, mem <- local, requests <- asked

Bootstrap == INSTANCE EvidenceBootstrap WITH
  Filings <- AgentFilings, Contents <- Downloaded, MaxAttempts <- MaxPasses,
  MaxRequests <- MaxVisits,
  queue <- suggestions, files <- texts, pc <- agent, mem <- scratch, requests <- visits

ASSUME WorkbenchAssumption ==
  /\ Tracked!TrackingAssumption /\ Themes!ThemeAssumption /\ Calendar!CalendarAssumption
  /\ Store!DatabaseAssumption /\ Stream!StreamAssumption /\ Choice!ChoiceAssumption
  /\ Market!MarketAssumption /\ Codex!ServerAssumption /\ Facts!FactsAssumption
  /\ Monitor!DaysAssumption /\ Monitor!GradesAssumption /\ Monitor!MonitorBounds
  /\ Monitor!MonitorActors
  /\ Queue!NamesAssumption /\ Queue!SourcesAssumption /\ Queue!QueueBounds
  /\ Bootstrap!BootstrapAssumption

-----------------------------------------------------------------------------
Components == {"tracking", "themes", "calendar", "database", "stream", "codex", "choice",
               "market", "facts", "monitor", "queue", "bootstrap"}

trackingRows == <<candidate, snapshots, triggered, tracking, requested, cutShort>>
themesRows == <<definitions, sources, memberships, universes, desk, themeWork, fresh>>
calendarRows == <<today, filings, versions, portable, reader, ingests>>
databaseRows == <<file, process, opens>>
streamRows == <<phase, failures, source, poll, row, kept, unsent, faults>>
codexRows == <<server, launched, live, inbox, stdout, nextId, pending, startLock, loginState,
              browser, call, asks>>
choiceRows == <<saved, asking, queued, task, answered, requests, upToDate, overtaken>>
marketRows == <<day, adjustments, bars, report, sync, returned, syncs>>
factsRows == <<disclosure, captures, candidates, facts, run, served, request,
              factRequests>>
monitorRows == <<jobs, assessments, events, acked, proposals, worker, job, attempts, decisions>>
queueRows == <<queue, ledger, files, user, local, approved, asked, crashes>>
bootstrapRows == <<result, evidence, nodes, suggestions, texts, agent, scratch, accepted, visits>>

Init ==
  /\ chosen \in Components
  /\ Tracked!TrackingInit /\ Themes!ThemeInit /\ Calendar!CalendarInit
  /\ Store!DatabaseInit /\ (chosen = "database" \/ file["database"].tables = {})
  /\ Stream!StreamInit /\ Codex!ServerInit /\ Choice!ChoiceInit
  /\ Market!MarketInit /\ Facts!FactsInit /\ Monitor!Init /\ Queue!QueueInit
  /\ Bootstrap!BootstrapInit

\* A step of component c: the variables of the others stay as they are.
Only(c) ==
  /\ chosen = c /\ UNCHANGED chosen
  /\ IF c = "tracking" THEN TRUE ELSE UNCHANGED trackingRows
  /\ IF c = "themes" THEN TRUE ELSE UNCHANGED themesRows
  /\ IF c = "calendar" THEN TRUE ELSE UNCHANGED calendarRows
  /\ IF c = "database" THEN TRUE ELSE UNCHANGED databaseRows
  /\ IF c = "stream" THEN TRUE ELSE UNCHANGED streamRows
  /\ IF c = "codex" THEN TRUE ELSE UNCHANGED codexRows
  /\ IF c = "choice" THEN TRUE ELSE UNCHANGED choiceRows
  /\ IF c = "market" THEN TRUE ELSE UNCHANGED marketRows
  /\ IF c = "facts" THEN TRUE ELSE UNCHANGED factsRows
  /\ IF c = "monitor" THEN TRUE ELSE UNCHANGED monitorRows
  /\ IF c = "queue" THEN TRUE ELSE UNCHANGED queueRows
  /\ IF c = "bootstrap" THEN TRUE ELSE UNCHANGED bootstrapRows

Next ==
  \/ Only("tracking") /\ Tracked!TrackingNext
  \/ Only("themes") /\ Themes!ThemeNext
  \/ Only("calendar") /\ Calendar!CalendarNext
  \/ Only("database") /\ Store!DatabaseNext
  \/ Only("stream") /\ Stream!StreamNext
  \/ Only("codex") /\ Codex!ServerNext
  \/ Only("choice") /\ Choice!ChoiceNext
  \/ Only("market") /\ Market!MarketNext
  \/ Only("facts") /\ Facts!FactsNext
  \/ Only("monitor") /\ Monitor!Next
  \/ Only("queue") /\ Queue!QueueNext
  \/ Only("bootstrap") /\ Bootstrap!BootstrapNext

rows == <<chosen, trackingRows, themesRows, calendarRows, databaseRows, streamRows, codexRows,
          choiceRows, marketRows, factsRows, monitorRows, queueRows, bootstrapRows>>

Spec == Init /\ [][Next]_rows

-----------------------------------------------------------------------------
\* Rows and requests have their types, whatever ingests, captures and jobs meet; of the
\* queue, canonical URLs are unique (SourceQueue, QueueTypeOK).
TypeOK ==
  /\ chosen = "tracking" => Tracked!TrackingTypeOK
  /\ chosen = "calendar" => Calendar!CalendarTypeOK
  /\ chosen = "database" => Store!DatabaseTypeOK
  /\ chosen = "stream" => Stream!StreamTypeOK
  /\ chosen = "codex" => Codex!ServerTypeOK
  /\ chosen = "choice" => Choice!ChoiceTypeOK
  /\ chosen = "market" => Market!MarketTypeOK
  /\ chosen = "facts" => Facts!FactsTypeOK
  /\ chosen = "monitor" => Monitor!TypeOK
  /\ chosen = "queue" => Queue!QueueTypeOK
  /\ chosen = "bootstrap" => Bootstrap!BootstrapTypeOK

\* Tracking: a trigger that holds of a stored snapshot has its event.
TriggersFire == chosen = "tracking" => Tracked!TriggersFire
\* ThemeRegistry: what is imported later does not change what a snapshot could know.
SnapshotsReproducible == chosen = "themes" => Themes!SnapshotsReproducible
\* EventCalendar: versions are numbered without gaps, and no view looks ahead.
HistoryIsOrdered == chosen = "calendar" => Calendar!HistoryIsOrdered
\* Database: schema_migrations tells the tables of every file.
LedgerTellsSchema == chosen = "database" => Store!LedgerTellsSchema
\* Database: the deletion of a run leaves, takes and breaks no row that names it.
DeletionTakesNothing == chosen = "database" => Store!DeletionTakesNothing
\* LiveStream: what the checkpoint counts is in the signal log.
CountedIsLogged == chosen = "stream" => Stream!CountedIsLogged
\* LiveStream: no message is left in the queue of a stream at work.
NothingWaits == chosen = "stream" => Stream!NothingWaits
\* CodexServer: no caller is given the answer to another request.
AnswerIsOwn == chosen = "codex" => Codex!AnswerIsOwn
\* ModelChoice: the manifest names the provider and model of every call, as long as no
\* request saves a copy of the run that is not what is stored.
CallsMatchManifest == chosen = "choice" => Choice!CallsMatchManifest
\* MarketData: a series that passes has no large split between any two of its bars.
SoundSeesLargeSplits == chosen = "market" => Market!SoundSeesLargeSplits
\* FinancialFacts: an accepted candidate has its fact.
AcceptedIsFact == chosen = "facts" => Facts!AcceptedIsFact
\* MainlineMonitor: a job that is done has its assessment, event and proposal.
JobBacked == chosen = "monitor" => Monitor!JobBacked
\* SourceQueue: a captured suggestion names Evidence the run has.
CapturedHasEvidence == chosen = "queue" => Queue!CapturedHasEvidence
\* EvidenceBootstrap: a completed attempt has an outcome for all it captured.
CapturesAreReviewed == chosen = "bootstrap" => Bootstrap!CapturesAreReviewed
\* EvidenceBootstrap: what the agent's review is trusted for, it approved.
ApprovalsBackTrust == chosen = "bootstrap" => Bootstrap!ApprovalsBackTrust
\* MainlineMonitor: a decision about a job that is done is final.
DoneDecisionStays == Monitor!DoneDecisionStays
=============================================================================
