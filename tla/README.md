# Verification of CapexGraph

CapexGraph is a local research workbench: a FastAPI application and a CLI over
one SQLite database and a directory of run artifacts.  This directory holds TLA+
models of its stateful core, the TLC configurations that check them on small
instances, and theorems about them that TLAPS checks for every value of the
constants.  `PROJECT.json` maps every definition to the source lines it models.

* Model-check a run: `tlc -workers 2 -config <Cfg>.cfg <Module>.tla`
* Check proofs: `tlapm <Module>Proofs.tla`

## 1. The system

### 1.1 How it runs

The API handlers are synchronous, so FastAPI runs each in a thread of its pool;
executions of a run are background tasks in the same pool; the live gateway has
a thread with an asyncio loop for the MCP polls and the WebSocket worker; the
CLI and the scheduled mainline job are further processes.  All of them share one
SQLite database (WAL).  **Every store call opens a connection and is a
transaction of its own**, and objects are mostly stored as a whole (a Pydantic
payload), so nearly every operation is "load a copy, compute, perhaps wait for
the network or a model, save the copy".  There is no lock between the load and
the save.  That is the source of nearly everything that is hard here, and it
decides the grain of the models: *one action is one store call (or one file
replacement), together with the computation up to the next one.*

### 1.2 Components

| component (source) | state it keeps | operations | interacts with | hard behaviour | what makes it correct | status |
|---|---|---|---|---|---|---|
| run engine (`runtime/executor.py`, `workflows/scaffold.py`) | a run in memory: stages, attempts, status | `execute`, retry, pause at `until`, resume with `retry_failed`, `load_run` | run store; stage handlers; background tasks | overlapping executions, stale copies, crash between checkpoint and row | stages in order, progress and attempts kept, retries bounded, executions end | modelled |
| run store (`runtime/store.py`) | `runs`, `step_checkpoints`, the workspace directory | `save_run`, `save_checkpoint`, `delete_empty_run` | engine, API | delete racing with work, move before commit | a delete loses no work, deleted stays deleted, no row that names a run is orphaned or taken along | modelled |
| live signal log (`live/service.py`, `live/store.py`) | observations, signal versions, assessments, alerts | `ingest_observation`, `_append_signal_state` | MCP polls, WebSocket, replays, bridge | two channels deliver one event; crash between the four saves; append races | versions amount to atomic updates; nothing acknowledged is missing; one alert | partly |
| research bridge (`live/bridge.py`) | verification tasks, Evidence links | create, add source, capture, review, attach | signal log, source queue, Evidence | check-then-insert, shared Evidence, stale copies over a download | links name approved bytes; signal state follows tasks | partly |
| source queue (`sources/*.py`) | suggestions | discover, suggest, capture, retry, dismiss | Evidence, event calendar, bridge | files replaced before the ledger; redirects; conflicts | captured has Evidence; URLs unique | modelled |
| Evidence ledger (`tools/evidence.py`) | Evidence items in the run row, captured files | attach, review | queue, bridge, engine | whole-run saves overwrite each other | reviewed means a human, or the agent, approved these bytes | partly |
| HTTP API (`api/app.py`) | none of its own | handlers over all services | all | threads | – | partly |
| domain model (`domain/models.py`) | – | statuses and record shapes | all | – | – | partly |
| mainline monitoring (`monitoring/*.py`) | jobs, metrics, assessments, events, proposals | `run_daily`, `run_batch`, acknowledge, decide | theme registry, market data | a failed job is run again over what it left | a finished job has its event and proposal; what is decided for it stays | partly |
| artifacts and migrations (`runtime/artifacts.py`, `runtime/migrations`) | schema, `schema_migrations`, files | `upgrade_database`, `backup_database`, `restore_database`, `atomic_write_*` | every store at start-up | two processes, of two releases, start at once; a file replaced under a process | the ledger tells the tables there are | database modelled; artifact writes are steps of their components |
| live gateway (`live/runtime.py`, `websocket.py`, `mcp.py`) | checkpoints, threads, call budget, message queue | start, stop, reload, poll, reconnect | signal log | stop/start races, lost count of calls, messages taken before they are ingested | a stop ends the thread, no runtime is left running unknown, no hold before its time, nothing counted that is not logged | partly: settings and diagnostics are left out |
| live rules and analysis (`live/rules.py`, `live/analysis.py`) | analyses, proposals | assess, analyse | signal log, model providers | – | – | not modelled: scores of texts |
| live fixtures and soak (`live/fixture.py`, `live/soak.py`) | none that lasts | test feeds | gateway | – | – | not modelled: test equipment |
| theme registry (`themes/`) | definitions, sources, memberships, snapshots | import, register, snapshot as of a date | monitoring | bitemporal queries; three reads beside an import | a snapshot can be made again | modelled |
| candidate tracking (`tracking/`) | candidates, snapshots, trigger events | track, add snapshot, evaluate, stage, acknowledge | runs, market data | a snapshot replaced or cut short before its events | a trigger that holds has its event | modelled |
| event calendar (`events/`) | versions of events, `events.json` | ingest, refresh, discover, view as of a day | source queue, monitoring | check-then-insert of a version; reverted content; observation before publication | versions without gaps or twins; no view looks ahead | modelled |
| financial facts (`financials/`, `providers/filings/sec.py`) | facts, candidates, what the manifest says of them | preview, decide, extract | Evidence, runs | two transactions per decision; immutable rows against a changed response | an accepted candidate has its fact | modelled |
| market data (`market/`, `tools/market.py`) | daily bars, quality reports | `sync`, `compare` | tracking, monitoring | incremental windows; prices adjusted in hindsight | a history that passes has no large split between its bars | partly: `sync` of one ticker |
| research workflows (`research/`, `workflows/`) | artifacts, the manifest's `evidence_bootstrap` | stage handlers, the autonomous Evidence pass | engine, source queue, Evidence, models | files, run and queue change while a model thinks; an attempt dies in any phase | what was captured has an outcome, trust comes from an approval | partly: the Evidence pass, and how a stage binds its model; otherwise a handler succeeds or fails |
| connections and model providers (`connections.py`, `providers/`, `research/model_runtime.py`) | the Codex process, its requests and login; the provider and model of a run | start, ask, log in, close; select, bind, call | handlers, browser | answers of a dead process; a choice changed under a task | an answer is to one's own request; the manifest names what was called unless a stale copy is saved over it | partly: `.env` and the other clients are left out |
| filing and source providers | none | download, parse | queue, facts | – | – | external I/O; of the SEC facts, their identity |
| CLI and reports | none | commands, rendering | all | – | – | the database commands; otherwise entry points and formatting |

`PROJECT.json` lists the same components with their modules, and under
`hazards` the places where this code can go wrong in a way a test would hardly
reach.

### 1.3 Behaviour that is on record but no run is about

Some states the models reach are awkward and yet contradict nothing the
repository promises, so no property forbids them: a capture that crashes leaves
its suggestion and its task in `capture_pending` for good (`live/bridge.py:404`,
`sources/service.py:188`); suggesting a URL again after a capture was redirected
away from it raises a store error (`sources/service.py:244`); with two requests
at a time a whole-run save loses Evidence attached meanwhile
(`sources/service.py:95`), two tasks may be opened for one signal
(`live/bridge.py:250`), and a start after a stop that timed out is swallowed
(`live/runtime.py:183`); a WebSocket stream whose failure cannot be reported dies
unseen, and one that was closed in good order still calls itself active
(`live/websocket.py:426`); a login that completes at once is not noticed
(`providers/codex_cli.py:370`); a theme source imported again with another day of
observation takes its members out of past snapshots, and a membership imported under
an id another one has takes its place, because a payload is
replaced while its columns stay (`themes/store.py:119`); an event drafted from a
suggestion dates its observation by the suggestion's last capture or change
(`events/sec.py:57`), so the versions of an event need not be observed in their
order; a user's decision about an Evidence the agent is reviewing is overwritten by
the agent's (`research/evidence_bootstrap.py:553`), and the company nodes of an
earlier attempt stay although it was repeated; an edit of a run made while an
execution holds an older copy is overwritten by it (`runtime/executor.py:128`), and a
run deleted while a copy of it is in flight comes back with that copy or from its
artifact (`workflows/scaffold.py:107`); a dividend or a small split may pass the
quality gate with bars of two bases (`market/quality.py:159`).

Two such states do contradict a document and have no run of their own.
`select_run_provider` loads the run, checks the lock on another load and saves its
copy (`research/model_runtime.py:44-60`), as `execute_run` saves one before it
(`api/app.py:1381`).  A request that loaded the run before its first stage and saves
it after a call therefore undoes the attempts on record and may name another
provider in the manifest, while `docs/DECISIONS.md:229` says that provider and model
are locked after a run starts.  `ModelChoice` has every one of these loads and saves,
and its property is stated for behaviours in which no request saves a copy that is
not up to date (`overtaken`); without that condition the run `workbench` refutes it
in 17 steps.  The other is found by one request after another: company facts are compared as a whole, citation included
(`financials/store.py:47`), so the unchanged facts of a later response conflict with
their own earlier rows and the extraction is refused, while
`docs/LIVE_RESEARCH.md:121-122` says a later restatement is stored beside the
original (`AddFacts`, `Conflict` of `FinancialFacts`).

## 2. Modules

| module | models | by |
|---|---|---|
| `RunLifecycle` | what a run promises: its status and the prefix of stages done | abstract |
| `WorkflowExecutor` | executor, run rows, checkpoints, `state.json`, edits, delete | one action per store call |
| `WorkflowExecutorProofs` | theorems about it: whatever overlaps; one caller at a time | TLAPS |
| `SignalLog` | what the signal log promises: atomic updates per key | abstract |
| `LiveSignals` | ingestion, assessment, alert, bridge transitions | one action per store call |
| `LiveSignalsProofs` | theorems about it, refinement of `SignalLog` | TLAPS |
| `SourceQueue` | suggestions, Evidence ledger and captured files of a run | one action per store call |
| `SourceQueueProofs` | theorems about it: whatever overlaps; one user | TLAPS |
| `ResearchBridge` | EXTENDS `SourceQueue`: tasks and links, a signal's state | one action per store call |
| `ResearchBridgeProofs` | theorems about it: whatever overlaps; one request after another | TLAPS |
| `MainlineMonitor` | jobs, assessments, transition events, research proposals | one action per store call |
| `Tracking` | one candidate, its snapshots, triggers and their events | one action per store call |
| `ThemeRegistry` | definitions, sources, memberships and snapshots of a theme | one action per store call |
| `EventCalendar` | versions of the events of a run, its views and its artifact | one action per store call |
| `Database` | the file: registry of migrations, upgrade, backup, restore; the deletion of a run by its schema | one action per transaction or file operation |
| `MarketData` | bars of one ticker under synchronisations, prices adjusted for splits and dividends | one action per store or provider call |
| `FinancialFacts` | candidates of disclosures, company facts, the run that cites them | one action per store call |
| `LiveGateway` | runtimes, threads and registry; MCP polls, checkpoint and call budget | one action per store call, critical section or change of a thread |
| `LiveGatewayProofs` | theorems about it | TLAPS |
| `LiveStream` | the WebSocket worker of one stream, its source, queue and checkpoint | one action per message, report or store call |
| `CodexServer` | the Codex app server: processes, pipes, reader threads, waiting requests, login | one action per lock section, send or answer |
| `EvidenceBootstrap` | the autonomous Evidence pass of a Theme run: discovery, capture, review, retries of attempts, beside a user | one action per call to a model or site and the store calls around it |
| `ModelChoice` | the provider and model of a run: requests, a background task, its stages | one action per load, save or call |
| `Workbench` | the twelve components that no other module composes, each an INSTANCE with constants of its own | one of them at work, chosen at the start |
| `RunDataProofs` | theorems about `Workbench`: the components that keep the data of one run (facts, model choice, Evidence pass, tracking, market data, calendar, themes, source queue) | TLAPS |
| `ServiceProofs` | theorems about `Workbench`: the components that serve all runs (Codex server, monitoring, WebSocket stream, database) | TLAPS |
| `TypeProofs` | the types of the components of `Workbench` (those of themes are in `ThemeInv` of `RunDataProofs`) | TLAPS |
| `MCWorkbench` | EXTENDS `Workbench`: the constants of its twelve small instances | model checking |
| `MC*` | names for the constants, symmetry | model checking |

**WorkflowExecutor.**  `row`, `disk` and `ckpt` are the run's row, its
`state.json` and its checkpoint rows; `mem[a]` is an actor's copy of the run with
its local variables and `pc[a]` its next store call.  `Execute` is the head of
`execute`; `WriteCheckpoint`, `WriteRow` and the actions that replace the file
(`Pause`, `Advance`, `EnterHandler`, `Retry`, `GiveUp`, `Finish`) are `_checkpoint`
and the two halves of `_persist`, each with the loop code up to the next store
call.  `Raise`/`Rescue` are an exception and `_background_execute`'s reaction.
`Edit` is an API handler that loads and saves a run.  `LoadFromDisk` and `RestoreRow`
are `load_run` where the row is gone and `state.json` is not: it inserts the row again
and returns, to an edit (`EditRestored`), to an execution that now finds its run
(`RunIsBack`) or to the rescue that then records the failure (`RecordRestored`).
`Delete*` are the steps of `delete_empty_run`.  `Spec` allows any overlap;
`SerialSpec` admits one caller at a time, crashes included.

**LiveSignals.**  The four saves of an ingestion are `SaveObservation`,
`SaveSignal`, `Assess`, `CreateAlert`; `Receive` and `ReadLatest` are the reads
before them.  `AppendState` and `CopyAssessment` are the two saves of a bridge
transition.  A failed insert under a unique key is part of the saving action.
`SignalLog` sees only the latest links and state of a key, updated atomically.

**SourceQueue / ResearchBridge.**  A request is a thread with a program counter.
The bridge calls the queue's capture the way the code does: it hands its thread
to the queue's actions (`StartCapture`) and takes over again from what the queue
returned (`SaveOutcome`).  The queue is also open to requests of its own at the
same time, because suggestions and Evidence are shared.

**MainlineMonitor.**  A worker runs a job (`Run` to `Finish`, one action per save
of `run_daily`), and a job that failed or crashed is run again from the start
over the rows it left.  Rows are named by their content, as their hashed ids are:
an assessment with the same market, day, data and previous state is the same
row.  What the market data amount to is a grade; `NextState` is what
`assess_state` makes of it and of the state before.  `Acknowledge` and `Decide`
are the analyst's handlers, `Link` and `SaveUserProposal` the proposal an official
filing causes.

**LiveGateway.**  `thread[g]` follows the thread of runtime `g` from `start` through
the set-up of its event loop to its end; `stopAsked` and `stopEvent` are the two
flags of a stop, the second a callback the loop has yet to run.  A poll
(`ReadCheckpoint` to `SaveCheckpoint`) has a program counter of its own, because it
runs in a pool thread and outlives its task.  `Stop` waits for nothing: five
seconds may always be over before the thread ends.  `Raise` is `poll_source`'s
reaction to a source that raises, `Hold` the spent budget.

**Tracking.**  `candidate`, `snapshots` and `events` are the three tables for one
candidate; a request is the saved snapshot (`SaveSnapshot`) and then one action
per event (`SaveEvent`), each over the candidate as it was loaded.  A snapshot of
a known date is replaced and evaluated again; an event, once inserted, stays.  Prices are chosen so that percentages
are whole.

**ThemeRegistry.**  A row has columns, written once, and a payload, replaced by
every import of its id; `ListMemberships` filters on the columns and returns the
payloads, as the query does.  A definition or a membership has the id its document
gives it, or else the hash of what it says (`MemberId`, `DefinitionRow`); two rows of
one document with one id, and which of two rows known at the same time is kept, are
left out.  `fresh` is a history variable: the snapshots since
whose beginning nothing was imported that their cutoff could know.

**EventCalendar.**  A suggestion is what the calendar reads of it: its Evidence,
the content that was downloaded and its days.  `SecDraft` and `DisclosureDraft`
are the two mappers, `FindVersion` and `SaveVersion` the two halves of
`_persist_draft`.  `Capture` and `TouchFiling` stand for the queue (`SourceQueue`
has its detail) and only change suggestions.

**Database.**  `file` maps the database, the backup and each process's temporary
file to their tables and ledger; a migration stands for the tables it creates
and for their columns that name a run, with the action of the foreign key.
Processes know the registry up to their release.  `DeleteEmptyRun` is decided by
what `_delete_blockers` finds and by what the foreign keys of that file do.

**LiveStream.**  `phase` is where the worker waits; a message or a report of
health starts a poll (`Read`, `IngestOne`, `SaveCheckpoint`) in the worker's own
thread, so nothing else of the worker happens meanwhile.  Ingesting is one step
here and the subject of `LiveSignals`.

**CodexServer.**  `process` is the client's process, `live` those that run, `inbox` and
`stdout` their pipes; a killed process leaves its pipe to a reader that may still
deliver.  Callers wait in `pending` under an id; `Launch` is what `start` does under
its lock.  The app server itself (`Answer`, `CompleteLogin`, `ProcessDies`) is
external and answers in any order, or never.

**ModelChoice.**  `saved` is what the run's row says of provider, model and
attempts.  A request (`asking`) loads the run, perhaps saves the evidence mode
(`SaveMode`), loads it again, checks the lock on yet another load (`CheckSelection`)
and saves its whole copy (`SaveSelection`); the background task does the same, builds
and binds the model, and executes on a copy of its own, whose saves `Persist` and
`AttemptStep` are; the intake binds the model again on a fresh load and saves that
(`LoadIntake`, `SaveIntake`).  `Changeable` to `Bound` are the functions of
`research/model_runtime.py`; `CallModel` records the model that was called, which the
property compares with the manifest.  `upToDate` and `overtaken` are history
variables: the requests whose copy is still what is stored, and whether one that was
not was saved.  Counts of usage are left out, and a request that executes in the
foreground is one whose task begins at once.  Tasks come one after another here; two
executions at once are `WorkflowExecutor`'s subject.

**EvidenceBootstrap.**  `pc` is the call the agent waits for, or the phase it is in,
`mem` its local variables, `result` the manifest entry `_persist` writes after each
phase.  `Plan`, `Select` and `Review` are what the model answers, `Discover` what an
index names, `Download` what a site returns, and `Apply` is `review_run_evidence`
with the agent's record for one Evidence.  `Returned` forgets the locals that are
dead after a call.  Between two such calls the store calls of the agent are one
step, and so is a request of a user (`User`); what is lost when those overlap is the
subject of `SourceQueue`.  `accepted` is a history variable, `quoted` names the text
in which the quotations of an approval were found.

**MarketData.**  A bar is the number of splits and dividends its adjusted close
accounts for, those up to its fetch.  `FetchStart` is the choice of the window,
`Upserted` the merge, `Quality` the part of `evaluate_market_quality` that an
adjusted return of at least 50% between two bars, or an old last bar, sets off.
Which adjustments leave such a return whatever the price does is a constant,
`LargeSplits`; any smaller one may or may not be warned of (`warns`), together with
everything else the check finds, and bars of two bases then pass.  What it checks of a
single bar is left out, as the model's bars are sound.

**FinancialFacts.**  `Parsed` and `Reported` say what a text and a response state.
A fact is an identity with what it cites, because that is what `add_many`
compares.  The run is loaded and saved as a whole around every attachment.

## 3. Runs

| run | question | constants and bounds | states |
|---|---|---|---|
| `executor_serial` | is one caller at a time, crashing anywhere, safe? | 2 stages, 2 attempts, 3 executions, 2 kinds of edit | 98 k |
| `executor_concurrent` | what survives overlap, and do executions end? | 2 stages, 1 attempt, 2 executions, a client, deletes; fairness | 1.20 M |
| `executor_resume_race` | is progress kept by overlapping resumes? **violated** | 2 executors | – |
| `signals` | are racing channels and a bridge atomic updates, and does what is delivered arrive? | 1 key, 2 observations, 2+1 threads, 3 versions, 2 crashes; fairness | 335 k |
| `signals_unassessed` | is every version assessed? **violated** | no crash | – |
| `queue_overwritten` | does a duplicate keep the earlier capture? **violated** | 6 requests, no crash | – |
| `bridge` | do tasks, links and signal state agree one request at a time, and what still holds with two? | alone: 2 signals, 2 tasks, 7 requests, 1 crash; overlapping: 1 signal, 2 tasks, 2 users, 5 requests | 672 k |
| `workbench` | is each component sound with its actors and its faults? | see below | 1.06 M |
| `gateway` | does a stop end what it should, and is the call count honest? | 2 runtimes, 1 admin, 1 reader, 3 requests or restarts, 2 days, a budget of 1; fairness | 463 k |
| `monitor_decision_lost` | is a proposal decided once? **violated** | 2 attempts | – |
| `market_gap` | is the history there that was asked for? **violated** | 1 thread, windows of 1 and 4 days, 5 days, 3 syncs | – |
| `bootstrap_stale_quote` | are the agent's quotations of the bytes it approves? **violated** | 1 filing, 2 contents, 1 request of a user | – |

`executor_serial` runs `Spec` under the action constraint `OneCaller`, which is
`SerialSpec` with TLC able to count its actions one by one.

`bridge` chooses in its first state whether requests come one after another; the
properties that overlap may break carry `Alone` in their name and say so.

`workbench` chooses a component in its first state and then takes only its
actions; the components share no variable, so this is one run for twelve small
instances, and each property speaks of its own component:

| component | instance | property (hazard) |
|---|---|---|
| `Tracking` | 2 threads, 2 dates, 2 prices, 3 triggers, 3 requests | `TriggersFire`: a stored snapshot whose trigger holds has its event, unless its evaluation died |
| `ThemeRegistry` | 2 threads, 2 days, 3 documents, 4 requests | `SnapshotsReproducible`: three reads beside imports give what the cutoff gives later |
| `EventCalendar` | 2 threads, a filing and a disclosure, 2 days, 3 requests | `HistoryIsOrdered`: versions numbered without gaps, none twice, no view ahead of its day |
| `Database` | a process of each of two releases, 3 starts or commands | `LedgerTellsSchema`, `DeletionTakesNothing` |
| `LiveStream` | 3 messages, 3 faults | `CountedIsLogged`, `NothingWaits` |
| `CodexServer` | 2 callers, 2 launches, 2 requests | `AnswerIsOwn` |
| `ModelChoice` | 2 providers, 2 models, 2 stages, 2 attempts, 2 requests that may overlap | `CallsMatchManifest` |
| `MarketData` | 2 threads, windows of 1 and 4 days, a dividend and then a large split, 2 syncs | `SoundSeesLargeSplits` |
| `FinancialFacts` | 2 threads, 2 texts, 2 responses, 3 requests | `AcceptedIsFact` |
| `MainlineMonitor` | 1 market, 2 days, 2 grades, 1 worker, 2 attempts, 1 decision | `JobBacked`, `DoneDecisionStays` |
| `SourceQueue` | a page and a filing, 2 URLs, 2 contents, 1 user, 6 requests, 1 crash | `CapturedHasEvidence` |
| `EvidenceBootstrap` | 2 companies with a filing each, 2 contents, 2 attempts, 1 request of a user | `CapturesAreReviewed`, `ApprovalsBackTrust` |

`TypeOK` is the conjunction of the components' type invariants.

Why the bounds suffice.  Two stages show a stage before and after another, two
attempts a retry and its limit, three executions a resume of a resume.  Two
observations, one from a poll and one from a socket, and two ingesting threads
give every pairwise race of the append; a third version lets a stale reader lose
to two others.  Two days give a theme a state before; two attempts let a
failed job run again, or two jobs run.  Two threads give every race of a lookup with an insert; two releases
a registry that ends before the file's; three messages a queue behind a failed
poll; two launches an answer of an earlier process.  Two runtimes are one
and its replacement; a budget of one call is spent by the first of two polls that
overlap, and two days put a midnight between any two steps.  Two URLs and two contents distinguish "same URL", "same content"
and "redirected onto each other".  Two tasks allow a second open one, shared
Evidence and a rejected neighbour.  Bounds appear in guards under names that
start with `Max`; all are checked to be reached (every action fires).

`CHECK_DEADLOCK FALSE` is set where the bound on requests or executions, or a
deleted run, really ends a behaviour; the signal log never stops.

The violation runs state a sentence of the documentation and show where the code
departs from it (`findings` in `PROJECT.json`):

* `docs/ARCHITECTURE.md:289` promises that a manual resume keeps all completed
  checkpoints; two overlapping resumes write whole stale runs over each other.
* `docs/ARCHITECTURE.md:112` promises an assessment for every version; a bridge
  transition between `save_signal` and `save_assessment` copies none.
* `docs/DECISIONS.md:99-100` says a duplicate never overwrites an existing
  capture; the files are replaced before the duplicate is recognised.
* `docs/MARKET_DATA.md:70-72` says a window that extends farther back is
  backfilled; a gap between two short windows lies behind the first stored bar
  and is never fetched.
* `docs/LIVE_RESEARCH.md:48-50` says the quotations of an agent's review were found
  in the hash-bound captured text; they are looked up in the text as it was read
  before the model was asked, and the hash in the record is the one the Evidence has
  afterwards.  `ApprovalsBackTrust` is what remains true: the hash is one the agent
  approved, and no company is verified without an approval of a filing of its own.
* `monitoring/service.py:346` refuses a second decision on a proposal; a job that
  failed after it saved the proposal saves it again, as pending, when it is
  repeated.  `DoneDecisionStays` is what remains true: once the job is done, a
  decision is final.

### Fairness

* Executions: strong fairness of an executor's steps, because its writes wait
  for SQLite's lock (`timeout=30`) and are not kept out by deletes that come and
  go; weak fairness of a delete that holds the lock, which is straight-line code.
* Signals: weak fairness of each thread at work, and of another delivery of
  *polled* observations: an MCP poll re-reads the head of its stream whatever
  its checkpoint says (`live/mcp.py:454`).  The WebSocket delivers once, and no
  fairness is assumed of it.
* Gateway: weak fairness of a runtime's thread and of its poll, whose call to the
  provider times out.  Nothing is assumed of users or of the next poll.

## 4. Proofs

`tlapm` checks every theorem for all values of the constants that satisfy the
named assumptions.  Those of `WorkflowExecutorProofs` named `Serial...` are about
`SerialSpec`, one caller at a time, crashes included; those of `RunDataProofs`,
`ServiceProofs` and `TypeProofs` about `Workbench`, whichever component is at work.

| module | theorem | states | holds for |
|---|---|---|---|
| `WorkflowExecutorProofs` | `TypeCorrect` | `TypeOK` | any stages, executions, clients and attempts, any overlap |
| | `StoredInOrder` | `StagesInOrder` | the same |
| | `NoWorkLost` | `DeleteLosesNoWork` | the same |
| | `EvidenceIsKept` | `EvidenceKept` | the same |
| | `SerialCheckpoints` | `CheckpointBacksRow` | one caller at a time |
| | `SerialDelete` | `DeletedStaysDeleted` | one caller at a time |
| | `SerialProgress` | `ResumeKeepsProgress` | one caller at a time |
| | `SerialAttempts` | `AttemptsAccounted` | one caller at a time |
| | `SerialLifecycle` | refinement of `RunLifecycle` | one caller at a time |
| `LiveGatewayProofs` | `GatewayTypeCorrect` | `TypeOK` | any budget, admins, readers, runtimes, days |
| | `HoldCorrect` | `HoldIsDeserved` | the same |
| | `RegistryCorrect` | `OnlyTheRegisteredRuns` | one admin, any readers and runtimes |
| `LiveSignalsProofs` | `SignalsTypeCorrect` | `TypeOK` | any observations, keys, threads, versions, crashes |
| | `ReturnedLinked` | `ReturnedIsLinked` | the same |
| | `SignalsImplementLog` | refinement of `SignalLog` | the same |
| `SourceQueueProofs` | `QueueTypeCorrect` | `QueueTypeOK` | any users and requests, any overlap |
| | `QueueReviewsApproved` | `ReviewedIsApproved` | the same |
| `ResearchBridgeProofs` | `BridgeTypeCorrect` | `TypeOK` | any users, signals, tasks, any overlap |
| | `BridgeReviewsApproved` | `ReviewedIsApproved` | the same |
| | `LinksApproved` | `LinkIsApproved` | the same |
| | `LinkedSignalsLinked` | `LinkedSignalHasLink` | the same |
| | `AlonePendingOpen` | `AlonePendingMeansOpen` | one request at a time, until a crash |
| | `AloneRejectedUnlinked` | `AloneRejectedHasNoLink` | one request at a time, until a crash |
| `RunDataProofs` | `CapturesFound` | `CapturedHasEvidence` | one user of the queue |
| | `FactsBackAcceptance` | `AcceptedIsFact` | any requests |
| | `CallsLocked` | `CallsMatchManifest` | any providers, models, requests at once |
| | `CapturesReviewed` | `CapturesAreReviewed` | one agent beside a user |
| | `ApprovalsBacked` | `ApprovalsBackTrust` | one agent beside a user |
| | `TriggersFired` | `TriggersFire` | any finite set of triggers, any requests |
| | `SoundSeriesSeesSplits` | `SoundSeesLargeSplits` | any syncs, windows, splits and dividends |
| | `VersionsOrdered` | `HistoryIsOrdered` | any ingests at once |
| | `SnapshotsRemade` | `SnapshotsReproducible` | any imports and snapshots |
| `ServiceProofs` | `AnswersOwn` | `AnswerIsOwn` | any callers, restarts, late answers |
| | `JobsBacked` | `JobBacked` | any workers and retries |
| | `DecisionsFinal` | `DoneDecisionStays` | one worker, one user |
| | `CountsLogged` | `CountedIsLogged` | any messages, repetitions, refusals |
| | `NoneWaits` | `NothingWaits` | the same |
| | `LedgersTell` | `LedgerTellsSchema` | upgrades by two releases, restores, crashes |
| | `DeletionsTakeNothing` | `DeletionTakesNothing` | every version of the schema |
| `TypeProofs` | `TypeCorrect` | `TypeOK` of `MCWorkbench` | all of the above |

### Assumptions

The named `ASSUME`s: `WorkflowExecutor` (at least one stage and attempt, disjoint
executors and clients), `LiveGateway` (a positive budget, users apart from each
other and from runtimes), `LiveSignals` (something is observed, every observation has
a key and every decision a state, ingesters are no bridges), `SourceQueue` and
`BridgeNames` (the marker `"none"` is no name, every source has a URL), and
`WorkbenchAssumption`, which collects those of the workbench's components.  They say
what the code's own types and constants say, and TLC evaluates each of them on the
runs of the module that declares it.  A component
that is instantiated with values states what it assumes as an operator
(`DaysAssumption`, `TrackingAssumption`, ...), which `WorkbenchAssumption` then
asserts of the values given.  Three theorems add an assumption of their own to their
statement: `RegistryCorrect` one admin, `CapturesFound` one user of the queue,
`DecisionsFinal` one worker and one analyst.

### The arguments

An invariant of the stored rows alone is seldom inductive in this program, because
rows are overwritten by copies that were read earlier.  Nearly every proof
therefore strengthens the property to **what every copy in flight says**, and shows
for each action that the copy it saves may be saved.

**Executor.**  `IInv` says of the row, the file, the trash and each actor's memory
that stages are in order, that the stage at work is the first incomplete one, and
that a run for which work was recorded is no longer `created`.  The last conjunct is
what makes `NoWorkLost` go through: a delete requires a `created` row without
checkpoints, and no stale copy can turn a started row back.  `EvidenceIsKept` follows from
the write lock: while a delete holds it nobody saves a row, and it took the lock on a row
without Evidence.  `SInv` adds, for one
caller at a time, that idle actors hold nothing, that the actor at work holds a copy
*ahead of* the row by exactly the steps since the last save, and that the checkpoint
agrees with either.  `SerialAttempts` adds `Accounts`, the balance of calls made,
attempts recorded and budget spent.  The refinement reuses `SInv` and shows that
every step maps to one of `RunLifecycle` or to a stutter.

**Gateway.**  `HInv` extends `HoldIsDeserved` from the stored checkpoint to the copy
in every poll's hands, which may be saved days later: a copy is `Honest` if it is of
no later day than today and, if of today, counts no more than was made; more calls
and a midnight keep it honest.  `RInv` says where the one admin is: at work on the
registered runtime, or reloading, during which a reader may register a runtime but
nobody starts it.

**Signal log.**  The invariant follows a thread between its reads and its saves: what
it read is a version that was stored, and no version is taken away, so that a save
under a unique key that fails leaves somebody else's version with the same link.
In the refinement the save that makes a new version the latest is `SignalLog`'s atomic
update, the first alert its `Alert`, and every other step a stutter.

**Queue and bridge.**  `QInv`: no copy of the ledger, however stale, claims a review
that was not approved; approvals are never withdrawn, so saving such a copy may lose
Evidence but never forges a review.  For `CapturesFound`, `LoneInv` adds that with
one user the copy at work lacks nothing the stored ledger has.  `BInv` carries both
through the bridge's threads and says that the link a request is about to save was
approved with its hash.  Both one-request theorems rest on `Orderly`, which says where
the one request stands between its two saves; they stop at a crash, which may
separate the two for good.

**Data of a run.**  `FactsInv` says that whatever is accepted, in the run or in a
copy, is already a fact (facts are inserted first and never removed).  `ChoiceInv`
says, until a request is overtaken, that once a call was made, or is about to be, the
row's provider and model are settled and the copy in the task agrees with them, and
that a request in `upToDate` holds exactly what is stored and, past its check, asks for
what the lock allows of that; any other request overtakes when it saves.  `BootInv` follows the agent phase by phase: what it captured is in its hands until it has an outcome, and what it holds for
approved was approved by the store with that hash.  `TrackInv` says of each request which events it still
has to save of the triggers that hold of its snapshot.  `CalendarInv` strengthens
`HistoryIsOrdered` to "the numbers of an event are exactly 1..n", which the unique key
preserves when two ingests found the same last version.  `ThemeInv`: as long as a
snapshot is fresh, what it read so far is what the queries would give now.

`SoundSeriesSeesSplits` has a step that is an argument of its own.  `MarketInv` says that a
series returned as sound has no large split between two *adjacent* bars, which is what
the quality check looks at; that a series with *any* two bars on different sides of a
large split has two adjacent ones is proved from the smallest gap between such a pair, with `Least`: a set
of naturals that is not empty has a least member.  The library's induction theorems are
out of the provers' reach, but the well-foundedness of `Nat` they rest on can be cited
for a fixed set.

**Services.**  `CodexInv`: an id is never used twice, so an answer still in a dead
process's pipe meets no later request of that id.  `MonitorInv`: a job's rows are saved before
it is done, and a retry writes the same rows; `DecisionInv` adds where the one user's
decision is.  `StreamInv`: a message is on its way at most once, and the poll's count
is at most the log plus its batch.  `StoreInv`: each file has a first part of the
registry applied as a whole, an upgrading process has the first versions behind it,
and nothing else is at work during a restore.

**Types.**  A row is written from what a request holds, so the types are proved of the
rows together with every request's locals, each beside its component's invariant.  Two
of them are more than bookkeeping: a candidate's quote is that of the last date both
answers of a feed have, and a proposal names the latest assessment, which exist because a
finite set of naturals that is not empty has a last member (`LastOf`); and a file of the database has only tables of the registry because the
migrations applied are a first part of it (`StoreInv`).

`SourceQueueProofs` is written about `SourceQueue`; the workbench's queue is an INSTANCE of
it, and `CapturesFound` uses the theorem through an INSTANCE of the proof module.

### Only model-checked

Liveness (`ExecutionEnds`, `DeliveredInTheEnd`, `AlertInTheEnd`, `StopEnds`), which
TLAPS cannot conclude from fairness.  Every invariant and action property that a
passing run checks has a theorem; what a theorem's last column restricts (one caller,
one user, one request at a time) is checked by its run under the same restriction.

## 5. Plan

Done: every component with state of its own has a module, and every safety property
of the passing runs is proved.  What is left:

1. The batch of monitoring jobs over all themes.
2. Rules and titles, for the cooldown of alerts; run contexts and audit rows of
   the bridge.

Modules to be proved about use no RECURSIVE operator, and runs are merged where
one configuration can answer several questions.

## 6. Not modelled

What models, providers and handlers compute (free choices); validation of
fields; rendering, reports and the CLI's argument parsing; `.env` and its
credentials; the queue artifact and other copies nobody reads back; clocks,
except through what a timeout, a cooldown or a day allows; scores of texts
(`live/rules.py`) and the prompts and merging of the research workflows; the
comparison of two market providers, scorecards and boards, which only read;
checksums of migrations, which change only with the program; live settings, dead letters,
audit rows and run contexts.
