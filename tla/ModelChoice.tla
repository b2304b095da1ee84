----------------------------- MODULE ModelChoice -----------------------------
(***************************************************************************)
(* Which provider and model a run is executed with (research/              *)
(* model_runtime.py), as execute_run and resume_run of the API and         *)
(* build_executor_for_run and its intake handler use it.  A request locks  *)
(* the provider in the run and queues a background task; the task selects  *)
(* again, builds the model, binds it to the run and executes the pipeline. *)
(*                                                                         *)
(* Requests and the task load the run, work on the copy and save all of    *)
(* it: every load and every save is a step, and nothing keeps two of them  *)
(* apart.  The tasks of the run are executed one after the other (two at   *)
(* once are WorkflowExecutor's subject).  The configured model changes     *)
(* between two tasks, a model may not be built, a step fails, the process  *)
(* crashes at any point.                                                   *)
(***************************************************************************)
EXTENDS Naturals, FiniteSets

CONSTANTS
  Providers,
  Models,        \* names; two providers may offer the same one
  Steps,         \* of the pipeline; the first one is the intake
  MaxAttempts,   \* per step and execution
  Requesters,    \* requests that may be at work at one time
  MaxRequests    \* bound on the requests made

VARIABLES
  saved,      \* the run in the store
  asking,     \* the requests at work
  queued,     \* providers of the background tasks accepted and not started
  task,       \* the task at work
  answered,   \* <<provider, model>> of the calls made for the run
  requests,   \* requests so far
  upToDate,   \* the requests whose copy of the run is what is stored (history)
  overtaken   \* a request has saved a copy that was not (history)

choiceVars == <<saved, asking, queued, task, answered, requests, upToDate, overtaken>>

None == "none"
ChoiceAssumption == None \notin Providers \cup Models /\ Steps \in Nat

\* started: a step has been attempted; done: steps completed.  A model is a provider's.
NewRun == [provider |-> None, model |-> None, started |-> FALSE, done |-> 0]
NoModel == [provider |-> None, model |-> None]

NoRequest == [pc |-> "idle", asked |-> None, run |-> NewRun]
NoTask == [pc |-> "idle", asked |-> None, model |-> NoModel, run |-> NewRun, stored |-> NewRun,
           tries |-> 0]

ChoiceInit ==
  /\ saved = NewRun
  /\ asking = [r \in Requesters |-> NoRequest]
  /\ queued = {}
  /\ task = NoTask
  /\ answered = {}
  /\ requests = 0
  /\ upToDate = {}
  /\ overtaken = FALSE

-----------------------------------------------------------------------------
\* Mutant: the provider may be changed at any time.
Changeable_Free(run, requested) == TRUE

\* assert_provider_change_allowed, on the run as it is stored by then.
Changeable(run, requested) ==
  run.started /\ run.provider # None => requested \in {None, run.provider}

\* select_run_provider: what was asked for, or what its copy of the run has.
Selected(run, requested) == IF requested = None THEN run.provider ELSE requested
Locked(run, requested) == [run EXCEPT !.provider = Selected(run, requested)]

\* bind_model_identity: refused, or the copy with the model.
Bindable(run, model) == run.started /\ run.model # None => run.model = model.model
Bound(run, model) == [run EXCEPT !.provider = model.provider, !.model = model.model]

\* save_run, by the task or by a request: the whole copy, whatever is stored.
TaskSaves(run) == saved' = run /\ upToDate' = {} /\ UNCHANGED overtaken
RequestSaves(r, run) ==
  saved' = run /\ upToDate' = {} /\ overtaken' = (overtaken \/ r \notin upToDate)

-----------------------------------------------------------------------------
(* execute_run and resume_run, in the background. *)

Ask(r, pc, requested, run) ==
  asking' = [asking EXCEPT ![r] = [pc |-> pc, asked |-> requested, run |-> run]]

\* The request loads the run to set its evidence mode, or select_run_provider does.
RequestExecution(r, requested) ==
  /\ asking[r] = NoRequest
  /\ requests < MaxRequests
  /\ requests' = requests + 1
  /\ \E pc \in {"mode", "check"} : Ask(r, pc, requested, saved)
  /\ upToDate' = upToDate \cup {r}
  /\ UNCHANGED <<saved, queued, task, answered, overtaken>>

SaveMode(r) ==
  /\ asking[r].pc = "mode"
  /\ RequestSaves(r, asking[r].run)
  /\ Ask(r, "select", asking[r].asked, NewRun)
  /\ UNCHANGED <<queued, task, answered, requests>>

LoadSelection(r) ==
  /\ asking[r].pc = "select"
  /\ Ask(r, "check", asking[r].asked, saved)
  /\ upToDate' = upToDate \cup {r}
  /\ UNCHANGED <<saved, queued, task, answered, requests, overtaken>>

\* The lock is checked on another load than the copy that is saved next.
CheckSelection(r) ==
  LET asked == asking[r].asked IN
  /\ asking[r].pc = "check"
  /\ asking' = [asking EXCEPT ![r] =
       IF Changeable(saved, asked) /\ Selected(@.run, asked) # None
       THEN [@ EXCEPT !.pc = "save"] ELSE NoRequest]
  /\ UNCHANGED <<saved, queued, task, answered, requests, upToDate, overtaken>>

SaveSelection(r) ==
  LET run == Locked(asking[r].run, asking[r].asked) IN
  /\ asking[r].pc = "save"
  /\ RequestSaves(r, run)
  /\ queued' = queued \cup {run.provider}
  /\ asking' = [asking EXCEPT ![r] = NoRequest]
  /\ UNCHANGED <<task, answered, requests>>

Requests ==
  \E r \in Requesters :
    \/ \E requested \in Providers \cup {None} : RequestExecution(r, requested)
    \/ SaveMode(r) \/ LoadSelection(r) \/ CheckSelection(r) \/ SaveSelection(r)

-----------------------------------------------------------------------------
(* _background_execute: select_run_provider again, create_research_model   *)
(* with what is configured now, and the first binding.                     *)

otherRows == <<asking, queued, answered, requests>>

BeginTask(provider) ==
  /\ task = NoTask
  /\ provider \in queued
  /\ queued' = queued \ {provider}
  /\ task' = [NoTask EXCEPT !.pc = "check", !.asked = provider, !.run = saved]
  /\ UNCHANGED <<saved, asking, answered, requests, upToDate, overtaken>>

CheckTask ==
  /\ task.pc = "check"
  /\ task' = IF Changeable(saved, task.asked) THEN [task EXCEPT !.pc = "save"]
             ELSE [NoTask EXCEPT !.pc = "refused"]
  /\ UNCHANGED <<saved, upToDate, overtaken, otherRows>>

SaveTask ==
  /\ task.pc = "save"
  /\ TaskSaves(Locked(task.run, task.asked))
  /\ task' = [NoTask EXCEPT !.pc = "build", !.asked = task.asked]
  /\ UNCHANGED otherRows

\* The failure is recorded in the run as it is then: loaded, and saved.
LoadFailure ==
  /\ task.pc = "refused"
  /\ task' = [NoTask EXCEPT !.pc = "end", !.run = saved]
  /\ UNCHANGED <<saved, upToDate, overtaken, otherRows>>

\* Where the model is not built or not bound, every step of this execution fails.
Ready(model) == [NoTask EXCEPT !.pc = "execute", !.model = model]

BuildModel(name) ==
  LET model == [provider |-> task.asked, model |-> name] IN
  /\ task.pc = "build"
  /\ task' = IF Bindable(saved, model)
             THEN [NoTask EXCEPT !.pc = "bind", !.model = model, !.run = saved]
             ELSE Ready(NoModel)
  /\ UNCHANGED <<saved, upToDate, overtaken, otherRows>>

SetupFails ==
  /\ task.pc = "build"
  /\ task' = Ready(NoModel)
  /\ UNCHANGED <<saved, upToDate, overtaken, otherRows>>

BindModel ==
  /\ task.pc = "bind"
  /\ TaskSaves(Bound(task.run, task.model))
  /\ task' = Ready(task.model)
  /\ UNCHANGED otherRows

-----------------------------------------------------------------------------
(* WorkflowExecutor.execute, on its own copy of the run from here on. *)

Execute ==
  /\ task.pc = "execute"
  /\ task' = [task EXCEPT !.pc = "begin", !.run = saved]
  /\ UNCHANGED <<saved, upToDate, overtaken, otherRows>>

\* _persist where the copy has been changed before: as running, after a step, at the end.
\* An execution may be asked to end after any step, and whether an error is retried
\* depends on its class.
Persist ==
  /\ \/ /\ task.pc = "begin" /\ task.run.done < Steps
        /\ task' = [task EXCEPT !.pc = "attempt"]
     \/ /\ task.pc = "begin" /\ task.run.done = Steps
        /\ task' = [task EXCEPT !.pc = "end"]
     \/ /\ task.pc = "completed" /\ task.run.done < Steps
        /\ task' = [task EXCEPT !.pc = "attempt", !.tries = 0]
     \/ /\ task.pc = "failed" /\ task.tries < MaxAttempts
        /\ task' = [task EXCEPT !.pc = "attempt"]
     \/ /\ task.pc \in {"completed", "failed"}
        /\ task' = [task EXCEPT !.pc = "end"]
     \/ /\ task.pc = "end"
        /\ task' = NoTask
  /\ TaskSaves(task.run)
  /\ UNCHANGED otherRows

AttemptStep ==
  LET run == [task.run EXCEPT !.started = TRUE] IN
  /\ task.pc = "attempt"
  /\ TaskSaves(run)
  /\ task' = [task EXCEPT !.pc = "handler", !.run = run, !.tries = @ + 1]
  /\ UNCHANGED otherRows

\* The intake binds the model to the run as it is stored by now; only the manifest of the
\* executor's copy follows.
LoadIntake ==
  /\ task.pc = "handler" /\ task.run.done = 0
  /\ task.model # NoModel /\ Bindable(saved, task.model)
  /\ task' = [task EXCEPT !.pc = "rebind", !.stored = saved]
  /\ UNCHANGED <<saved, upToDate, overtaken, otherRows>>

SaveIntake ==
  /\ task.pc = "rebind"
  /\ TaskSaves(Bound(task.stored, task.model))
  /\ task' = [task EXCEPT !.pc = "call", !.run = Bound(@, task.model), !.stored = NewRun]
  /\ UNCHANGED otherRows

\* generate, which may fail.
CallModel ==
  /\ \/ task.pc = "call"
     \/ task.pc = "handler" /\ task.run.done > 0 /\ task.model # NoModel
  /\ answered' = answered \cup {<<task.model.provider, task.model.model>>}
  /\ \/ task' = [task EXCEPT !.pc = "completed", !.run.done = @ + 1]
     \/ task' = [task EXCEPT !.pc = "failed"]
  /\ UNCHANGED <<saved, upToDate, overtaken, asking, queued, requests>>

\* fail_setup, the refusal of the intake, or any error of a handler before its call.
StepFails ==
  /\ task.pc \in {"handler", "call"}
  /\ task' = [task EXCEPT !.pc = "failed"]
  /\ UNCHANGED <<saved, upToDate, overtaken, otherRows>>

\* What was queued is gone as well.
Crash ==
  /\ task # NoTask
  /\ task' = NoTask
  /\ queued' = {}
  /\ asking' = [r \in Requesters |-> NoRequest]
  /\ upToDate' = {}
  /\ UNCHANGED <<saved, answered, requests, overtaken>>

TaskSteps ==
  \/ \E provider \in Providers : BeginTask(provider)
  \/ \E name \in Models : BuildModel(name)
  \/ CheckTask \/ SaveTask \/ LoadFailure \/ SetupFails \/ BindModel
  \/ Execute \/ Persist \/ AttemptStep \/ LoadIntake \/ SaveIntake \/ CallModel \/ StepFails

ChoiceNext == Requests \/ TaskSteps \/ Crash

ChoiceSpec == ChoiceInit /\ [][ChoiceNext]_choiceVars

-----------------------------------------------------------------------------
ChoiceTypeOK ==
  /\ saved.provider \in Providers \cup {None} /\ saved.model \in Models \cup {None}
  /\ saved.started \in BOOLEAN /\ saved.done \in 0..Steps
  /\ queued \subseteq Providers
  /\ answered \subseteq Providers \X Models

\* As long as no request saves the run over what was saved since it loaded it, every call
\* made for a run went to the provider and the model its manifest names: stages resumed
\* later, after other requests or other settings, do not diverge from it, although the lock
\* is checked on one load and saved with another, and the task saves its copies in between
\* (docs/DECISIONS.md, "Provider and model are locked after a run starts").
CallsMatchManifest ==
  ~overtaken => \A call \in answered : call = <<saved.provider, saved.model>>
=============================================================================
