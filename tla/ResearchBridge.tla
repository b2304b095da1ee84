--------------------------- MODULE ResearchBridge --------------------------
(***************************************************************************)
(* Official-source verification of live signals: LiveResearchBridge        *)
(* (live/bridge.py) over its tasks and Evidence links (live/store.py) and  *)
(* the source queue of the research run (SourceQueue).                     *)
(*                                                                         *)
(* A task of a signal collects an official URL, has it captured, and links *)
(* the Evidence once a human reviewed it.  Requests interleave at every    *)
(* store call; a task row is saved as a whole from the copy read when the  *)
(* request began.  Appending a signal version is one step here, whose      *)
(* interleaving with ingestions is the subject of LiveSignals: an append   *)
(* that loses that race raises, which is a crash of the request.  User     *)
(* actions and audit rows only record, and are left out.                   *)
(***************************************************************************)
EXTENDS SourceQueue

CONSTANTS
  Signals,   \* canonical signals, all observed
  Tasks      \* ids of verification tasks, in any order

ASSUME BridgeNames == "none" \notin Signals \cup Tasks

VARIABLES
  tasks,   \* rows of live_verification_tasks
  links,   \* rows of live_evidence_links
  state,   \* the verification state of each signal's latest version
  at,      \* per thread: where it is in a bridge operation
  job      \* per thread: the local variables of that operation

bridgeVars == <<tasks, links, state, at, job>>
vars == <<queueVars, bridgeVars>>

-----------------------------------------------------------------------------
TaskStatuses == {"absent", "pending", "source_suggested", "capture_pending", "captured", "failed",
                 "evidence_linked", "rejected"}
OPEN_VERIFICATION_STATES == {"pending", "source_suggested", "capture_pending", "captured", "failed"}

\* A task: its signal, whether it is bound to the run, its suggestion and
\* its Evidence.  One that is linked has both.
TaskRows ==
  {row \in [signal : Signals \cup {"none"}, status : TaskStatuses, bound : BOOLEAN,
            source : Sources \cup {"none"}, evidence : Sources \cup {"none"}] :
     /\ row.status = "absent" <=> row.signal = "none"
     /\ row.status \in {"captured", "rejected", "evidence_linked"} => row.evidence # "none"
     /\ row.evidence # "none" => row.source # "none" /\ row.bound}
NoTask == [signal |-> "none", status |-> "absent", bound |-> FALSE, source |-> "none",
           evidence |-> "none"]

States == {"signal_only", "official_source_pending", "evidence_linked"}
Links == [signal : Signals, task : Tasks, evidence : Sources, hash : Contents]

Labels == {"idle", "bind", "create", "append", "suggested", "pend", "capture", "outcome", "approved",
           "rejected", "remaining", "link", "linked"}
\* job[t]: the task at work and the copy of its row, the signal state to
\* append, the hash to link.
Jobs == [task : Tasks \cup {"none"}, row : TaskRows, state : States, hash : Contents \cup {"none"}]
NoJob == [task |-> "none", row |-> NoTask, state |-> "signal_only", hash |-> "none"]

TypeOK ==
  /\ QueueTypeOK
  /\ tasks \in [Tasks -> TaskRows]
  /\ links \subseteq Links
  /\ state \in [Signals -> States]
  /\ at \in [Users -> Labels]
  /\ job \in [Users -> Jobs]

Init ==
  /\ QueueInit
  /\ tasks = [k \in Tasks |-> NoTask]
  /\ links = {}
  /\ state = [s \in Signals |-> "signal_only"]
  /\ at = [t \in Users |-> "idle"]
  /\ job = [t \in Users |-> NoJob]

-----------------------------------------------------------------------------
Open(s) == {k \in Tasks : tasks[k].signal = s /\ tasks[k].status \in OPEN_VERIFICATION_STATES}

\* A request of thread t: it does nothing else.
Free(t) == at[t] = "idle" /\ pc[t] = "idle" /\ Counted

\* Inside an operation, the calls of the source queue are done.
At(t, label) == at[t] = label /\ pc[t] = "idle" /\ UNCHANGED requests

Resume(t, label, j) == at' = [at EXCEPT ![t] = label] /\ job' = [job EXCEPT ![t] = j]
End(t) == Resume(t, "idle", NoJob)

\* save_verification_task overwrites the row with the copy of the request.
SaveTask(k, row) == tasks' = [tasks EXCEPT ![k] = row]

\* What every step but those of the source queue leaves alone.
QueueUnchanged == UNCHANGED <<queue, ledger, files, pc, mem, approved, crashes>>

-----------------------------------------------------------------------------
(* create_verification_task                                                *)

\* An open task is returned, and bound to the run asked for if it has none.
Reuse(t, s, bound) ==
  /\ Free(t) /\ bound
  /\ \E k \in Open(s) : /\ ~tasks[k].bound
                        /\ Resume(t, "bind", [NoJob EXCEPT !.task = k,
                                              !.row = [tasks[k] EXCEPT !.bound = TRUE]])
  /\ QueueUnchanged /\ UNCHANGED <<tasks, links, state>>

SaveBound(t) ==
  /\ At(t, "bind")
  /\ SaveTask(job[t].task, job[t].row)
  /\ End(t)
  /\ QueueUnchanged /\ UNCHANGED <<links, state>>

Create(t, s, bound) ==
  /\ Free(t) /\ Open(s) = {}
  /\ LET row == [NoTask EXCEPT !.signal = s, !.status = "pending", !.bound = bound]
     IN  Resume(t, "create", [NoJob EXCEPT !.row = row, !.state = "official_source_pending"])
  /\ QueueUnchanged /\ UNCHANGED <<tasks, links, state>>

\* Mutant: a new task leaves the signal as it is.
SaveCreated_NoAppend(t) ==
  /\ At(t, "create")
  /\ \E k \in Tasks : tasks[k] = NoTask /\ SaveTask(k, job[t].row)
  /\ End(t)
  /\ QueueUnchanged /\ UNCHANGED <<links, state>>

\* The id holds the time of creation: it is new.
SaveCreated(t) ==
  /\ At(t, "create")
  /\ \E k \in Tasks : /\ tasks[k] = NoTask
                      /\ SaveTask(k, job[t].row)
                      /\ Resume(t, "append", [job[t] EXCEPT !.task = k])
  /\ QueueUnchanged /\ UNCHANGED <<links, state>>

\* _append_signal_state: a new version, unless it would be the latest again.
AppendSignalState(t) ==
  /\ At(t, "append")
  /\ state' = [state EXCEPT ![job[t].row.signal] = job[t].state]
  /\ End(t)
  /\ QueueUnchanged /\ UNCHANGED <<tasks, links>>

-----------------------------------------------------------------------------
(* add_official_source                                                     *)

AddOfficialSource(t, k, s) ==
  /\ Free(t) /\ tasks[k].status \in {"pending", "source_suggested", "failed"}
  /\ s \notin Discovered /\ Suggest(t, s)
  /\ Resume(t, "suggested", [NoJob EXCEPT !.task = k, !.row = tasks[k]])
  /\ UNCHANGED <<tasks, links, state>>

\* The task gets the suggestion the queue has for the URL, new or known.

SaveSuggested(t) ==
  /\ At(t, "suggested")
  /\ IF mem[t].out = "ok"
     THEN SaveTask(job[t].task, [job[t].row EXCEPT !.bound = TRUE, !.source = mem[t].source,
                                                   !.status = "source_suggested"])
     ELSE UNCHANGED tasks
  /\ End(t)
  /\ QueueUnchanged /\ UNCHANGED <<links, state>>

-----------------------------------------------------------------------------
(* capture_task_source                                                     *)

CaptureTaskSource(t, k) ==
  /\ Free(t)
  /\ tasks[k].bound /\ tasks[k].source # "none"
  /\ tasks[k].status \in {"source_suggested", "failed"}
  /\ Resume(t, "pend", [NoJob EXCEPT !.task = k, !.row = tasks[k]])
  /\ QueueUnchanged /\ UNCHANGED <<tasks, links, state>>

SaveCapturePending(t) ==
  /\ At(t, "pend")
  /\ SaveTask(job[t].task, [job[t].row EXCEPT !.status = "capture_pending"])
  /\ Resume(t, "capture", job[t])
  /\ QueueUnchanged /\ UNCHANGED <<links, state>>

\* A failed task retries whatever the user asked; others retry at will.
StartCapture(t) ==
  /\ At(t, "capture")
  /\ \E retry \in BOOLEAN : /\ job[t].row.status = "failed" => retry
                            /\ Capture(t, job[t].row.source, retry)
  /\ Resume(t, "outcome", job[t])
  /\ UNCHANGED <<tasks, links, state>>

\* A store error of the queue is none of those that make the task failed.
SaveOutcome(t) ==
  /\ At(t, "outcome")
  /\ CASE mem[t].out = "ok" -> SaveTask(job[t].task,
              [job[t].row EXCEPT !.status = "captured", !.evidence = mem[t].row.evidence])
       [] mem[t].out = "error" -> SaveTask(job[t].task, [job[t].row EXCEPT !.status = "failed"])
       [] OTHER -> UNCHANGED tasks
  /\ End(t)
  /\ QueueUnchanged /\ UNCHANGED <<links, state>>

-----------------------------------------------------------------------------
(* review_task_evidence                                                    *)

ReviewTaskEvidence(t, k, approve) ==
  /\ Free(t) /\ tasks[k].status = "captured"
  /\ Review(t, tasks[k].evidence, approve)
  /\ Resume(t, IF approve THEN "approved" ELSE "rejected",
            [NoJob EXCEPT !.task = k, !.row = tasks[k]])
  /\ UNCHANGED <<tasks, links, state>>

\* Mutant: a rejection leaves the signal as it is.
SaveRejected_NoReset(t) ==
  /\ At(t, "rejected")
  /\ SaveTask(job[t].task, [job[t].row EXCEPT !.status = "rejected"])
  /\ End(t)
  /\ QueueUnchanged /\ UNCHANGED <<links, state>>

SaveRejected(t) ==
  /\ At(t, "rejected")
  /\ SaveTask(job[t].task, [job[t].row EXCEPT !.status = "rejected"])
  /\ Resume(t, "remaining", job[t])
  /\ QueueUnchanged /\ UNCHANGED <<links, state>>

\* The last open task takes the signal back to signal_only.
Remaining(t) ==
  /\ At(t, "remaining")
  /\ IF Open(job[t].row.signal) = {}
     THEN Resume(t, "append", [job[t] EXCEPT !.state = "signal_only"])
     ELSE End(t)
  /\ QueueUnchanged /\ UNCHANGED <<tasks, links, state>>

-----------------------------------------------------------------------------
(* attach_reviewed_evidence                                                *)

\* Mutant: any captured Evidence will do.
Linkable_Captured(k) ==
  /\ tasks[k].status # "evidence_linked" /\ tasks[k].evidence # "none"
  /\ ledger[tasks[k].evidence] # NoEvidence
  /\ files[tasks[k].evidence] = ledger[tasks[k].evidence].hash

\* Reviewed Evidence whose file is still what was captured.
Linkable(k) ==
  /\ tasks[k].status # "evidence_linked" /\ tasks[k].evidence # "none"
  /\ ledger[tasks[k].evidence].status = "reviewed"
  /\ files[tasks[k].evidence] = ledger[tasks[k].evidence].hash

\* The task's status is not asked for.
Attach(t, k) ==
  /\ Linkable(k)
  /\ Resume(t, "link", [NoJob EXCEPT !.task = k, !.row = tasks[k],
                                     !.hash = ledger[tasks[k].evidence].hash])
  /\ QueueUnchanged /\ UNCHANGED <<tasks, links, state>>

AttachReviewedEvidence(t, k) == Free(t) /\ Attach(t, k)

\* An approval goes on to attach, which may refuse by now.
AttachApproved(t) ==
  /\ At(t, "approved")
  /\ \/ mem[t].out = "ok" /\ Attach(t, job[t].task)
     \/ /\ mem[t].out = "ok" => ~Linkable(job[t].task)
        /\ End(t)
        /\ QueueUnchanged /\ UNCHANGED <<tasks, links, state>>

\* Mutant: the task is not told of its link.
SaveLink_ForgetsTask(t) ==
  /\ At(t, "link")
  /\ links' = links \cup {[signal |-> job[t].row.signal, task |-> job[t].task,
                          evidence |-> job[t].row.evidence, hash |-> job[t].hash]}
  /\ Resume(t, "append", [job[t] EXCEPT !.state = "evidence_linked"])
  /\ QueueUnchanged /\ UNCHANGED <<tasks, state>>

\* Mutant: the task and the signal change without a link.
SaveLink_Omitted(t) ==
  /\ At(t, "link")
  /\ SaveTask(job[t].task, [job[t].row EXCEPT !.status = "evidence_linked"])
  /\ Resume(t, "append", [job[t] EXCEPT !.state = "evidence_linked"])
  /\ QueueUnchanged /\ UNCHANGED <<links, state>>

\* save_evidence_link: INSERT OR IGNORE, one link per signal and Evidence.
SaveLink(t) ==
  /\ At(t, "link")
  /\ LET row == job[t].row
         new == [signal |-> row.signal, task |-> job[t].task, evidence |-> row.evidence,
                 hash |-> job[t].hash]
     IN  links' = IF \E l \in links : l.signal = new.signal /\ l.evidence = new.evidence
                  THEN links ELSE links \cup {new}
  /\ Resume(t, "linked", job[t])
  /\ QueueUnchanged /\ UNCHANGED <<tasks, state>>

SaveLinked(t) ==
  /\ At(t, "linked")
  /\ SaveTask(job[t].task, [job[t].row EXCEPT !.status = "evidence_linked"])
  /\ Resume(t, "append", [job[t] EXCEPT !.state = "evidence_linked"])
  /\ QueueUnchanged /\ UNCHANGED <<links, state>>

-----------------------------------------------------------------------------
\* The process dies, or an error leaves the request, between two store calls.
CrashRequest(t) ==
  /\ at[t] # "idle" \/ pc[t] # "idle"
  /\ crashes < MaxCrashes
  /\ crashes' = crashes + 1
  /\ Goto(t, "idle", Blank)
  /\ End(t)
  /\ UNCHANGED <<queue, ledger, files, approved, requests, tasks, links, state>>

\* A request to the queue of the run, with no task.
AskQueue(t) ==
  /\ Free(t) /\ Ask(t)
  /\ UNCHANGED bridgeVars

\* The source queue works on a request, the bridge's or a user's.
ProceedQueue(t) == Proceed(t) /\ UNCHANGED requests /\ UNCHANGED bridgeVars

Begin(t) ==
  \/ \E s \in Signals, bound \in BOOLEAN : Reuse(t, s, bound) \/ Create(t, s, bound)
  \/ \E k \in Tasks : \/ \E s \in Sources : AddOfficialSource(t, k, s)
                      \/ CaptureTaskSource(t, k) \/ AttachReviewedEvidence(t, k)
                      \/ \E approve \in BOOLEAN : ReviewTaskEvidence(t, k, approve)

Continue(t) ==
  \/ SaveBound(t) \/ SaveCreated(t) \/ AppendSignalState(t) \/ SaveSuggested(t)
  \/ SaveCapturePending(t) \/ StartCapture(t) \/ SaveOutcome(t)
  \/ SaveRejected(t) \/ Remaining(t) \/ AttachApproved(t) \/ SaveLink(t) \/ SaveLinked(t)

Next == \E t \in Users : \/ Begin(t) \/ Continue(t) \/ CrashRequest(t)
                         \/ AskQueue(t) \/ ProceedQueue(t)

Spec == Init /\ [][Next]_vars

-----------------------------------------------------------------------------
(* Properties                                                              *)

\* All requests have run to their end.
Quiet == crashes = 0 /\ \A t \in Users : at[t] = "idle" /\ pc[t] = "idle"

\* Every Evidence link names bytes a human approved, whatever is captured
\* again, reviewed or saved from a stale copy meanwhile (bridge.py lines
\* 541-569, evidence.py lines 353-377).
LinkIsApproved == \A l \in links : <<l.evidence, l.hash>> \in approved

\* A signal is never evidence_linked ahead of its link, and a crash on the
\* way loses neither (bridge.py lines 561-594).
LinkedSignalHasLink ==
  \A s \in Signals : state[s] = "evidence_linked" => \E l \in links : l.signal = s

\* A signal waits for its official source only while a task of it is open,
\* and an open task has moved its signal: "a confirmed task moves the signal
\* to official_source_pending" (docs/LIVE_EVENTS.md), "if the last open task
\* is rejected, the signal returns to signal_only" (docs/LIVE_OPERATIONS.md,
\* bridge.py lines 503-513).
PendingMeansOpen ==
  Quiet => \A s \in Signals :
             /\ state[s] = "official_source_pending" => Open(s) # {}
             /\ Open(s) # {} => state[s] # "signal_only"

\* "Rejection creates no link" (docs/ARCHITECTURE.md).
RejectedHasNoLink ==
  Quiet => \A k \in Tasks : tasks[k].status = "rejected" => ~\E l \in links : l.task = k
=============================================================================
