------------------------- MODULE WorkflowExecutor -------------------------
(***************************************************************************)
(* The run engine: WorkflowExecutor.execute (runtime/executor.py), the     *)
(* run and checkpoint rows of RunStore (runtime/store.py), the state.json  *)
(* artifact beside them (workflows/scaffold.py), and the API handlers that *)
(* share the run row with an execution (api/app.py, tools/evidence.py).    *)
(*                                                                         *)
(* One run is modelled.  Every execution and every API edit works on a     *)
(* copy of the whole run it loaded into memory and writes the whole copy   *)
(* back; each store call is a transaction of its own, and nothing locks    *)
(* the run between two of them.  So one action here is one store call (or  *)
(* one file replacement) together with the computation up to the next.     *)
(*                                                                         *)
(* Spec lets any number of executions and edits overlap, as the API does.  *)
(* SerialSpec is the same system used by one caller at a time, crashes     *)
(* included: the discipline the documentation assumes.                     *)
(***************************************************************************)
EXTENDS Integers

CONSTANTS
  N,               \* stages in the pipeline; a stage is a number in 1..N
  MaxAttempts,     \* automatic attempts per stage in one execution
  MaxExecutions,   \* bound of the model: executions ever started
  Executors,       \* calls of execute(): API workers, CLI commands
  Clients          \* API handlers that load the run, edit it and save it

ASSUME StagesAssumption == N \in Nat \ {0}
ASSUME BoundsAssumption == MaxAttempts \in Nat \ {0} /\ MaxExecutions \in Nat
ASSUME ActorsAssumption == Executors \cap Clients = {}

Stages == 1..N
Actors == Executors \cup Clients

VARIABLES
  row,      \* the run's row in SQLite
  disk,     \* runs/<id>/state.json
  ckpt,     \* the checkpoint rows, one per stage
  lock,     \* the write lock delete_empty_run holds: "free" or "held"
  trash,    \* the workspace a delete has moved away and may move back
  pc,       \* what each actor does next
  mem,      \* each actor's copy of the run, and its local variables
  calls,    \* history: how often each stage's handler was entered
  execs,    \* history: executions started
  deleted   \* history: a delete has committed

vars == <<row, disk, ckpt, lock, trash, pc, mem, calls, execs, deleted>>

-----------------------------------------------------------------------------
StageStatus == {"pending", "running", "completed", "failed"}
RunStatus == {"absent", "created", "running", "needs_review", "failed"}

\* evidence: the run has Evidence attached.
Runs == [status : RunStatus, stage : [Stages -> StageStatus],
         attempts : [Stages -> Nat], evidence : BOOLEAN]

Fresh(status) == [status |-> status, stage |-> [s \in Stages |-> "pending"],
                  attempts |-> [s \in Stages |-> 0], evidence |-> FALSE]
Absent == Fresh("absent")
Present(run) == run.status # "absent"

\* What save_checkpoint stores of a stage, and what list_checkpoints returns for one with
\* no row.
Checkpoints == [status : {"none"} \cup StageStatus, attempt : Nat]
NoCheckpoint == [status |-> "none", attempt |-> 0]

\* What a load_run that restores the row goes on to: an edit, an execution, the record of
\* a failure.
Restoring == {"edit", "load", "rescue"}

\* mem[a]: the run loaded, the stage at work, its attempts in this
\* execution, the stage to stop at, what follows the next persist.
Blank == [run |-> Absent, at |-> 1, tries |-> 0, until |-> N, then |-> "stop"]
Memory == [run : Runs, at : Stages, tries : 0..MaxAttempts, until : Stages,
           then : {"advance", "handler", "retry", "fail", "record", "stop"} \cup Restoring]

PCs == {"idle", "checkpoint", "row", "file", "handler", "rescue"}

TypeOK ==
  /\ row \in Runs /\ disk \in Runs /\ trash \in Runs
  /\ ckpt \in [Stages -> Checkpoints]
  /\ lock \in {"free", "held"}
  /\ pc \in [Actors -> PCs]
  /\ mem \in [Actors -> Memory]
  /\ calls \in [Stages -> Nat]
  /\ execs \in 0..MaxExecutions
  /\ deleted \in BOOLEAN

Init ==
  /\ row = Fresh("created") /\ disk = Fresh("created") /\ trash = Absent
  /\ ckpt = [s \in Stages |-> NoCheckpoint]
  /\ lock = "free"
  /\ pc = [a \in Actors |-> "idle"]
  /\ mem = [a \in Actors |-> Blank]
  /\ calls = [s \in Stages |-> 0]
  /\ execs = 0
  /\ deleted = FALSE

-----------------------------------------------------------------------------
(* The executor's loop over the pipeline, between two store calls.         *)

Complete(run, s) == run.stage[s] = "completed"

\* Mutant: the loop passes over failed stages.
Due_SkipsFailed(run, s) ==
  /\ ~Complete(run, s)
  /\ \A t \in Stages : t < s => run.stage[t] \in {"completed", "failed"}

\* The first stage the loop does not skip.
Due(run, s) == /\ ~Complete(run, s)
               /\ \A t \in Stages : t < s => Complete(run, t)

\* Mutant: the loop stops at `until` before it has run.
Reached_TooEarly(run, until) == until < N \/ \A s \in Stages : Complete(run, s)

\* The loop returns early when it comes to the stage named by `until` and that stage is
\* complete.  Without `until` it ends behind the last stage, as with until = N.
Reached(run, until) == \A s \in 1..until : Complete(run, s)

Marked(run, s, status) == [run EXCEPT !.stage = [run.stage EXCEPT ![s] = status]]

\* One more attempt at stage s, the tries-th of this execution.
Attempt(m, s, tries) ==
  [m EXCEPT !.run = [Marked(m.run, s, "running") EXCEPT
                       !.attempts = [m.run.attempts EXCEPT ![s] = m.run.attempts[s] + 1]],
            !.at = s, !.tries = tries, !.then = "handler"]

\* Close the execution with this status.
Settle(m, status) ==
  [m EXCEPT !.run = [m.run EXCEPT !.status = status], !.then = "stop"]

Goto(a, label) == pc' = [pc EXCEPT ![a] = label]
Remember(a, m) == mem' = [mem EXCEPT ![a] = m]
Return(a) == Goto(a, "idle") /\ Remember(a, Blank)

-----------------------------------------------------------------------------
(* load_run of workflows/scaffold.py: the row, or where there is none a    *)
(* copy of state.json, from which it inserts the row again before it       *)
(* returns.  What the caller does next is its own action.                  *)

LoadFromDisk(a, then) ==
  /\ ~Present(row) /\ Present(disk)
  /\ Remember(a, [Blank EXCEPT !.run = disk, !.then = then])
  /\ Goto(a, "row")
  /\ UNCHANGED <<row, disk, ckpt, lock, trash, calls, execs, deleted>>

RestoreRow(a, then) ==
  /\ pc[a] = "row" /\ lock = "free" /\ mem[a].then = then
  /\ row' = mem[a].run
  /\ UNCHANGED <<disk, ckpt, lock, trash, calls, execs, deleted>>

-----------------------------------------------------------------------------
(* WorkflowExecutor.execute                                                *)

\* Mutant: a resume starts from the first stage.
Execute_StartsOver(e, until, retryFailed) ==
  /\ pc[e] = "idle" /\ execs < MaxExecutions
  /\ Present(row)
  /\ Remember(e, [Blank EXCEPT
       !.run = [row EXCEPT !.status = "running",
                           !.stage = IF retryFailed THEN Fresh("running").stage ELSE @],
       !.until = until, !.then = "advance"])
  /\ Goto(e, "row")
  /\ execs' = execs + 1
  /\ UNCHANGED <<row, disk, ckpt, lock, trash, calls, deleted>>

\* Mutant: a fresh budget forgets the lifetime attempts.
Execute_ForgetsAttempts(e, until, retryFailed) ==
  /\ pc[e] = "idle" /\ execs < MaxExecutions
  /\ Present(row)
  /\ Remember(e, [Blank EXCEPT
       !.run = [row EXCEPT !.status = "running",
                           !.attempts = IF retryFailed THEN Fresh("running").attempts ELSE @],
       !.until = until, !.then = "advance"])
  /\ Goto(e, "row")
  /\ execs' = execs + 1
  /\ UNCHANGED <<row, disk, ckpt, lock, trash, calls, deleted>>

\* execute_run loads the run before execute() does, and may restore its row.
LoadForExecution(e) == pc[e] = "idle" /\ LoadFromDisk(e, "load")
RunIsBack(e) == RestoreRow(e, "load") /\ Return(e)

\* Load the run; with retry_failed put failed stages back to pending; mark
\* the run running.  Runs are never cancelled or completed in this code.
Execute(e, until, retryFailed) ==
  /\ pc[e] = "idle" /\ execs < MaxExecutions
  /\ Present(row)
  /\ LET reset == [s \in Stages |->
                     IF retryFailed /\ row.stage[s] = "failed" THEN "pending"
                     ELSE row.stage[s]]
     IN  Remember(e, [Blank EXCEPT
                        !.run = [row EXCEPT !.status = "running", !.stage = reset],
                        !.until = until, !.then = "advance"])
  /\ Goto(e, "row")
  /\ execs' = execs + 1
  /\ UNCHANGED <<row, disk, ckpt, lock, trash, calls, deleted>>

\* Mutant: the checkpoint records the attempt within this execution.
WriteCheckpoint_LocalAttempt(e) ==
  /\ pc[e] = "checkpoint" /\ lock = "free" /\ Present(row)
  /\ ckpt' = [ckpt EXCEPT ![mem[e].at] =
                [status |-> mem[e].run.stage[mem[e].at], attempt |-> mem[e].tries]]
  /\ Goto(e, "row")
  /\ UNCHANGED <<row, disk, lock, trash, mem, calls, execs, deleted>>

\* _checkpoint: upsert the row of the stage at work.  The foreign key needs
\* the run's row.
WriteCheckpoint(e) ==
  /\ pc[e] = "checkpoint" /\ lock = "free" /\ Present(row)
  /\ ckpt' = [ckpt EXCEPT ![mem[e].at] =
                [status |-> mem[e].run.stage[mem[e].at],
                 attempt |-> mem[e].run.attempts[mem[e].at]]]
  /\ Goto(e, "row")
  /\ UNCHANGED <<row, disk, lock, trash, mem, calls, execs, deleted>>

\* Mutant: a save does not wait for the write lock.
WriteRow_IgnoresLock(a) ==
  /\ pc[a] = "row" /\ mem[a].then \notin Restoring
  /\ row' = mem[a].run
  /\ Goto(a, "file")
  /\ UNCHANGED <<disk, ckpt, lock, trash, mem, calls, execs, deleted>>

\* save_run: the whole run in memory replaces the row.
WriteRow(a) ==
  /\ pc[a] = "row" /\ lock = "free" /\ mem[a].then \notin Restoring
  /\ row' = mem[a].run
  /\ Goto(a, "file")
  /\ UNCHANGED <<disk, ckpt, lock, trash, mem, calls, execs, deleted>>

\* The artifact replaces state.json.
WriteFile(a) == pc[a] = "file" /\ disk' = mem[a].run

\* After a stage is done or skipped: stop at `until` or at the end of the
\* pipeline ...
Pause(e) ==
  /\ WriteFile(e) /\ mem[e].then = "advance"
  /\ Reached(mem[e].run, mem[e].until)
  /\ Remember(e, Settle(mem[e], "needs_review")) /\ Goto(e, "row")
  /\ UNCHANGED <<row, ckpt, lock, trash, calls, execs, deleted>>

\* ... or start the first attempt of the next stage.
Advance(e, s) ==
  /\ WriteFile(e) /\ mem[e].then = "advance"
  /\ ~Reached(mem[e].run, mem[e].until) /\ Due(mem[e].run, s)
  /\ Remember(e, Attempt(mem[e], s, 1)) /\ Goto(e, "checkpoint")
  /\ UNCHANGED <<row, ckpt, lock, trash, calls, execs, deleted>>

\* The attempt is on record: the handler is called.
EnterHandler(e) ==
  /\ WriteFile(e) /\ mem[e].then = "handler"
  /\ calls' = [calls EXCEPT ![mem[e].at] = @ + 1]
  /\ Goto(e, "handler")
  /\ UNCHANGED <<row, ckpt, lock, trash, mem, execs, deleted>>

\* The theme graph handler re-reads Evidence and manifest from the row
\* (research/theme.py); other handlers keep what the execution loaded.
Refreshed(run, refresh) == IF refresh THEN [run EXCEPT !.evidence = row.evidence] ELSE run

\* What the handler leaves behind: the stage at work has this status.
Outcome(m, run, status, next) == [m EXCEPT !.run = Marked(run, m.at, status), !.then = next]

HandlerSucceeds(e, refresh) ==
  /\ pc[e] = "handler" /\ (refresh => Present(row))
  /\ Remember(e, Outcome(mem[e], Refreshed(mem[e].run, refresh), "completed", "advance"))
  /\ Goto(e, "checkpoint")
  /\ UNCHANGED <<row, disk, ckpt, lock, trash, calls, execs, deleted>>

\* Mutant: one attempt too many.
HandlerFails_OffByOne(e, retryable, refresh) ==
  /\ pc[e] = "handler" /\ (refresh => Present(row))
  /\ LET next == IF retryable /\ mem[e].tries <= MaxAttempts THEN "retry" ELSE "fail"
     IN  Remember(e, Outcome(mem[e], Refreshed(mem[e].run, refresh), "failed", next))
  /\ Goto(e, "checkpoint")
  /\ UNCHANGED <<row, disk, ckpt, lock, trash, calls, execs, deleted>>

\* A handler raises.  Provider errors may say they are not retryable.
HandlerFails(e, retryable, refresh) ==
  /\ pc[e] = "handler" /\ (refresh => Present(row))
  /\ LET next == IF retryable /\ mem[e].tries < MaxAttempts THEN "retry" ELSE "fail"
     IN  Remember(e, Outcome(mem[e], Refreshed(mem[e].run, refresh), "failed", next))
  /\ Goto(e, "checkpoint")
  /\ UNCHANGED <<row, disk, ckpt, lock, trash, calls, execs, deleted>>

\* The failure is on record and the budget allows another attempt.
Retry(e) ==
  /\ WriteFile(e) /\ mem[e].then = "retry"
  /\ Remember(e, Attempt(mem[e], mem[e].at, mem[e].tries + 1))
  /\ Goto(e, "checkpoint")
  /\ UNCHANGED <<row, ckpt, lock, trash, calls, execs, deleted>>

\* The failure is on record and ends the execution.
GiveUp(e) ==
  /\ WriteFile(e) /\ mem[e].then = "fail"
  /\ Remember(e, Settle(mem[e], "failed"))
  /\ Goto(e, "row")
  /\ UNCHANGED <<row, ckpt, lock, trash, calls, execs, deleted>>

\* The last persist of an execution or of an edit.
Finish(a) ==
  /\ WriteFile(a) /\ mem[a].then \in {"stop", "record"}
  /\ Return(a)
  /\ UNCHANGED <<row, ckpt, lock, trash, calls, execs, deleted>>

-----------------------------------------------------------------------------
(* _background_execute: an exception that leaves execute() marks the run   *)
(* failed, on whatever the row holds by then, or restores the row from     *)
(* state.json to say so.  Nothing catches an exception of the first load,  *)
(* or a second one, from recording the first.                              *)

\* A rejected `until`, a store error, a violated foreign key.
Raise(e) ==
  /\ \/ pc[e] = "idle" /\ Present(row) /\ execs < MaxExecutions /\ execs' = execs + 1
     \/ /\ pc[e] \in {"checkpoint", "row", "file"}
        /\ mem[e].then \notin {"record", "load", "rescue"}
        /\ execs' = execs
  /\ Goto(e, "rescue") /\ Remember(e, Blank)
  /\ UNCHANGED <<row, disk, ckpt, lock, trash, calls, deleted>>

Failure(run) == [Blank EXCEPT !.run = [run EXCEPT !.status = "failed"], !.then = "record"]

\* Mutant: the failure is recorded once the row is there.
Rescue_WaitsForRun(e) ==
  /\ pc[e] = "rescue" /\ Present(row)
  /\ Remember(e, Failure(row)) /\ Goto(e, "row")
  /\ UNCHANGED <<row, disk, ckpt, lock, trash, calls, execs, deleted>>

Rescue(e) ==
  /\ pc[e] = "rescue"
  /\ \/ Present(row) /\ Remember(e, Failure(row)) /\ Goto(e, "row")
     \/ LoadFromDisk(e, "rescue")
     \/ ~Present(row) /\ ~Present(disk) /\ Return(e)
  /\ UNCHANGED <<row, disk, ckpt, lock, trash, calls, execs, deleted>>

RecordRestored(e) ==
  /\ RestoreRow(e, "rescue")
  /\ Remember(e, Failure(mem[e].run)) /\ UNCHANGED pc

-----------------------------------------------------------------------------
(* API handlers that edit the run: load_run, change the copy, save_run.    *)

\* An Evidence item attached, or a change of anything else (evidence_mode, a review).
Edited(m, run, attaches) ==
  [m EXCEPT !.run = [run EXCEPT !.evidence = run.evidence \/ attaches], !.then = "stop"]

Edit(c, attaches) ==
  /\ pc[c] = "idle" /\ Present(row)
  /\ Remember(c, Edited(Blank, row, attaches))
  /\ Goto(c, "row")
  /\ UNCHANGED <<row, disk, ckpt, lock, trash, calls, execs, deleted>>

\* An edit of a run whose row load_run restores.
LoadForEdit(c) == pc[c] = "idle" /\ LoadFromDisk(c, "edit")
EditRestored(c, attaches) ==
  /\ RestoreRow(c, "edit")
  /\ Remember(c, Edited(mem[c], mem[c].run, attaches)) /\ UNCHANGED pc

-----------------------------------------------------------------------------
(* delete_empty_run: re-check under the write lock, move the workspace to  *)
(* the trash, delete the row, commit.  Its expected_updated_at check only  *)
(* refuses more, and a refusal changes nothing.                            *)

Untouched(run) ==
  /\ run.status = "created"
  /\ \A s \in Stages : run.stage[s] = "pending" /\ run.attempts[s] = 0
  /\ ~run.evidence

\* Mutant: checkpoints do not protect a run.
DeleteArchive_IgnoresCheckpoints ==
  /\ lock = "free" /\ Untouched(row)
  /\ Present(disk)
  /\ lock' = "held" /\ trash' = disk /\ disk' = Absent
  /\ UNCHANGED <<row, ckpt, pc, mem, calls, execs, deleted>>

\* Mutant: the workspace is copied, not moved.
DeleteArchive_KeepsWorkspace ==
  /\ lock = "free" /\ Untouched(row)
  /\ \A s \in Stages : ckpt[s] = NoCheckpoint
  /\ Present(disk)
  /\ lock' = "held" /\ trash' = disk
  /\ UNCHANGED <<row, disk, ckpt, pc, mem, calls, execs, deleted>>

DeleteArchive ==
  /\ lock = "free" /\ Untouched(row)
  /\ \A s \in Stages : ckpt[s] = NoCheckpoint
  /\ Present(disk)
  /\ lock' = "held" /\ trash' = disk /\ disk' = Absent
  /\ UNCHANGED <<row, ckpt, pc, mem, calls, execs, deleted>>

DeleteCommit ==
  /\ lock = "held"
  /\ row' = Absent /\ ckpt' = [s \in Stages |-> NoCheckpoint]
  /\ lock' = "free" /\ deleted' = TRUE /\ trash' = Absent
  /\ UNCHANGED <<disk, pc, mem, calls, execs>>

\* An error after the move: roll back and move the workspace back, unless
\* somebody has written a new one.
DeleteRollback ==
  /\ lock = "held" /\ lock' = "free"
  /\ disk' = IF Present(disk) THEN disk ELSE trash
  /\ trash' = Absent
  /\ UNCHANGED <<row, ckpt, pc, mem, calls, execs, deleted>>

\* The process dies between the move and the commit.
DeleteCrash ==
  /\ lock = "held" /\ lock' = "free" /\ trash' = Absent
  /\ UNCHANGED <<row, disk, ckpt, pc, mem, calls, execs, deleted>>

-----------------------------------------------------------------------------
\* The process of an actor dies, or an exception leaves a foreground call:
\* its copy of the run is gone.
Crash(a) ==
  /\ pc[a] # "idle"
  /\ Return(a)
  /\ UNCHANGED <<row, disk, ckpt, lock, trash, calls, execs, deleted>>

Start(e) == \/ \E until \in Stages, retryFailed \in BOOLEAN : Execute(e, until, retryFailed)
            \/ LoadForExecution(e)
            \/ pc[e] = "idle" /\ Raise(e)

Step(e) ==
  \/ WriteCheckpoint(e) \/ WriteRow(e)
  \/ Pause(e) \/ \E s \in Stages : Advance(e, s)
  \/ EnterHandler(e) \/ Retry(e) \/ GiveUp(e) \/ Finish(e)
  \/ \E refresh \in BOOLEAN : \/ HandlerSucceeds(e, refresh)
                              \/ \E retryable \in BOOLEAN : HandlerFails(e, retryable, refresh)
  \/ pc[e] # "idle" /\ Raise(e)
  \/ Rescue(e) \/ RunIsBack(e) \/ RecordRestored(e)

Delete == DeleteArchive \/ DeleteCommit \/ DeleteRollback \/ DeleteCrash

Request(c) == \/ \E attaches \in BOOLEAN : Edit(c, attaches) \/ EditRestored(c, attaches)
              \/ LoadForEdit(c)
              \/ WriteRow(c) \/ Finish(c)

Next ==
  \/ \E e \in Executors : Start(e) \/ Step(e)
  \/ \E c \in Clients : Request(c)
  \/ \E a \in Actors : Crash(a)
  \/ Delete

Spec == Init /\ [][Next]_vars

\* One caller at a time: nobody starts while another is at work.
AtMostOneBusy ==
  /\ \A a, b \in Actors : a # b => pc[a] = "idle" \/ pc[b] = "idle"
  /\ lock = "held" => \A a \in Actors : pc[a] = "idle"
SerialNext == Next /\ AtMostOneBusy'
SerialSpec == Init /\ [][SerialNext]_vars

\* An execution that runs keeps running, and a delete ends.  A writer waits
\* for the write lock (sqlite3 timeout=30), so it is not kept out by deletes
\* that come and go: strong fairness.
Fairness == /\ \A e \in Executors : SF_vars(Step(e))
            /\ WF_vars(DeleteCommit \/ DeleteRollback \/ DeleteCrash)
FairSpec == Spec /\ Fairness

-----------------------------------------------------------------------------
(* Properties                                                              *)

\* Stages run in pipeline order, however executions, edits and crashes
\* interleave: the stored run never shows a stage begun before every earlier
\* stage is completed (the loop of execute, and load_run's fallback).
StagesInOrder ==
  \A s \in Stages : row.stage[s] # "pending" =>
                      \A t \in Stages : t < s => Complete(row, t)

\* A deleted run never had work done for it: no handler was ever entered and
\* no checkpoint existed (docs/THEME_SCAN.md: deletion is refused "when the
\* run has started or has checkpoints"), even with stale copies around.
DeleteLosesNoWork ==
  [][Present(row) /\ ~Present(row') =>
       \A s \in Stages : calls[s] = 0 /\ ckpt[s] = NoCheckpoint]_vars

\* One caller at a time: a stage the row calls completed has a completed
\* checkpoint for that very attempt, whatever crash came between the two
\* writes of executor.py lines 115 and 116.
CheckpointBacksRow ==
  \A s \in Stages : Complete(row, s) =>
                      ckpt[s] = [status |-> "completed", attempt |-> row.attempts[s]]

\* "Manual resume ... preserves the lifetime attempt count and all completed
\* checkpoints" (docs/ARCHITECTURE.md): in the stored run no completed stage
\* is ever reopened and no attempt forgotten.
ResumeKeepsProgress ==
  [][\A s \in Stages : /\ Complete(row, s) => Complete(row', s)
                       /\ row'.attempts[s] >= row.attempts[s]]_vars

\* The lifetime count accounts for every call of a handler, and each
\* execution spends at most its retry budget on a stage.
AttemptsAccounted ==
  \A s \in Stages : Present(row) =>
     /\ calls[s] <= row.attempts[s]
     /\ row.attempts[s] <= MaxAttempts * execs

\* Evidence is never deleted with its run, though attaching it and deleting the run
\* overlap: a delete re-checks the run under the write lock, an attachment is saved before
\* that check or after the commit (delete_empty_run, and the save of tools/evidence.py).
EvidenceKept ==
  [][Present(row) /\ row.evidence => Present(row')]_vars

\* A deleted run stays deleted: no copy in memory or on disk brings it back.
DeletedStaysDeleted == deleted => ~Present(row)

\* Every execution ends: retries are bounded and every error path returns.
ExecutionEnds == \A e \in Executors : pc[e] # "idle" ~> pc[e] = "idle"

\* Used by one caller at a time, the engine implements RunLifecycle.
Lifecycle == INSTANCE RunLifecycle
               WITH status <- row.status,
                    done <- {s \in Stages : Complete(row, s)}
ImplementsLifecycle == Lifecycle!Spec
=============================================================================
