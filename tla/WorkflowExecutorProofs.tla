---------------------- MODULE WorkflowExecutorProofs ----------------------
(***************************************************************************)
(* Theorems about WorkflowExecutor, for every pipeline length, retry       *)
(* budget and set of callers.                                              *)
(***************************************************************************)
EXTENDS WorkflowExecutor, TLAPS

\* A copy of the run is in pipeline order.
InOrder(run) ==
  \A s \in Stages : run.stage[s] # "pending" =>
                      \A t \in Stages : t < s => Complete(run, t)

\* What an actor's local variables say at each point of its program.
Local(label, m) ==
  /\ InOrder(m.run)
  /\ label = "handler" => m.then = "handler"
  /\ m.then = "handler" => m.run.stage[m.at] = "running"
  /\ m.then = "retry" => m.run.stage[m.at] = "failed" /\ m.tries < MaxAttempts
  /\ label \notin {"idle", "rescue"} => Present(m.run)

\* A handler is entered only behind a checkpoint ...
Behind(label, m, cp) ==
  label \in {"row", "file", "handler"} /\ m.then = "handler" => cp[m.at] # NoCheckpoint

Ordered == InOrder(row) /\ InOrder(disk) /\ InOrder(trash)
Working == \A a \in Actors : Local(pc[a], mem[a]) /\ Behind(pc[a], mem[a], ckpt)

\* ... and a delete that holds the lock has seen none, and an untouched run.
Recorded == /\ \A s \in Stages : calls[s] # 0 => ckpt[s] # NoCheckpoint
            /\ lock = "held" => Untouched(row) /\ \A s \in Stages : ckpt[s] = NoCheckpoint

IInv == TypeOK /\ Ordered /\ Working /\ Recorded

-----------------------------------------------------------------------------
(* The records the actions build.                                          *)

LEMMA BlankFacts ==
  /\ Absent \in Runs /\ InOrder(Absent) /\ ~Present(Absent)
  /\ Blank \in Memory /\ Blank.run = Absent /\ Blank.then = "stop"
  /\ \A label \in {"idle", "rescue"} : Local(label, Blank)
<1>1. Absent \in Runs /\ InOrder(Absent) /\ ~Present(Absent)
  BY DEF Absent, Fresh, Runs, RunStatus, StageStatus, InOrder, Present
<1>2. Blank \in Memory /\ Blank.run = Absent /\ Blank.then = "stop"
  BY <1>1, StagesAssumption, BoundsAssumption DEF Blank, Memory, Stages
<1> QED BY <1>1, <1>2 DEF Local

\* The memory of an actor that has just loaded a run.
LEMMA LoadedFacts ==
  ASSUME NEW m, m.then \in {"advance", "record", "stop"} \cup Restoring,
         InOrder(m.run), Present(m.run)
  PROVE  Local("row", m)
  BY DEF Local, Restoring

\* Setting a stage's status: the new copy, and when it stays in order.
LEMMA MarkedFacts ==
  ASSUME NEW run \in Runs, NEW s \in Stages, NEW status \in StageStatus
  PROVE  /\ Marked(run, s, status) \in Runs
         /\ Marked(run, s, status).stage = [run.stage EXCEPT ![s] = status]
         /\ Marked(run, s, status).status = run.status
         /\ Marked(run, s, status).attempts = run.attempts
  BY DEF Marked, Runs

LEMMA MarkedInOrder ==
  ASSUME NEW run \in Runs, NEW new \in Runs, InOrder(run),
         NEW s \in Stages, ~Complete(run, s), \A t \in Stages : t < s => Complete(run, t),
         NEW status \in StageStatus, new.stage = [run.stage EXCEPT ![s] = status]
  PROVE  InOrder(new)
<1>1. run.stage \in [Stages -> StageStatus]
  BY DEF Runs
<1>2. \A t \in Stages : s < t => run.stage[t] = "pending"
  BY DEF InOrder
<1> SUFFICES ASSUME NEW u \in Stages, new.stage[u] # "pending", NEW t \in Stages, t < u
             PROVE  new.stage[t] = "completed"
  BY DEF InOrder, Complete
<1>3. u = s \/ u < s
  BY <1>1, <1>2 DEF Stages
<1>4. t < s
  BY <1>3 DEF Stages
<1> QED BY <1>1, <1>4 DEF Complete, Stages

LEMMA AttemptFacts ==
  ASSUME NEW m \in Memory, InOrder(m.run), Present(m.run),
         NEW s \in Stages, ~Complete(m.run, s),
         \A t \in Stages : t < s => Complete(m.run, t),
         NEW k \in 0..MaxAttempts
  PROVE  /\ Attempt(m, s, k) \in Memory
         /\ Local("checkpoint", Attempt(m, s, k))
         /\ Attempt(m, s, k).at = s
         /\ Attempt(m, s, k).run.stage = [m.run.stage EXCEPT ![s] = "running"]
         /\ Attempt(m, s, k).run.attempts = [m.run.attempts EXCEPT ![s] = m.run.attempts[s] + 1]
         /\ Attempt(m, s, k).run.status = m.run.status
<1> DEFINE x == Attempt(m, s, k)
<1> DEFINE marked == Marked(m.run, s, "running")
<1> DEFINE r == [marked EXCEPT !.attempts = [m.run.attempts EXCEPT ![s] = m.run.attempts[s] + 1]]
<1>1. m.run \in Runs /\ m.run.stage \in [Stages -> StageStatus]
  BY DEF Memory, Runs
<1>2. /\ r \in Runs /\ r.status = m.run.status
      /\ r.stage = [m.run.stage EXCEPT ![s] = "running"]
      /\ r.attempts = [m.run.attempts EXCEPT ![s] = m.run.attempts[s] + 1]
  <2>1. /\ marked \in Runs /\ marked.status = m.run.status
        /\ marked.stage = [m.run.stage EXCEPT ![s] = "running"]
    BY <1>1, MarkedFacts DEF StageStatus
  <2>2. [m.run.attempts EXCEPT ![s] = m.run.attempts[s] + 1] \in [Stages -> Nat]
    BY <1>1 DEF Runs
  <2> HIDE DEF marked
  <2> QED BY <2>1, <2>2 DEF Runs
<1>3. x \in Memory /\ x.at = s /\ x.then = "handler" /\ x.run = r
  BY <1>2 DEF Attempt, Memory
<1>4. InOrder(r)
  BY <1>1, <1>2, MarkedInOrder DEF StageStatus
<1> QED BY <1>1, <1>2, <1>3, <1>4 DEF Local, Present

LEMMA SettleFacts ==
  ASSUME NEW m \in Memory, InOrder(m.run), NEW status \in {"needs_review", "failed"}
  PROVE  Settle(m, status) \in Memory /\ Local("row", Settle(m, status))
         /\ Settle(m, status).then = "stop" /\ Settle(m, status).at = m.at
         /\ Settle(m, status).run = [m.run EXCEPT !.status = status]
         /\ Settle(m, status).run.stage = m.run.stage
         /\ Settle(m, status).run.attempts = m.run.attempts
  BY DEF Settle, Memory, Runs, RunStatus, Local, InOrder, Complete, Present

\* A stage at work has no successor begun, so it may complete or fail.
LEMMA OutcomeRun ==
  ASSUME NEW run \in Runs, NEW s \in Stages, InOrder(run), Present(run),
         run.stage[s] = "running", NEW outcome \in {"completed", "failed"}
  PROVE  /\ Marked(run, s, outcome) \in Runs /\ InOrder(Marked(run, s, outcome))
         /\ Present(Marked(run, s, outcome))
         /\ Marked(run, s, outcome).stage = [run.stage EXCEPT ![s] = outcome]
         /\ Marked(run, s, outcome).attempts = run.attempts
         /\ Marked(run, s, outcome).status = run.status
<1> DEFINE new == Marked(run, s, outcome)
<1>1. outcome \in StageStatus
  BY DEF StageStatus
<1>2. /\ new \in Runs /\ new.status = run.status
      /\ new.attempts = run.attempts
      /\ new.stage = [run.stage EXCEPT ![s] = outcome]
  BY <1>1, MarkedFacts
<1> HIDE DEF new
<1>3. ~Complete(run, s) /\ \A t \in Stages : t < s => Complete(run, t)
  BY DEF InOrder, Complete
<1>4. InOrder(new)
  BY <1>1, <1>2, <1>3, MarkedInOrder
<1> QED BY <1>2, <1>4 DEF Present, new

\* One actor moves; what it keeps in memory fits where it goes.
LEMMA ActorStep ==
  ASSUME TypeOK, Working, NEW a \in Actors, NEW label \in PCs, NEW m \in Memory,
         Goto(a, label), Remember(a, m), Local(label, m), Behind(label, m, ckpt'),
         \A b \in Actors \ {a} : Behind(pc[b], mem[b], ckpt')
  PROVE  Working' /\ pc' \in [Actors -> PCs] /\ mem' \in [Actors -> Memory]
<1>1. pc' = [pc EXCEPT ![a] = label] /\ mem' = [mem EXCEPT ![a] = m]
  BY DEF Goto, Remember
<1>2. pc' \in [Actors -> PCs] /\ mem' \in [Actors -> Memory]
  BY <1>1 DEF TypeOK
<1>3. ASSUME NEW b \in Actors
      PROVE  Local(pc'[b], mem'[b]) /\ Behind(pc'[b], mem'[b], ckpt')
  <2>1. CASE b = a
    BY <1>1, <2>1 DEF TypeOK
  <2>2. CASE b # a
    BY <1>1, <2>2 DEF TypeOK, Working
  <2> QED BY <2>1, <2>2
<1> QED BY <1>2, <1>3 DEF Working

-----------------------------------------------------------------------------
LEMMA InitIInv ==
  ASSUME Init
  PROVE  IInv
<1>1. Fresh("created") \in Runs /\ InOrder(Fresh("created"))
  BY DEF Fresh, Runs, RunStatus, StageStatus, InOrder
<1>2. TypeOK
  <2>1. NoCheckpoint \in Checkpoints
    BY DEF NoCheckpoint, Checkpoints
  <2>2. row \in Runs /\ disk \in Runs /\ trash \in Runs
    BY <1>1, BlankFacts DEF Init
  <2>3. ckpt \in [Stages -> Checkpoints] /\ mem \in [Actors -> Memory]
    BY <2>1, BlankFacts DEF Init
  <2>4. pc \in [Actors -> PCs] /\ calls \in [Stages -> Nat] /\ execs \in 0..MaxExecutions
    BY BoundsAssumption DEF Init, PCs
  <2> QED BY <2>2, <2>3, <2>4 DEF Init, TypeOK
<1>3. Ordered /\ Recorded
  BY <1>1, BlankFacts DEF Init, Ordered, Recorded
<1>4. Working
  BY BlankFacts DEF Init, Working, Behind
<1> QED BY <1>2, <1>3, <1>4 DEF IInv

\* A step that leaves the checkpoints alone disturbs no other actor.
LEMMA QuietStep ==
  ASSUME IInv, NEW a \in Actors, NEW label \in PCs, NEW m \in Memory,
         Goto(a, label), Remember(a, m), Local(label, m), Behind(label, m, ckpt),
         UNCHANGED <<ckpt, lock, trash, deleted>>,
         row' \in Runs, InOrder(row'), lock = "free" \/ row' = row, disk' \in {disk, mem[a].run},
         calls' \in [Stages -> Nat], \A s \in Stages : calls'[s] # 0 => ckpt[s] # NoCheckpoint,
         execs' \in 0..MaxExecutions
  PROVE  IInv'
<1>1. Working' /\ pc' \in [Actors -> PCs] /\ mem' \in [Actors -> Memory]
  BY ActorStep DEF IInv, Working
<1>2. mem[a].run \in Runs /\ InOrder(mem[a].run)
  BY DEF IInv, TypeOK, Working, Local, Memory
<1> QED BY <1>1, <1>2 DEF IInv, TypeOK, Ordered, Recorded

-----------------------------------------------------------------------------
(* The steps of an execution.                                              *)

LEMMA ExecuteIInv ==
  ASSUME IInv, NEW e \in Executors, NEW until \in Stages, NEW retryFailed \in BOOLEAN,
         Execute(e, until, retryFailed)
  PROVE  IInv'
<1> DEFINE reset == [s \in Stages |-> IF retryFailed /\ row.stage[s] = "failed" THEN "pending"
                                     ELSE row.stage[s]]
<1> DEFINE r == [row EXCEPT !.status = "running", !.stage = reset]
<1> DEFINE m == [Blank EXCEPT !.run = r, !.until = until, !.then = "advance"]
<1>1. row \in Runs /\ row.stage \in [Stages -> StageStatus] /\ InOrder(row)
  BY DEF IInv, TypeOK, Ordered, Runs
<1>2. reset \in [Stages -> StageStatus]
  BY <1>1 DEF StageStatus
<1>3. r \in Runs /\ Present(r) /\ r.stage = reset
  BY <1>1, <1>2 DEF Runs, RunStatus, Present
<1>4. InOrder(r)
  BY <1>1, <1>3 DEF InOrder, Complete
<1> HIDE DEF r
<1>5. m \in Memory /\ m.run = r /\ m.then = "advance"
  BY <1>3, BlankFacts DEF Memory
<1> HIDE DEF m
<1>6. Local("row", m)
  BY <1>3, <1>4, <1>5, LoadedFacts
<1>7. Goto(e, "row") /\ Remember(e, m)
  BY DEF Execute, r, m
<1>8. execs' \in 0..MaxExecutions
  BY BoundsAssumption DEF Execute, IInv, TypeOK
<1> QED BY <1>1, <1>5, <1>6, <1>7, <1>8, QuietStep
        DEF Execute, Actors, PCs, Behind, IInv, TypeOK, Recorded

\* What an actor holds before it moves.
LEMMA Holding ==
  ASSUME IInv, NEW a \in Actors
  PROVE  /\ mem[a] \in Memory /\ mem[a].run \in Runs /\ mem[a].at \in Stages
         /\ Local(pc[a], mem[a]) /\ InOrder(mem[a].run) /\ Behind(pc[a], mem[a], ckpt)
         /\ row \in Runs /\ InOrder(row) /\ execs \in 0..MaxExecutions
         /\ calls \in [Stages -> Nat] /\ \A s \in Stages : calls[s] # 0 => ckpt[s] # NoCheckpoint
  BY DEF IInv, TypeOK, Working, Ordered, Recorded, Memory, Local

LEMMA WriteRowIInv ==
  ASSUME IInv, NEW a \in Actors, WriteRow(a)
  PROVE  IInv'
<1>1. pc' \in [Actors -> PCs] /\ Working'
  BY DEF WriteRow, Goto, IInv, TypeOK, PCs, Working, Local, Behind
<1> QED BY <1>1, Holding DEF WriteRow, IInv, TypeOK, Ordered, Recorded

LEMMA WriteCheckpointIInv ==
  ASSUME IInv, NEW e \in Executors, WriteCheckpoint(e)
  PROVE  IInv'
<1> DEFINE at == mem[e].at
<1> DEFINE written == [status |-> mem[e].run.stage[at], attempt |-> mem[e].run.attempts[at]]
<1>1. written \in Checkpoints /\ written # NoCheckpoint /\ e \in Actors
  BY Holding DEF Runs, StageStatus, Checkpoints, NoCheckpoint, Actors
<1>2. ckpt' = [ckpt EXCEPT ![at] = written] /\ ckpt \in [Stages -> Checkpoints]
  BY DEF WriteCheckpoint, IInv, TypeOK
<1> HIDE DEF written
<1>3. /\ ckpt' \in [Stages -> Checkpoints] /\ ckpt'[at] # NoCheckpoint
      /\ \A s \in Stages : ckpt[s] # NoCheckpoint => ckpt'[s] # NoCheckpoint
  BY <1>1, <1>2, Holding
<1>4. \A a \in Actors : pc'[a] = IF a = e THEN "row" ELSE pc[a]
  BY <1>1 DEF WriteCheckpoint, Goto, IInv, TypeOK
<1>5. Working'
  <2> SUFFICES ASSUME NEW a \in Actors
               PROVE  Local(pc'[a], mem[a]) /\ Behind(pc'[a], mem[a], ckpt')
    BY DEF WriteCheckpoint, Working
  <2>1. CASE a = e
    BY <1>1, <1>3, <1>4, <2>1, Holding DEF WriteCheckpoint, Local, Behind
  <2>2. CASE a # e
    BY <1>3, <1>4, <2>2, Holding DEF Behind
  <2> QED BY <2>1, <2>2
<1> QED BY <1>1, <1>3, <1>5
        DEF WriteCheckpoint, Goto, IInv, TypeOK, Ordered, Recorded, PCs

LEMMA PauseIInv ==
  ASSUME IInv, NEW e \in Executors, Pause(e)
  PROVE  IInv'
<1> DEFINE m == Settle(mem[e], "needs_review")
<1>1. m \in Memory /\ Local("row", m) /\ m.then = "stop"
  BY Holding, SettleFacts DEF Pause, WriteFile, Local, Actors
<1> HIDE DEF m
<1> QED BY <1>1, Holding, QuietStep DEF m, Pause, WriteFile, Behind, PCs, Actors

LEMMA GiveUpIInv ==
  ASSUME IInv, NEW e \in Executors, GiveUp(e)
  PROVE  IInv'
<1> DEFINE m == Settle(mem[e], "failed")
<1>1. m \in Memory /\ Local("row", m) /\ m.then = "stop"
  BY Holding, SettleFacts DEF GiveUp, WriteFile, Local, Actors
<1> QED BY <1>1, Holding, QuietStep DEF GiveUp, WriteFile, Behind, PCs, Actors

LEMMA AdvanceIInv ==
  ASSUME IInv, NEW e \in Executors, NEW s \in Stages, Advance(e, s)
  PROVE  IInv'
<1> DEFINE m == Attempt(mem[e], s, 1)
<1>1. m \in Memory /\ Local("checkpoint", m)
  <2>1. /\ mem[e] \in Memory /\ InOrder(mem[e].run) /\ Present(mem[e].run)
        /\ ~Complete(mem[e].run, s) /\ \A t \in Stages : t < s => Complete(mem[e].run, t)
    BY Holding DEF Advance, Due, WriteFile, Local, Actors
  <2>2. 1 \in 0..MaxAttempts
    BY BoundsAssumption
  <2> HIDE DEF Local
  <2> QED BY <2>1, <2>2, AttemptFacts
<1> HIDE DEF m
<1> QED BY <1>1, Holding, QuietStep DEF m, Advance, WriteFile, Behind, PCs, Actors

LEMMA RetryIInv ==
  ASSUME IInv, NEW e \in Executors, Retry(e)
  PROVE  IInv'
<1> DEFINE m == Attempt(mem[e], mem[e].at, mem[e].tries + 1)
<1>1. /\ mem[e] \in Memory /\ mem[e].at \in Stages /\ InOrder(mem[e].run)
      /\ mem[e].run.stage[mem[e].at] = "failed" /\ Present(mem[e].run)
      /\ mem[e].tries + 1 \in 0..MaxAttempts
  BY Holding, BoundsAssumption DEF Retry, WriteFile, Local, Memory, Actors
<1>2. /\ ~Complete(mem[e].run, mem[e].at)
      /\ \A t \in Stages : t < mem[e].at => Complete(mem[e].run, t)
  BY <1>1 DEF InOrder, Complete
<1>3. m \in Memory /\ Local("checkpoint", m)
  BY <1>1, <1>2, AttemptFacts
<1> HIDE DEF m
<1> QED BY <1>3, Holding, QuietStep DEF m, Retry, WriteFile, Behind, PCs, Actors

LEMMA EnterHandlerIInv ==
  ASSUME IInv, NEW e \in Executors, EnterHandler(e)
  PROVE  IInv'
<1>1. /\ Local("handler", mem[e]) /\ ckpt[mem[e].at] # NoCheckpoint
      /\ Behind("handler", mem[e], ckpt) /\ e \in Actors
  BY Holding DEF EnterHandler, WriteFile, Local, Behind, Actors
<1>2. /\ calls' \in [Stages -> Nat]
      /\ \A s \in Stages : calls'[s] # 0 => ckpt[s] # NoCheckpoint
  BY <1>1, Holding DEF EnterHandler
<1>3. Remember(e, mem[e])
  BY <1>1 DEF EnterHandler, Remember, IInv, TypeOK
<1> QED BY <1>1, <1>2, <1>3, Holding, QuietStep DEF EnterHandler, WriteFile, PCs

\* The copy the handler works on: it may bring in the Evidence of the row.
SameProgress(base, run) ==
  /\ base \in Runs /\ base.stage = run.stage /\ base.attempts = run.attempts
  /\ base.status = run.status

LEMMA RefreshedFacts ==
  ASSUME NEW run \in Runs, row \in Runs, NEW refresh \in BOOLEAN,
         NEW base, base = Refreshed(run, refresh)
  PROVE  SameProgress(base, run)
  BY DEF SameProgress, Refreshed, Runs

\* x is m with the stage at work closed.
Closes(m, outcome, x) ==
  /\ x \in Memory /\ Local("checkpoint", x) /\ x.at = m.at
  /\ x.run.stage = [m.run.stage EXCEPT ![m.at] = outcome]
  /\ x.run.attempts = m.run.attempts /\ x.run.status = m.run.status

\* What a handler leaves behind, whether it returns or raises.
LEMMA OutcomeFacts ==
  ASSUME NEW m \in Memory, Local("handler", m), NEW base, SameProgress(base, m.run),
         NEW outcome \in {"completed", "failed"}, NEW next \in {"advance", "retry", "fail"},
         next = "retry" => outcome = "failed" /\ m.tries < MaxAttempts
  PROVE  Closes(m, outcome, Outcome(m, base, outcome, next))
<1> DEFINE new == Marked(base, m.at, outcome)
<1> DEFINE x == [m EXCEPT !.run = new, !.then = next]
<1>1. /\ m.run \in Runs /\ m.at \in Stages /\ m.run.stage \in [Stages -> StageStatus]
      /\ InOrder(m.run) /\ Present(m.run) /\ m.run.stage[m.at] = "running"
  BY DEF Local, Memory, Runs
<1>2. /\ base \in Runs /\ base.stage = m.run.stage /\ base.attempts = m.run.attempts
      /\ base.status = m.run.status
  BY DEF SameProgress
<1>3. InOrder(base) /\ Present(base) /\ base.stage[m.at] = "running"
  BY <1>1, <1>2 DEF InOrder, Complete, Present
<1>4. /\ new \in Runs /\ InOrder(new) /\ Present(new)
      /\ new.stage = [base.stage EXCEPT ![m.at] = outcome]
      /\ new.attempts = base.attempts
      /\ new.status = base.status
  <2>1. base \in Runs /\ m.at \in Stages
    BY <1>1, <1>2
  <2> QED BY <1>3, <2>1, OutcomeRun, Zenon
<1>5. x = Outcome(m, base, outcome, next)
  BY DEF Outcome
<1> HIDE DEF new
<1>6. next = "retry" => new.stage[m.at] = "failed" /\ m.tries < MaxAttempts
  <2>1. new.stage[m.at] = outcome
    BY <1>1, <1>2, <1>4
  <2> QED BY <2>1
<1>7. /\ x \in Memory /\ x.at = m.at /\ x.run = new /\ x.then = next
      /\ x.tries = m.tries
  BY <1>4 DEF Memory
<1> HIDE DEF x
<1>8. Local("checkpoint", x)
  BY <1>4, <1>6, <1>7 DEF Local
<1> QED BY <1>2, <1>4, <1>5, <1>7, <1>8 DEF Closes

LEMMA HandlerSucceedsIInv ==
  ASSUME IInv, NEW e \in Executors, NEW refresh \in BOOLEAN, HandlerSucceeds(e, refresh)
  PROVE  IInv'
<1> DEFINE base == Refreshed(mem[e].run, refresh)
<1> DEFINE m == Outcome(mem[e], base, "completed", "advance")
<1>1. Goto(e, "checkpoint") /\ Remember(e, m) /\ pc[e] = "handler"
  BY DEF HandlerSucceeds
<1>2. /\ mem[e] \in Memory /\ mem[e].run \in Runs /\ row \in Runs /\ Local("handler", mem[e])
  BY <1>1, Holding DEF Actors
<1>3. SameProgress(base, mem[e].run)
  BY <1>2, RefreshedFacts
<1> HIDE DEF base
<1>4. m \in Memory /\ Local("checkpoint", m)
  BY <1>2, <1>3, OutcomeFacts DEF Closes
<1> HIDE DEF m
<1> QED BY <1>1, <1>4, Holding, QuietStep DEF HandlerSucceeds, Behind, PCs, Actors

LEMMA HandlerFailsIInv ==
  ASSUME IInv, NEW e \in Executors, NEW retryable \in BOOLEAN, NEW refresh \in BOOLEAN,
         HandlerFails(e, retryable, refresh)
  PROVE  IInv'
<1> DEFINE base == Refreshed(mem[e].run, refresh)
<1> DEFINE next == IF retryable /\ mem[e].tries < MaxAttempts THEN "retry" ELSE "fail"
<1> DEFINE m == Outcome(mem[e], base, "failed", next)
<1>1. Goto(e, "checkpoint") /\ Remember(e, m) /\ pc[e] = "handler"
  BY DEF HandlerFails
<1>2. /\ mem[e] \in Memory /\ mem[e].run \in Runs /\ row \in Runs /\ Local("handler", mem[e])
  BY <1>1, Holding DEF Actors
<1>3. SameProgress(base, mem[e].run)
  BY <1>2, RefreshedFacts
<1>4. next \in {"retry", "fail"} /\ (next = "retry" => mem[e].tries < MaxAttempts)
  OBVIOUS
<1> HIDE DEF base, next
<1>5. m \in Memory /\ Local("checkpoint", m)
  BY <1>2, <1>3, <1>4, OutcomeFacts DEF Closes
<1> HIDE DEF m
<1> QED BY <1>1, <1>5, Holding, QuietStep DEF HandlerFails, Behind, PCs, Actors

-----------------------------------------------------------------------------
(* Returns, crashes and exceptions only forget a copy.                     *)

LEMMA ForgetIInv ==
  ASSUME IInv, NEW a \in Actors, NEW label \in {"idle", "rescue"},
         Goto(a, label), Remember(a, Blank), disk' \in {disk, mem[a].run},
         execs' \in 0..MaxExecutions, UNCHANGED <<row, ckpt, lock, trash, calls, deleted>>
  PROVE  IInv'
  BY BlankFacts, Holding, QuietStep DEF Behind, PCs

LEMMA FinishIInv ==
  ASSUME IInv, NEW a \in Actors, Finish(a)
  PROVE  IInv'
  BY ForgetIInv, Holding DEF Finish, WriteFile, Return

LEMMA CrashIInv ==
  ASSUME IInv, NEW a \in Actors, Crash(a)
  PROVE  IInv'
  BY ForgetIInv, Holding DEF Crash, Return

LEMMA RaiseIInv ==
  ASSUME IInv, NEW e \in Executors, Raise(e)
  PROVE  IInv'
<1>1. execs' \in 0..MaxExecutions
  BY Holding, BoundsAssumption DEF Raise, Actors
<1> QED BY <1>1, ForgetIInv DEF Raise, Actors

LEMMA LoadFromDiskIInv ==
  ASSUME IInv, NEW a \in Actors, NEW then \in Restoring, LoadFromDisk(a, then)
  PROVE  IInv'
<1> DEFINE m == [Blank EXCEPT !.run = disk, !.then = then]
<1>1. m \in Memory /\ m.run = disk /\ m.then = then
  BY BlankFacts DEF IInv, TypeOK, Memory
<1>2. Goto(a, "row") /\ Remember(a, m)
  BY DEF LoadFromDisk
<1> HIDE DEF m
<1>3. Local("row", m) /\ Behind("row", m, ckpt)
  BY <1>1, LoadedFacts DEF LoadFromDisk, IInv, Ordered, Behind, Restoring
<1> QED BY <1>1, <1>2, <1>3, Holding, QuietStep DEF LoadFromDisk, PCs

LEMMA RestoreRowIInv ==
  ASSUME IInv, NEW a \in Actors, NEW then \in Restoring, RestoreRow(a, then),
         NEW label \in PCs, NEW m \in Memory, Goto(a, label), Remember(a, m),
         Local(label, m), m.then # "handler"
  PROVE  IInv'
  BY Holding, QuietStep DEF RestoreRow, Behind

\* What the record of a failure writes.
LEMMA FailureFacts ==
  ASSUME NEW run \in Runs, InOrder(run)
  PROVE  /\ Failure(run) \in Memory /\ Local("row", Failure(run))
         /\ Failure(run).then = "record" /\ Failure(run).run.status = "failed"
         /\ Failure(run).run.stage = run.stage /\ Failure(run).run.attempts = run.attempts
<1> DEFINE r == [run EXCEPT !.status = "failed"]
<1>1. /\ r \in Runs /\ InOrder(r) /\ Present(r) /\ r.status = "failed"
      /\ r.stage = run.stage /\ r.attempts = run.attempts
  BY DEF Runs, RunStatus, InOrder, Complete, Present
<1> HIDE DEF r
<1>2. Failure(run) \in Memory /\ Failure(run).run = r /\ Failure(run).then = "record"
  BY <1>1, BlankFacts DEF Failure, Memory, r
<1> QED BY <1>1, <1>2, LoadedFacts

LEMMA RunIsBackIInv ==
  ASSUME IInv, NEW e \in Executors, RunIsBack(e)
  PROVE  IInv'
  BY BlankFacts, RestoreRowIInv DEF RunIsBack, Return, Restoring, PCs, Actors

LEMMA RecordRestoredIInv ==
  ASSUME IInv, NEW e \in Executors, RecordRestored(e)
  PROVE  IInv'
<1>1. /\ Failure(mem[e].run) \in Memory /\ Local("row", Failure(mem[e].run))
      /\ Failure(mem[e].run).then = "record"
  BY FailureFacts, Holding DEF Actors
<1>2. Goto(e, "row") /\ RestoreRow(e, "rescue") /\ Remember(e, Failure(mem[e].run))
  BY DEF RecordRestored, RestoreRow, Goto, IInv, TypeOK
<1> QED BY <1>1, <1>2, RestoreRowIInv DEF Restoring, PCs, Actors

LEMMA RescueIInv ==
  ASSUME IInv, NEW e \in Executors, Rescue(e)
  PROVE  IInv'
<1>1. CASE Present(row) /\ Remember(e, Failure(row)) /\ Goto(e, "row")
  <2>1. /\ Failure(row) \in Memory /\ Local("row", Failure(row))
        /\ Failure(row).then = "record"
    BY FailureFacts, Holding DEF Actors
  <2> QED BY <1>1, <2>1, Holding, QuietStep DEF Rescue, Behind, PCs, Actors
<1>2. CASE LoadFromDisk(e, "rescue")
  BY <1>2, LoadFromDiskIInv DEF Restoring, Actors
<1>3. CASE Return(e)
  BY <1>3, ForgetIInv, Holding DEF Rescue, Return, Actors
<1> QED BY <1>1, <1>2, <1>3 DEF Rescue

-----------------------------------------------------------------------------
(* API edits and deletes.                                                  *)

\* What an edit writes: the run, with Evidence or without.
LEMMA EditedFacts ==
  ASSUME NEW m \in Memory, NEW run \in Runs, InOrder(run), Present(run),
         NEW attaches \in BOOLEAN
  PROVE  /\ Edited(m, run, attaches) \in Memory /\ Local("row", Edited(m, run, attaches))
         /\ Edited(m, run, attaches).then = "stop"
         /\ Edited(m, run, attaches).run.status = run.status
         /\ Edited(m, run, attaches).run.stage = run.stage
         /\ Edited(m, run, attaches).run.attempts = run.attempts
<1> DEFINE r == [run EXCEPT !.evidence = run.evidence \/ attaches]
<1>1. /\ r \in Runs /\ InOrder(r) /\ Present(r) /\ r.status = run.status
      /\ r.stage = run.stage /\ r.attempts = run.attempts
  BY DEF Runs, InOrder, Complete, Present
<1>2. Edited(m, run, attaches) = [m EXCEPT !.run = r, !.then = "stop"]
  BY DEF Edited
<1> HIDE DEF r
<1>3. /\ Edited(m, run, attaches) \in Memory /\ Edited(m, run, attaches).then = "stop"
      /\ Edited(m, run, attaches).run = r
  BY <1>1, <1>2 DEF Memory
<1> QED BY <1>1, <1>3, LoadedFacts

LEMMA EditIInv ==
  ASSUME IInv, NEW c \in Clients, NEW attaches \in BOOLEAN, Edit(c, attaches)
  PROVE  IInv'
<1>1. /\ Edited(Blank, row, attaches) \in Memory
      /\ Edited(Blank, row, attaches).then = "stop"
      /\ Local("row", Edited(Blank, row, attaches))
  BY EditedFacts, BlankFacts, Holding DEF Edit, Actors
<1> QED BY <1>1, Holding, QuietStep DEF Edit, Behind, PCs, Actors

LEMMA EditRestoredIInv ==
  ASSUME IInv, NEW c \in Clients, NEW attaches \in BOOLEAN, EditRestored(c, attaches)
  PROVE  IInv'
<1> DEFINE m == Edited(mem[c], mem[c].run, attaches)
<1>1. m \in Memory /\ m.then = "stop" /\ Local("row", m)
  <2>1. /\ mem[c] \in Memory /\ mem[c].run \in Runs /\ InOrder(mem[c].run)
        /\ Present(mem[c].run)
    BY Holding DEF EditRestored, RestoreRow, Local, Actors
  <2> QED BY <2>1, EditedFacts
<1>2. Goto(c, "row") /\ RestoreRow(c, "edit") /\ Remember(c, m)
  BY DEF EditRestored, RestoreRow, Goto, IInv, TypeOK
<1> HIDE DEF m
<1> QED BY <1>1, <1>2, RestoreRowIInv DEF Restoring, PCs, Actors

LEMMA DeleteIInv ==
  ASSUME IInv, Delete
  PROVE  IInv'
<1>1. Working /\ UNCHANGED <<pc, mem>>
  BY DEF IInv, Delete, DeleteArchive, DeleteCommit, DeleteRollback, DeleteCrash
<1>2. CASE DeleteArchive
  BY <1>1, <1>2, BlankFacts DEF DeleteArchive, IInv, TypeOK, Working, Ordered, Recorded
<1>3. CASE DeleteCommit
  <2>1. ckpt' = ckpt
    BY <1>3 DEF DeleteCommit, IInv, TypeOK, Recorded
  <2> QED BY <1>1, <1>3, <2>1, BlankFacts DEF DeleteCommit, IInv, TypeOK, Working, Ordered, Recorded
<1>4. CASE DeleteRollback
  BY <1>1, <1>4, BlankFacts DEF DeleteRollback, IInv, TypeOK, Working, Ordered, Recorded
<1>5. CASE DeleteCrash
  BY <1>1, <1>5, BlankFacts DEF DeleteCrash, IInv, TypeOK, Working, Ordered, Recorded
<1> QED BY <1>2, <1>3, <1>4, <1>5 DEF Delete

-----------------------------------------------------------------------------
(* The theorems.                                                           *)

LEMMA NextIInv ==
  ASSUME IInv, [Next]_vars
  PROVE  IInv'
<1>1. CASE \E e \in Executors : Start(e)
  BY <1>1, ExecuteIInv, RaiseIInv, LoadFromDiskIInv
  DEF Start, LoadForExecution, Restoring, Actors
<1>2. CASE \E e \in Executors : Step(e)
  BY <1>2, WriteCheckpointIInv, WriteRowIInv, PauseIInv, AdvanceIInv, EnterHandlerIInv,
     RetryIInv, GiveUpIInv, FinishIInv, HandlerSucceedsIInv, HandlerFailsIInv, RaiseIInv,
     RescueIInv, RunIsBackIInv, RecordRestoredIInv
  DEF Step, Actors
<1>3. CASE \E c \in Clients : Request(c)
  BY <1>3, EditIInv, EditRestoredIInv, LoadFromDiskIInv, WriteRowIInv, FinishIInv
  DEF Request, LoadForEdit, Restoring, Actors
<1>4. CASE \E a \in Actors : Crash(a)
  BY <1>4, CrashIInv
<1>5. CASE Delete
  BY <1>5, DeleteIInv
<1>6. CASE UNCHANGED vars
  BY <1>6 DEF vars, IInv, TypeOK, Ordered, Working, Recorded
<1> QED BY <1>1, <1>2, <1>3, <1>4, <1>5, <1>6 DEF Next

\* IInv holds however executions, edits, deletes and crashes interleave.
THEOREM Invariance == Spec => []IInv
<1>1. Init => IInv
  BY InitIInv
<1>2. IInv /\ [Next]_vars => IInv'
  BY NextIInv
<1> QED BY <1>1, <1>2, PTL DEF Spec

\* The variables keep their types.
THEOREM TypeCorrect == Spec => []TypeOK
<1>1. IInv => TypeOK
  BY DEF IInv
<1> QED BY <1>1, Invariance, PTL

\* For every number of stages, executions, clients and retries: the stored
\* run is always in pipeline order.
THEOREM StoredInOrder == Spec => []StagesInOrder
<1>1. IInv => StagesInOrder
  BY DEF IInv, Ordered, InOrder, StagesInOrder
<1> QED BY <1>1, Invariance, PTL

\* A step that takes the row away is the commit of a delete, and a delete
\* holds the lock only over an untouched run without checkpoints.
LEMMA RowVanishes ==
  ASSUME IInv, [Next]_vars, Present(row), ~Present(row')
  PROVE  Untouched(row) /\ \A s \in Stages : calls[s] = 0 /\ ckpt[s] = NoCheckpoint
<1>1. \A a \in Actors : pc[a] = "row" => Present(mem[a].run)
  BY DEF IInv, Working, Local
<1>2. lock = "held"
  BY <1>1 DEF Next, vars, Start, Step, Request, Delete, Actors, Execute, Raise, WriteCheckpoint,
     WriteRow, Pause, Advance, EnterHandler, Retry, GiveUp, Finish, HandlerSucceeds,
     HandlerFails, Rescue, LoadForExecution, RunIsBack,
     RecordRestored, Edit, LoadForEdit, EditRestored, RestoreRow, LoadFromDisk, Crash, DeleteArchive,
     DeleteCommit, DeleteRollback, DeleteCrash
<1> QED BY <1>2 DEF IInv, Recorded

\* Deleting a run never discards work, whatever stale copies are about.
THEOREM NoWorkLost == Spec => DeleteLosesNoWork
<1>1. IInv /\ [Next]_vars =>
        [Present(row) /\ ~Present(row') =>
           \A s \in Stages : calls[s] = 0 /\ ckpt[s] = NoCheckpoint]_vars
  BY RowVanishes
<1> QED BY <1>1, Invariance, PTL DEF Spec, DeleteLosesNoWork

\* A run with Evidence is never deleted, however attachments, deletes,
\* executions and crashes overlap.
THEOREM EvidenceIsKept == Spec => EvidenceKept
<1>1. IInv /\ [Next]_vars => [Present(row) /\ row.evidence => Present(row')]_vars
  BY RowVanishes DEF Untouched
<1> QED BY <1>1, Invariance, PTL DEF Spec, EvidenceKept

-----------------------------------------------------------------------------
(* One caller at a time: what a resume, an edit and a delete preserve when *)
(* any call may crash anywhere, and that whatever crashes, the executor    *)
(* implements RunLifecycle.                                                *)

Copying == {"checkpoint", "row", "file", "handler"}

\* The copy an actor is about to write back has everything the row has, its
\* completed stages are backed by checkpoints (but for the one about to be
\* written), the stage at work is not completed in the row, and nobody
\* restores the row.
Follows(label, m, r, cp) ==
  label \in Copying =>
    /\ \A s \in Stages : Complete(r, s) => Complete(m.run, s)
    /\ \A s \in Stages : r.attempts[s] <= m.run.attempts[s]
    /\ m.then \notin Restoring
    /\ \A s \in Stages : Complete(m.run, s) /\ ~(label = "checkpoint" /\ s = m.at) =>
         cp[s] = [status |-> "completed", attempt |-> m.run.attempts[s]]
    /\ label \in {"checkpoint", "handler"} => ~Complete(r, m.at)

Following == \A a \in Actors : Follows(pc[a], mem[a], row, ckpt)

\* While a delete holds the lock, and after its commit, nobody is at work
\* and the workspace is gone; the lock is held over an untouched run only.
Gone == /\ lock = "held" => ~Present(disk) /\ Untouched(row)
        /\ ~Present(row) => ~Present(disk) /\ \A a \in Actors : pc[a] = "idle"
        /\ deleted => ~Present(row)

SInv == IInv /\ AtMostOneBusy /\ CheckpointBacksRow /\ Following /\ Gone

-----------------------------------------------------------------------------
LEMMA InitSInv ==
  ASSUME Init
  PROVE  SInv
<1>1. IInv
  BY InitIInv
<1>2. AtMostOneBusy /\ Following
  BY DEF Init, AtMostOneBusy, Following, Follows, Copying
<1>3. CheckpointBacksRow /\ Gone
  BY DEF Init, CheckpointBacksRow, Gone, Complete, Present, Fresh
<1> QED BY <1>1, <1>2, <1>3 DEF SInv

\* Whoever moves is alone.
LEMMA Alone ==
  ASSUME TypeOK, AtMostOneBusy, AtMostOneBusy', NEW a \in Actors, NEW label \in PCs,
         Goto(a, label), pc[a] # "idle" \/ label # "idle"
  PROVE  /\ pc'[a] = label
         /\ \A b \in Actors \ {a} : pc'[b] = "idle"
         /\ label # "idle" => lock' # "held"
<1>1. pc' = [pc EXCEPT ![a] = label] /\ pc \in [Actors -> PCs]
  BY DEF Goto, TypeOK
<1>2. pc'[a] = label
  BY <1>1
<1>3. ASSUME NEW b \in Actors \ {a} PROVE pc'[b] = "idle"
  <2>1. CASE label # "idle"
    BY <1>2, <2>1 DEF AtMostOneBusy
  <2>2. CASE pc[a] # "idle"
    BY <1>1, <2>2 DEF AtMostOneBusy
  <2> QED BY <2>1, <2>2
<1>4. label # "idle" => lock' # "held"
  BY <1>2 DEF AtMostOneBusy
<1> QED BY <1>2, <1>3, <1>4

\* A step of one actor; `a` may write the row or its checkpoint.
LEMMA ActorSInv ==
  ASSUME SInv, IInv', AtMostOneBusy', NEW a \in Actors, NEW label \in PCs, NEW m \in Memory,
         Goto(a, label), Remember(a, m), pc[a] # "idle" \/ label # "idle",
         UNCHANGED <<lock, deleted>>, Present(row), Present(row'),
         CheckpointBacksRow', Follows(label, m, row', ckpt')
  PROVE  SInv'
<1>1. /\ pc'[a] = label
      /\ \A b \in Actors \ {a} : pc'[b] = "idle"
      /\ label # "idle" => lock' # "held"
  BY Alone DEF SInv, IInv
<1>2. mem'[a] = m
  BY DEF Remember, SInv, IInv, TypeOK
<1>3. Following'
  <2> SUFFICES ASSUME NEW b \in Actors PROVE Follows(pc'[b], mem'[b], row', ckpt')
    BY DEF Following
  <2>1. CASE b = a
    BY <1>1, <1>2, <2>1
  <2>2. CASE b # a
    BY <1>1, <2>2 DEF Follows, Copying
  <2> QED BY <2>1, <2>2
<1>4. lock # "held"
  BY <1>1 DEF SInv, AtMostOneBusy
<1>5. ~deleted
  BY DEF SInv, Gone
<1>6. Gone'
  BY <1>4, <1>5 DEF Gone
<1> QED BY <1>3, <1>6 DEF SInv

\* An actor that does not write the row or a checkpoint.
LEMMA QuietSInv ==
  ASSUME SInv, IInv', AtMostOneBusy', NEW a \in Actors, NEW label \in PCs, NEW m \in Memory,
         Goto(a, label), Remember(a, m), pc[a] # "idle" \/ label # "idle",
         UNCHANGED <<row, ckpt, lock, deleted>>, Present(row),
         Follows(label, m, row, ckpt)
  PROVE  SInv'
<1>1. CheckpointBacksRow'
  BY DEF SInv, CheckpointBacksRow, Complete
<1>2. Follows(label, m, row', ckpt') /\ Present(row')
  OBVIOUS
<1> QED BY <1>1, <1>2, ActorSInv

\* What an actor at work may assume.
LEMMA AtWork ==
  ASSUME SInv, NEW a \in Actors
  PROVE  /\ mem[a] \in Memory /\ mem[a].run \in Runs /\ mem[a].at \in Stages
         /\ mem[a].run.stage \in [Stages -> StageStatus]
         /\ mem[a].run.attempts \in [Stages -> Nat]
         /\ row \in Runs /\ row.attempts \in [Stages -> Nat] /\ row.stage \in [Stages -> StageStatus]
         /\ Local(pc[a], mem[a]) /\ Follows(pc[a], mem[a], row, ckpt)
         /\ pc[a] # "idle" => Present(row) /\ lock # "held"
<1>1. mem[a] \in Memory /\ row \in Runs /\ Local(pc[a], mem[a]) /\ lock \in {"free", "held"}
  BY Holding DEF SInv, IInv, TypeOK
<1>2. Follows(pc[a], mem[a], row, ckpt)
  BY DEF SInv, Following
<1>3. pc[a] # "idle" => Present(row) /\ lock # "held"
  BY DEF SInv, Gone, AtMostOneBusy
<1> QED BY <1>1, <1>2, <1>3 DEF Memory, Runs

\* Being blank, idle or waiting for the rescue is following anything.
LEMMA Leaving ==
  ASSUME NEW label \in {"idle", "rescue"}, NEW m, NEW r, NEW cp
  PROVE  Follows(label, m, r, cp)
  BY DEF Follows, Copying

\* One caller at a time never finds the row gone and state.json still there.
LEMMA NoRestore ==
  ASSUME SInv, NEW a \in Actors
  PROVE  /\ \A then \in Restoring : ~LoadFromDisk(a, then) /\ ~RestoreRow(a, then)
         /\ ~LoadForExecution(a) /\ ~RunIsBack(a) /\ ~RecordRestored(a) /\ ~LoadForEdit(a)
         /\ \A attaches \in BOOLEAN : ~EditRestored(a, attaches)
<1>1. \A then \in Restoring : ~LoadFromDisk(a, then)
  BY DEF LoadFromDisk, SInv, Gone
<1>2. \A then \in Restoring : ~RestoreRow(a, then)
  BY AtWork DEF RestoreRow, Follows, Copying
<1> QED BY <1>1, <1>2 DEF LoadForExecution, RunIsBack, RecordRestored, LoadForEdit,
           EditRestored, Restoring

-----------------------------------------------------------------------------
(* The steps of an execution keep SInv.                                    *)

LEMMA ExecuteSInv ==
  ASSUME SInv, AtMostOneBusy', NEW e \in Executors, NEW until \in Stages,
         NEW retryFailed \in BOOLEAN, Execute(e, until, retryFailed)
  PROVE  SInv'
<1> DEFINE reset == [s \in Stages |-> IF retryFailed /\ row.stage[s] = "failed" THEN "pending"
                                     ELSE row.stage[s]]
<1> DEFINE m == [Blank EXCEPT !.run = [row EXCEPT !.status = "running", !.stage = reset],
                              !.until = until, !.then = "advance"]
<1>1. IInv'
  BY ExecuteIInv DEF SInv
<1>2. e \in Actors /\ row \in Runs /\ row.attempts \in [Stages -> Nat] /\ Present(row)
  BY AtWork DEF Actors, Execute
<1>3. Goto(e, "row") /\ Remember(e, m)
  BY DEF Execute
<1>4. /\ m \in Memory /\ m.run.stage = reset /\ m.run.attempts = row.attempts
      /\ m.then = "advance"
  <2>1. reset \in [Stages -> StageStatus]
    BY <1>2 DEF Runs, StageStatus
  <2> HIDE DEF reset
  <2> DEFINE r == [row EXCEPT !.status = "running", !.stage = reset]
  <2>2. r \in Runs /\ r.stage = reset /\ r.attempts = row.attempts
    BY <1>2, <2>1 DEF Runs, RunStatus
  <2> HIDE DEF r
  <2>3. [Blank EXCEPT !.run = r, !.until = until, !.then = "advance"] \in Memory
        /\ [Blank EXCEPT !.run = r, !.until = until, !.then = "advance"].run = r
        /\ [Blank EXCEPT !.run = r, !.until = until, !.then = "advance"].then = "advance"
    BY <2>2, BlankFacts DEF Memory
  <2> QED BY <2>2, <2>3 DEF r
<1> HIDE DEF m
<1>5. \A s \in Stages : Complete(row, s) <=> Complete(m.run, s)
  BY <1>4 DEF Complete
<1>6. Follows("row", m, row, ckpt)
  BY <1>2, <1>4, <1>5 DEF Follows, Copying, SInv, CheckpointBacksRow, Restoring
<1> QED BY <1>1, <1>2, <1>3, <1>4, <1>6, QuietSInv DEF Execute, PCs

LEMMA WriteCheckpointSInv ==
  ASSUME SInv, AtMostOneBusy', NEW e \in Executors, WriteCheckpoint(e)
  PROVE  SInv'
<1> DEFINE m == mem[e]
<1>1. IInv' /\ e \in Actors /\ pc[e] = "checkpoint" /\ Goto(e, "row")
  BY WriteCheckpointIInv DEF SInv, Actors, WriteCheckpoint
<1>2. Remember(e, m)
  BY <1>1 DEF WriteCheckpoint, Remember, SInv, IInv, TypeOK
<1>3. ckpt' = [ckpt EXCEPT ![m.at] = [status |-> m.run.stage[m.at],
                                      attempt |-> m.run.attempts[m.at]]]
      /\ ckpt \in [Stages -> Checkpoints]
  BY DEF WriteCheckpoint, SInv, IInv, TypeOK
<1>4. m \in Memory /\ m.at \in Stages /\ Follows("checkpoint", m, row, ckpt)
  BY <1>1, AtWork
<1>5. CheckpointBacksRow'
  BY <1>3, <1>4 DEF WriteCheckpoint, SInv, CheckpointBacksRow, Follows, Copying, Complete
<1>6. Follows("row", m, row', ckpt')
  BY <1>3, <1>4 DEF WriteCheckpoint, Follows, Copying, Complete
<1> HIDE DEF m
<1> QED BY <1>1, <1>2, <1>4, <1>5, <1>6, ActorSInv DEF WriteCheckpoint, PCs

LEMMA WriteRowSInv ==
  ASSUME SInv, AtMostOneBusy', NEW a \in Actors, WriteRow(a)
  PROVE  SInv'
<1> DEFINE m == mem[a]
<1>1. IInv' /\ pc[a] = "row" /\ Goto(a, "file") /\ row' = m.run /\ ckpt' = ckpt
  BY WriteRowIInv DEF SInv, WriteRow
<1>2. Remember(a, m)
  BY DEF WriteRow, Remember, SInv, IInv, TypeOK
<1>3. m \in Memory /\ m.run \in Runs /\ m.run.attempts \in [Stages -> Nat]
      /\ Follows("row", m, row, ckpt) /\ Present(m.run) /\ Present(row)
  BY <1>1, AtWork DEF Local
<1>4. CheckpointBacksRow'
  BY <1>1, <1>3 DEF CheckpointBacksRow, Follows, Copying, Complete
<1>5. Follows("file", m, row', ckpt')
  BY <1>1, <1>3 DEF Follows, Copying
<1> HIDE DEF m
<1> QED BY <1>1, <1>2, <1>3, <1>4, <1>5, ActorSInv DEF WriteRow, PCs

LEMMA SettleSInv ==
  ASSUME SInv, IInv', AtMostOneBusy', NEW e \in Executors, pc[e] = "file",
         NEW status \in {"needs_review", "failed"},
         Remember(e, Settle(mem[e], status)), Goto(e, "row"),
         UNCHANGED <<row, ckpt, lock, deleted>>
  PROVE  SInv'
<1> DEFINE m == Settle(mem[e], status)
<1>1. e \in Actors /\ mem[e] \in Memory /\ InOrder(mem[e].run) /\ Present(row)
      /\ Follows("file", mem[e], row, ckpt)
  BY AtWork DEF Local, Actors
<1>2. m \in Memory /\ m.run.stage = mem[e].run.stage /\ m.run.attempts = mem[e].run.attempts
      /\ m.then = "stop"
  BY <1>1, SettleFacts
<1> HIDE DEF m
<1>3. Follows("row", m, row, ckpt)
  BY <1>1, <1>2 DEF Follows, Copying, Complete, Restoring
<1> QED BY <1>1, <1>2, <1>3, QuietSInv DEF PCs, m

\* A new attempt: the stage is not complete in the copy, so not in the row.
LEMMA AttemptFollows ==
  ASSUME NEW m \in Memory, InOrder(m.run), Present(m.run), Follows("file", m, row, ckpt),
         row.attempts \in [Stages -> Nat],
         NEW s \in Stages, ~Complete(m.run, s), \A t \in Stages : t < s => Complete(m.run, t),
         NEW k \in 0..MaxAttempts
  PROVE  Attempt(m, s, k) \in Memory /\ Follows("checkpoint", Attempt(m, s, k), row, ckpt)
<1> DEFINE x == Attempt(m, s, k)
<1>1. /\ x \in Memory /\ x.at = s
      /\ x.run.stage = [m.run.stage EXCEPT ![s] = "running"]
      /\ x.run.attempts = [m.run.attempts EXCEPT ![s] = m.run.attempts[s] + 1]
  BY AttemptFacts
<1>2. m.run.stage \in [Stages -> StageStatus] /\ m.run.attempts \in [Stages -> Nat]
  BY DEF Memory, Runs
<1> HIDE DEF x
<1>3. ~Complete(row, s)
  BY DEF Follows, Copying
<1>4. \A t \in Stages : /\ Complete(x.run, t) <=> t # s /\ Complete(m.run, t)
                        /\ t # s => x.run.attempts[t] = m.run.attempts[t]
                        /\ m.run.attempts[t] <= x.run.attempts[t]
  BY <1>1, <1>2 DEF Complete
<1>5. \A t \in Stages : row.attempts[t] <= x.run.attempts[t]
  BY <1>1, <1>2 DEF Follows, Copying
<1>6. x.then = "handler"
  BY DEF x, Attempt, Memory
<1>7. Follows("checkpoint", x, row, ckpt)
  BY <1>1, <1>3, <1>4, <1>5, <1>6 DEF Follows, Copying, Restoring
<1> QED BY <1>1, <1>7 DEF x

LEMMA AttemptSInv ==
  ASSUME SInv, IInv', AtMostOneBusy', NEW e \in Executors, pc[e] = "file",
         NEW s \in Stages, ~Complete(mem[e].run, s),
         \A t \in Stages : t < s => Complete(mem[e].run, t),
         NEW k \in 0..MaxAttempts,
         Remember(e, Attempt(mem[e], s, k)), Goto(e, "checkpoint"),
         UNCHANGED <<row, ckpt, lock, deleted>>
  PROVE  SInv'
<1>1. /\ e \in Actors /\ mem[e] \in Memory /\ Present(row) /\ row.attempts \in [Stages -> Nat]
      /\ InOrder(mem[e].run) /\ Present(mem[e].run)
      /\ Follows("file", mem[e], row, ckpt)
  BY AtWork DEF Local, Actors
<1>2. Attempt(mem[e], s, k) \in Memory /\ Follows("checkpoint", Attempt(mem[e], s, k), row, ckpt)
  BY <1>1, AttemptFollows
<1> QED BY <1>1, <1>2, QuietSInv DEF PCs

LEMMA EnterHandlerSInv ==
  ASSUME SInv, AtMostOneBusy', NEW e \in Executors, EnterHandler(e)
  PROVE  SInv'
<1>1. /\ IInv' /\ e \in Actors /\ mem[e] \in Memory /\ mem[e].at \in Stages /\ Present(row)
      /\ Follows("file", mem[e], row, ckpt) /\ Local("file", mem[e])
  BY EnterHandlerIInv, AtWork DEF SInv, Actors, EnterHandler, WriteFile
<1>2. Remember(e, mem[e])
  BY DEF EnterHandler, Remember, SInv, IInv, TypeOK
<1>3. ~Complete(row, mem[e].at)
  BY <1>1 DEF Follows, Copying, Local, EnterHandler, Complete
<1>4. Follows("handler", mem[e], row, ckpt)
  BY <1>1, <1>3 DEF Follows, Copying
<1> QED BY <1>1, <1>2, <1>4, QuietSInv DEF EnterHandler, WriteFile, PCs

\* A stage completes or fails.
LEMMA OutcomeFollows ==
  ASSUME NEW m \in Memory, Local("handler", m), NEW base, SameProgress(base, m.run),
         NEW outcome \in {"completed", "failed"}, NEW next \in {"advance", "retry", "fail"},
         next = "retry" => outcome = "failed" /\ m.tries < MaxAttempts,
         Follows("handler", m, row, ckpt)
  PROVE  /\ Outcome(m, base, outcome, next) \in Memory
         /\ Follows("checkpoint", Outcome(m, base, outcome, next), row, ckpt)
<1> DEFINE x == Outcome(m, base, outcome, next)
<1>1. /\ x \in Memory /\ x.at = m.at
      /\ x.run.stage = [m.run.stage EXCEPT ![m.at] = outcome]
      /\ x.run.attempts = m.run.attempts
  <2>1. Closes(m, outcome, x)
    BY OutcomeFacts
  <2> QED BY <2>1 DEF Closes
<1>2. m.at \in Stages /\ m.run.stage \in [Stages -> StageStatus]
  BY DEF Memory, Runs
<1>3. x.then = next
  BY DEF Outcome, Memory
<1> HIDE DEF x
<1>4. \A t \in Stages : t # x.at => (Complete(x.run, t) <=> Complete(m.run, t))
  BY <1>1, <1>2 DEF Complete
<1>5. Follows("checkpoint", x, row, ckpt)
  BY <1>1, <1>2, <1>3, <1>4 DEF Follows, Copying, Restoring
<1> QED BY <1>1, <1>5 DEF x

LEMMA OutcomeSInv ==
  ASSUME SInv, IInv', AtMostOneBusy', NEW e \in Executors, NEW refresh \in BOOLEAN,
         pc[e] = "handler", NEW outcome \in {"completed", "failed"},
         NEW next \in {"advance", "retry", "fail"},
         next = "retry" => outcome = "failed" /\ mem[e].tries < MaxAttempts,
         Remember(e, Outcome(mem[e], Refreshed(mem[e].run, refresh), outcome, next)),
         Goto(e, "checkpoint"), UNCHANGED <<row, ckpt, lock, deleted>>
  PROVE  SInv'
<1> DEFINE base == Refreshed(mem[e].run, refresh)
<1> DEFINE m == Outcome(mem[e], base, outcome, next)
<1>1. /\ e \in Actors /\ mem[e] \in Memory /\ mem[e].run \in Runs /\ row \in Runs
      /\ Present(row) /\ Local("handler", mem[e]) /\ Follows("handler", mem[e], row, ckpt)
  BY AtWork DEF Actors
<1>2. SameProgress(base, mem[e].run)
  BY <1>1, RefreshedFacts
<1>3. Remember(e, m)
  OBVIOUS
<1> HIDE DEF base
<1>4. m \in Memory /\ Follows("checkpoint", m, row, ckpt)
  BY <1>1, <1>2, OutcomeFollows
<1> HIDE DEF m
<1> QED BY <1>1, <1>3, <1>4, QuietSInv DEF PCs

\* Returns, crashes and exceptions.
LEMMA LeaveSInv ==
  ASSUME SInv, IInv', AtMostOneBusy', NEW a \in Actors, NEW label \in {"idle", "rescue"},
         pc[a] # "idle" \/ label # "idle", Present(row),
         Goto(a, label), Remember(a, Blank), UNCHANGED <<row, ckpt, lock, deleted>>
  PROVE  SInv'
  BY BlankFacts, Leaving, QuietSInv DEF PCs

LEMMA RescueSInv ==
  ASSUME SInv, AtMostOneBusy', NEW e \in Executors, Rescue(e)
  PROVE  SInv'
<1>1. IInv' /\ e \in Actors /\ Present(row) /\ pc[e] = "rescue" /\ row \in Runs
      /\ InOrder(row) /\ row.attempts \in [Stages -> Nat]
  BY RescueIInv, Holding, AtWork DEF SInv, Actors, Rescue
<1>2. Goto(e, "row") /\ Remember(e, Failure(row))
  BY <1>1 DEF Rescue, LoadFromDisk
<1>3. /\ Failure(row) \in Memory /\ Failure(row).then = "record"
      /\ Failure(row).run.stage = row.stage /\ Failure(row).run.attempts = row.attempts
  BY <1>1, FailureFacts
<1>4. Follows("row", Failure(row), row, ckpt)
  BY <1>1, <1>3 DEF Follows, Copying, SInv, CheckpointBacksRow, Complete, Restoring
<1> QED BY <1>1, <1>2, <1>3, <1>4, QuietSInv DEF Rescue, PCs

-----------------------------------------------------------------------------
(* API edits and deletes keep SInv.                                        *)

LEMMA EditSInv ==
  ASSUME SInv, AtMostOneBusy', NEW c \in Clients, NEW attaches \in BOOLEAN, Edit(c, attaches)
  PROVE  SInv'
<1> DEFINE m == Edited(Blank, row, attaches)
<1>1. IInv' /\ c \in Actors /\ Present(row) /\ row \in Runs /\ InOrder(row)
      /\ row.attempts \in [Stages -> Nat]
  BY EditIInv, Holding, AtWork DEF SInv, Actors, Edit
<1>2. /\ m \in Memory /\ m.then = "stop" /\ m.run.stage = row.stage
      /\ m.run.attempts = row.attempts
  BY <1>1, EditedFacts, BlankFacts
<1> HIDE DEF m
<1>3. Follows("row", m, row, ckpt)
  BY <1>1, <1>2 DEF Follows, Copying, SInv, CheckpointBacksRow, Complete, Restoring
<1> QED BY <1>1, <1>2, <1>3, QuietSInv DEF Edit, PCs, m

LEMMA DeleteSInv ==
  ASSUME SInv, AtMostOneBusy', Delete
  PROVE  SInv'
<1>1. IInv' /\ UNCHANGED <<pc, mem>>
  BY DeleteIInv DEF SInv, Delete, DeleteArchive, DeleteCommit, DeleteRollback, DeleteCrash
<1>2. ~Present(Absent) /\ \A s \in Stages : ~Complete(Absent, s)
  BY DEF Absent, Fresh, Present, Complete
<1>3. CASE DeleteArchive
  <2>1. CheckpointBacksRow' /\ Following'
    BY <1>3 DEF DeleteArchive, SInv, CheckpointBacksRow, Following
  <2>2. Gone'
    BY <1>2, <1>3 DEF DeleteArchive, SInv, Gone, Untouched, Present
  <2> QED BY <1>1, <2>1, <2>2 DEF SInv
<1>4. CASE DeleteCommit
  <2>1. \A a \in Actors : pc'[a] = "idle"
    BY <1>1, <1>4 DEF DeleteCommit, SInv, AtMostOneBusy
  <2>2. CheckpointBacksRow' /\ Following'
    BY <1>2, <1>4, <2>1 DEF DeleteCommit, CheckpointBacksRow, Following, Follows, Copying
  <2>3. Gone'
    BY <1>2, <1>4, <2>1 DEF DeleteCommit, SInv, Gone
  <2> QED BY <1>1, <2>2, <2>3 DEF SInv
<1>5. CASE DeleteRollback \/ DeleteCrash
  <2>1. CheckpointBacksRow' /\ Following'
    BY <1>5 DEF DeleteRollback, DeleteCrash, SInv, CheckpointBacksRow, Following
  <2>2. Gone'
    BY <1>5 DEF DeleteRollback, DeleteCrash, SInv, Gone, Untouched, Present
  <2> QED BY <1>1, <2>1, <2>2 DEF SInv
<1> QED BY <1>3, <1>4, <1>5 DEF Delete

-----------------------------------------------------------------------------
(* The theorems.                                                           *)

LEMMA StepSInv ==
  ASSUME SInv, AtMostOneBusy', NEW e \in Executors, Step(e)
  PROVE  SInv'
<1>1. IInv'
  BY NextIInv DEF SInv, Next
<1>2. CASE Pause(e)
  BY <1>1, <1>2, SettleSInv DEF Pause, WriteFile
<1>3. CASE GiveUp(e)
  BY <1>1, <1>3, SettleSInv DEF GiveUp, WriteFile
<1>4. ASSUME NEW s \in Stages, Advance(e, s) PROVE SInv'
  BY <1>1, <1>4, AttemptSInv, BoundsAssumption DEF Advance, WriteFile, Due
<1>5. CASE Retry(e)
  <2>1. /\ mem[e].at \in Stages /\ InOrder(mem[e].run) /\ mem[e].run.stage[mem[e].at] = "failed"
        /\ mem[e].tries + 1 \in 0..MaxAttempts
    BY <1>5, AtWork, BoundsAssumption DEF Retry, WriteFile, Local, Memory, Actors
  <2>2. /\ ~Complete(mem[e].run, mem[e].at)
        /\ \A t \in Stages : t < mem[e].at => Complete(mem[e].run, t)
    BY <2>1 DEF InOrder, Complete
  <2> QED BY <1>1, <1>5, <2>1, <2>2, AttemptSInv DEF Retry, WriteFile
<1>6. ASSUME NEW refresh \in BOOLEAN, HandlerSucceeds(e, refresh) PROVE SInv'
  BY <1>1, <1>6, OutcomeSInv DEF HandlerSucceeds
<1>7. ASSUME NEW refresh \in BOOLEAN, NEW retryable \in BOOLEAN,
             HandlerFails(e, retryable, refresh)
      PROVE  SInv'
  BY <1>1, <1>7, OutcomeSInv DEF HandlerFails
<1>8. CASE Finish(e)
  BY <1>1, <1>8, LeaveSInv, AtWork DEF Finish, WriteFile, Return, Actors
<1>9. CASE pc[e] # "idle" /\ Raise(e)
  BY <1>1, <1>9, LeaveSInv, AtWork DEF Raise, Actors
<1> QED BY <1>2, <1>3, <1>4, <1>5, <1>6, <1>7, <1>8, <1>9, WriteCheckpointSInv, WriteRowSInv,
           EnterHandlerSInv, RescueSInv, NoRestore
        DEF Step, Actors

LEMMA NextSInv ==
  ASSUME SInv, [SerialNext]_vars
  PROVE  SInv'
<1>1. CASE UNCHANGED vars
  BY <1>1 DEF vars, SInv, IInv, TypeOK, Ordered, Working, Recorded, AtMostOneBusy,
     CheckpointBacksRow, Following, Gone
<1> SUFFICES ASSUME Next, AtMostOneBusy' PROVE SInv'
  BY <1>1 DEF SerialNext
<1>2. IInv'
  BY NextIInv DEF SInv
<1>3. CASE \E e \in Executors : Start(e)
  <2> SUFFICES ASSUME NEW e \in Executors, pc[e] = "idle" /\ Raise(e) PROVE SInv'
    BY <1>3, ExecuteSInv, NoRestore DEF Start, Actors
  <2> QED BY <1>2, LeaveSInv DEF Raise, Actors
<1>4. CASE \E e \in Executors : Step(e)
  BY <1>4, StepSInv
<1>5. ASSUME NEW c \in Clients, Request(c) PROVE SInv'
  <2>1. CASE Finish(c)
    BY <1>2, <2>1, LeaveSInv, AtWork DEF Finish, WriteFile, Return, Actors
  <2> QED BY <1>5, <2>1, EditSInv, NoRestore, WriteRowSInv DEF Request, Actors
<1>6. CASE \E a \in Actors : Crash(a)
  BY <1>2, <1>6, LeaveSInv, AtWork DEF Crash, Return
<1>7. CASE Delete
  BY <1>7, DeleteSInv
<1> QED BY <1>3, <1>4, <1>5, <1>6, <1>7 DEF Next

THEOREM SerialInvariance == SerialSpec => []SInv
<1>1. Init => SInv
  BY InitSInv
<1>2. SInv /\ [SerialNext]_vars => SInv'
  BY NextSInv
<1> QED BY <1>1, <1>2, PTL DEF SerialSpec

\* One caller at a time, any crash: what the row calls completed is backed
\* by a completed checkpoint for the same attempt.
THEOREM SerialCheckpoints == SerialSpec => []CheckpointBacksRow
<1>1. SInv => CheckpointBacksRow
  BY DEF SInv
<1> QED BY <1>1, SerialInvariance, PTL

\* One caller at a time: what is deleted stays deleted.
THEOREM SerialDelete == SerialSpec => []DeletedStaysDeleted
<1>1. SInv => DeletedStaysDeleted
  BY DEF SInv, Gone, DeletedStaysDeleted
<1> QED BY <1>1, SerialInvariance, PTL

\* A step that changes the row writes a copy that follows it, or deletes an
\* untouched run.
LEMMA RowFollowed ==
  ASSUME SInv, [SerialNext]_vars
  PROVE  \/ row' = row
         \/ \E a \in Actors : row' = mem[a].run /\ Follows("row", mem[a], row, ckpt)
         \/ row' = Absent /\ Untouched(row)
<1>1. \A a \in Actors : Follows(pc[a], mem[a], row, ckpt)
  BY DEF SInv, Following
<1>2. lock = "held" => Untouched(row)
  BY DEF SInv, Gone
<1> QED BY <1>1, <1>2 DEF SerialNext, Next, vars, Start, Step, Request, Delete, Actors, Execute,
     Raise, WriteCheckpoint, WriteRow, Pause, Advance, EnterHandler, Retry, GiveUp, Finish,
     HandlerSucceeds, HandlerFails, Rescue, LoadForExecution, RunIsBack,
     RecordRestored, Edit, LoadForEdit, EditRestored, RestoreRow, LoadFromDisk, Crash,
     DeleteArchive, DeleteCommit, DeleteRollback, DeleteCrash

\* One caller at a time, any crash: a resume keeps completed stages and the
\* lifetime attempt counts.
THEOREM SerialProgress == SerialSpec => ResumeKeepsProgress
<1> DEFINE Kept == \A s \in Stages : /\ Complete(row, s) => Complete(row', s)
                                     /\ row'.attempts[s] >= row.attempts[s]
<1>1. ASSUME SInv, [SerialNext]_vars
      PROVE  Kept
  <2>1. row.attempts \in [Stages -> Nat]
    BY <1>1 DEF SInv, IInv, TypeOK, Runs
  <2>2. CASE row' = row
    BY <2>1, <2>2
  <2>3. ASSUME NEW a \in Actors, row' = mem[a].run, Follows("row", mem[a], row, ckpt)
        PROVE  Kept
    <3>1. mem[a].run.attempts \in [Stages -> Nat]
      BY <1>1, AtWork
    <3> QED BY <2>1, <2>3, <3>1 DEF Follows, Copying
  <2>4. CASE row' = Absent /\ Untouched(row)
    <3>1. \A s \in Stages : ~Complete(row, s) /\ row.attempts[s] = 0
      BY <2>4 DEF Untouched, Complete
    <3>2. \A s \in Stages : row'.attempts[s] = 0
      BY <2>4 DEF Absent, Fresh
    <3> QED BY <3>1, <3>2
  <2> QED BY <1>1, <2>2, <2>3, <2>4, RowFollowed
<1>2. SInv /\ [SerialNext]_vars => [Kept]_vars
  BY <1>1
<1> QED BY <1>2, SerialInvariance, PTL DEF SerialSpec, ResumeKeepsProgress

-----------------------------------------------------------------------------
(* The account of attempts.                                                *)

\* The attempts that n executions may spend on one stage.
Spent(n) == MaxAttempts * n

\* A copy being written back has spent no more than its executions allow: on a
\* stage that is not complete, those of earlier executions and the attempts of
\* this one.  A handler is called once its attempt is in the row.
Accounts(label, m) ==
  label \in Copying =>
    /\ \A s \in Stages : m.run.attempts[s] <= Spent(execs)
    /\ label = "file" => row.attempts = m.run.attempts
    /\ label # "handler" /\ m.then = "handler" => calls[m.at] < m.run.attempts[m.at]
    /\ m.then \in {"advance", "handler", "retry"} =>
         /\ execs > 0
         /\ \A s \in Stages : ~Complete(m.run, s) =>
              m.run.attempts[s] <= Spent(execs - 1) + (IF s = m.at THEN m.tries ELSE 0)
    /\ m.then = "advance" => m.tries = 0 \/ Complete(m.run, m.at)

Accounted == \A a \in Actors : Accounts(pc[a], mem[a])

AccountInv == SInv /\ AttemptsAccounted /\ Accounted

LEMMA SpentFacts ==
  /\ \A n \in Nat : Spent(n) \in Nat /\ Spent(n + 1) = Spent(n) + MaxAttempts
  /\ \A n \in Nat : n > 0 => n - 1 \in Nat /\ Spent(n) = Spent(n - 1) + MaxAttempts
  BY BoundsAssumption DEF Spent

\* What an actor at work may assume of its account.
LEMMA AccountAtWork ==
  ASSUME AccountInv, NEW a \in Actors
  PROVE  /\ SInv /\ IInv /\ Accounts(pc[a], mem[a]) /\ execs \in Nat
         /\ calls \in [Stages -> Nat]
         /\ Present(row) => \A s \in Stages : calls[s] <= row.attempts[s]
                                              /\ row.attempts[s] <= Spent(execs)
  BY BoundsAssumption DEF AccountInv, Accounted, SInv, IInv, TypeOK, AttemptsAccounted, Spent

LEMMA ActorAccount ==
  ASSUME AccountInv, SInv', AtMostOneBusy', NEW a \in Actors, NEW label \in PCs, NEW m \in Memory,
         Goto(a, label), Remember(a, m), pc[a] # "idle" \/ label # "idle",
         AttemptsAccounted', Accounts(label, m)'
  PROVE  AccountInv'
<1>1. /\ pc'[a] = label
      /\ \A b \in Actors \ {a} : pc'[b] = "idle"
  BY Alone DEF AccountInv, SInv, IInv
<1>2. mem'[a] = m
  BY DEF Remember, AccountInv, SInv, IInv, TypeOK
<1>3. Accounted'
  <2> SUFFICES ASSUME NEW b \in Actors PROVE Accounts(pc[b], mem[b])'
    BY DEF Accounted
  <2>1. CASE b = a
    BY <1>1, <1>2, <2>1 DEF Accounts
  <2>2. CASE b # a
    BY <1>1, <2>2 DEF Accounts, Copying
  <2> QED BY <2>1, <2>2
<1> QED BY <1>3 DEF AccountInv

\* A step that changes neither the row nor the history needs a copy only.
LEMMA QuietAccount ==
  ASSUME AccountInv, SInv', AtMostOneBusy', NEW a \in Actors, NEW label \in PCs, NEW m \in Memory,
         Goto(a, label), Remember(a, m), pc[a] # "idle" \/ label # "idle",
         UNCHANGED <<row, calls, execs>>, Accounts(label, m)
  PROVE  AccountInv'
<1>1. AttemptsAccounted'
  BY DEF AccountInv, AttemptsAccounted, Present
<1>2. Accounts(label, m)'
  BY DEF Accounts, Complete
<1> QED BY <1>1, <1>2, ActorAccount

LEMMA ExecuteAccount ==
  ASSUME AccountInv, SInv', AtMostOneBusy', NEW e \in Executors, NEW until \in Stages,
         NEW retryFailed \in BOOLEAN, Execute(e, until, retryFailed)
  PROVE  AccountInv'
<1> DEFINE reset == [s \in Stages |-> IF retryFailed /\ row.stage[s] = "failed" THEN "pending"
                                     ELSE row.stage[s]]
           m == [Blank EXCEPT !.run = [row EXCEPT !.status = "running", !.stage = reset],
                              !.until = until, !.then = "advance"]
<1>1. /\ e \in Actors /\ row \in Runs /\ Present(row) /\ SInv /\ execs \in Nat
      /\ row.attempts \in [Stages -> Nat] /\ row.stage \in [Stages -> StageStatus]
      /\ \A s \in Stages : calls[s] <= row.attempts[s] /\ row.attempts[s] <= Spent(execs)
  BY AccountAtWork, AtWork DEF Actors, Execute
<1>2. m \in Memory /\ m.run.attempts = row.attempts /\ m.tries = 0 /\ m.then = "advance"
  <2>1. reset \in [Stages -> StageStatus]
    BY <1>1 DEF StageStatus
  <2> HIDE DEF reset
  <2> DEFINE r == [row EXCEPT !.status = "running", !.stage = reset]
  <2>2. r \in Runs /\ r.attempts = row.attempts
    BY <1>1, <2>1 DEF Runs, RunStatus
  <2> HIDE DEF r
  <2>3. /\ [Blank EXCEPT !.run = r, !.until = until, !.then = "advance"] \in Memory
        /\ [Blank EXCEPT !.run = r, !.until = until, !.then = "advance"].run = r
        /\ [Blank EXCEPT !.run = r, !.until = until, !.then = "advance"].tries = 0
        /\ [Blank EXCEPT !.run = r, !.until = until, !.then = "advance"].then = "advance"
    BY <2>2, BlankFacts DEF Memory, Blank
  <2> QED BY <2>2, <2>3 DEF r
<1>3. Goto(e, "row") /\ Remember(e, m) /\ execs' = execs + 1 /\ row' = row /\ calls' = calls
  BY DEF Execute
<1> HIDE DEF m
<1> PICK x \in Memory : /\ x = m /\ x.run.attempts = row.attempts /\ x.tries = 0
                        /\ x.then = "advance"
  BY <1>2
<1>4. /\ Spent(execs) \in Nat /\ Spent(execs') = Spent(execs) + MaxAttempts
      /\ execs' > 0 /\ execs' - 1 = execs
  BY <1>1, <1>3, SpentFacts
<1>5. \A s \in Stages : row.attempts[s] <= Spent(execs')
  BY <1>1, <1>4, BoundsAssumption
<1>6. AttemptsAccounted'
  BY <1>1, <1>3, <1>5 DEF AttemptsAccounted, Spent
<1>7. \A s \in Stages : row.attempts[s] <= Spent(execs' - 1) + (IF s = x.at THEN x.tries ELSE 0)
  BY <1>1, <1>4
<1>8. Accounts("row", x)'
  BY <1>3, <1>4, <1>5, <1>7 DEF Accounts, Spent
<1> QED BY <1>1, <1>3, <1>6, <1>8, ActorAccount DEF PCs

LEMMA WriteAccount ==
  ASSUME AccountInv, SInv', AtMostOneBusy', NEW a \in Actors, WriteRow(a)
  PROVE  AccountInv'
<1> PICK m \in Memory : /\ m = mem[a] /\ Follows("row", m, row, ckpt) /\ Accounts("row", m)
                        /\ m.run.attempts \in [Stages -> Nat] /\ SInv
  BY AccountAtWork, AtWork DEF WriteRow
<1>1. /\ execs \in Nat /\ calls \in [Stages -> Nat] /\ row.attempts \in [Stages -> Nat]
      /\ \A s \in Stages : calls[s] <= row.attempts[s]
  BY AccountAtWork, AtWork DEF WriteRow
<1>2. Goto(a, "file") /\ Remember(a, m) /\ row' = m.run /\ calls' = calls /\ execs' = execs
  BY DEF WriteRow, Remember, SInv, IInv, TypeOK
<1>3. \A s \in Stages : calls[s] <= m.run.attempts[s] /\ m.run.attempts[s] <= Spent(execs)
  BY <1>1 DEF Accounts, Copying, Follows
<1>4. AttemptsAccounted'
  BY <1>2, <1>3 DEF AttemptsAccounted, Spent
<1>5. Accounts("file", m)'
  BY <1>2 DEF Accounts, Copying
<1> QED BY <1>2, <1>4, <1>5, ActorAccount DEF PCs, WriteRow

\* A new attempt at stage s, the k-th of this execution.
LEMMA AttemptAccount ==
  ASSUME AccountInv, SInv', AtMostOneBusy', NEW e \in Executors, pc[e] = "file",
         mem[e].then \in {"advance", "retry"},
         NEW s \in Stages, ~Complete(mem[e].run, s),
         \A t \in Stages : t < s => Complete(mem[e].run, t),
         NEW k \in 1..MaxAttempts,
         k = (IF s = mem[e].at THEN mem[e].tries ELSE 0) + 1,
         Remember(e, Attempt(mem[e], s, k)), Goto(e, "checkpoint"),
         UNCHANGED <<row, calls, execs>>
  PROVE  AccountInv'
<1> PICK m \in Memory : /\ m = mem[e] /\ Follows("file", m, row, ckpt) /\ Accounts("file", m)
                        /\ m.run.attempts \in [Stages -> Nat] /\ m.run.stage \in [Stages -> StageStatus]
                        /\ InOrder(m.run) /\ Present(m.run)
  BY AccountAtWork, AtWork DEF Actors, Local
<1>1. /\ execs \in Nat /\ calls \in [Stages -> Nat] /\ row.attempts \in [Stages -> Nat]
      /\ \A t \in Stages : calls[t] <= row.attempts[t]
  BY AccountAtWork, AtWork DEF Actors
<1> DEFINE x == Attempt(m, s, k)
<1>2. /\ x \in Memory /\ x.at = s /\ Local("checkpoint", x)
      /\ x.run.stage = [m.run.stage EXCEPT ![s] = "running"]
      /\ x.run.attempts = [m.run.attempts EXCEPT ![s] = m.run.attempts[s] + 1]
  BY AttemptFacts, BoundsAssumption
<1>3. x.tries = k /\ x.then = "handler"
  BY DEF Attempt, Memory
<1>4. /\ execs > 0 /\ Spent(execs - 1) \in Nat /\ Spent(execs) = Spent(execs - 1) + MaxAttempts
      /\ \A t \in Stages : ~Complete(m.run, t) =>
           m.run.attempts[t] <= Spent(execs - 1) + (IF t = m.at THEN m.tries ELSE 0)
      /\ \A t \in Stages : m.run.attempts[t] <= Spent(execs)
  BY <1>1, SpentFacts DEF Accounts, Copying
<1>5. \A t \in Stages \ {s} : ~Complete(m.run, t) => m.run.attempts[t] <= Spent(execs - 1)
  <2> SUFFICES ASSUME NEW t \in Stages \ {s}, ~Complete(m.run, t), t = m.at
               PROVE  m.run.attempts[t] <= Spent(execs - 1)
    BY <1>4
  <2>1. CASE m.then = "advance"
    BY <1>4, <2>1 DEF Accounts, Copying
  <2>2. CASE m.then = "retry"
    <3>1. m.run.stage[m.at] = "failed"
      BY <2>2, AccountAtWork, AtWork DEF Actors, Local
    <3>2. s < m.at
      BY DEF Stages
    <3> QED BY <3>1, <3>2 DEF InOrder, Complete
  <2> QED BY <2>1, <2>2
<1> HIDE DEF x
<1> PICK spent \in Nat, all \in Nat : spent = Spent(execs - 1) /\ all = Spent(execs)
                                    /\ all = spent + MaxAttempts
  BY <1>4, BoundsAssumption
<1>6. m.tries \in Nat /\ m.at \in Stages /\ MaxAttempts \in Nat /\ k \in Nat /\ k <= MaxAttempts
  BY BoundsAssumption DEF Memory
<1>7. m.run.attempts[s] + 1 <= spent + k
  <2>1. m.run.attempts[s] \in Nat
    OBVIOUS
  <2>2. CASE s = m.at
    BY <1>4, <1>6, <2>1, <2>2
  <2>3. CASE s # m.at
    BY <1>4, <1>6, <2>1, <2>3
  <2> QED BY <2>2, <2>3
<1>8. \A t \in Stages : x.run.attempts[t] = IF t = s THEN m.run.attempts[s] + 1
                                                      ELSE m.run.attempts[t]
  BY <1>2
<1>9. \A t \in Stages \ {s} : Complete(x.run, t) <=> Complete(m.run, t)
  BY <1>2 DEF Complete
<1>10. \A t \in Stages : ~Complete(x.run, t) =>
         x.run.attempts[t] <= Spent(execs - 1) + (IF t = s THEN k ELSE 0)
  <2> SUFFICES ASSUME NEW t \in Stages, ~Complete(x.run, t)
               PROVE  x.run.attempts[t] <= spent + (IF t = s THEN k ELSE 0)
    OBVIOUS
  <2>1. CASE t = s
    BY <1>7, <1>8, <2>1
  <2>2. CASE t # s
    BY <1>5, <1>8, <1>9, <2>2
  <2> QED BY <2>1, <2>2
<1>11. \A t \in Stages : x.run.attempts[t] <= Spent(execs)
  <2> SUFFICES ASSUME NEW t \in Stages PROVE x.run.attempts[t] <= all
    OBVIOUS
  <2>1. CASE t = s
    BY <1>6, <1>7, <1>8, <2>1
  <2>2. CASE t # s
    BY <1>4, <1>8, <2>2
  <2> QED BY <2>1, <2>2
<1>12. calls[s] < x.run.attempts[s]
  BY <1>1, <1>2 DEF Follows, Copying
<1>13. Accounts("checkpoint", x)
  BY <1>2, <1>3, <1>4, <1>10, <1>11, <1>12 DEF Accounts
<1> QED BY <1>2, <1>13, QuietAccount DEF PCs, Actors, x

LEMMA EnterHandlerAccount ==
  ASSUME AccountInv, SInv', AtMostOneBusy', NEW e \in Executors, EnterHandler(e)
  PROVE  AccountInv'
<1> PICK m \in Memory : /\ m = mem[e] /\ Accounts("file", m) /\ m.then = "handler" /\ m.at \in Stages
                        /\ m.run.attempts \in [Stages -> Nat]
  BY AccountAtWork, AtWork DEF Actors, EnterHandler, WriteFile
<1>1. /\ execs \in Nat /\ calls \in [Stages -> Nat] /\ row.attempts = m.run.attempts
      /\ \A t \in Stages : calls[t] <= row.attempts[t] /\ row.attempts[t] <= Spent(execs)
      /\ calls[m.at] < m.run.attempts[m.at]
  BY AccountAtWork, AtWork DEF Actors, EnterHandler, WriteFile, Accounts, Copying
<1>2. /\ Goto(e, "handler") /\ Remember(e, m) /\ row' = row /\ execs' = execs
      /\ calls' = [calls EXCEPT ![m.at] = calls[m.at] + 1]
  BY DEF EnterHandler, Remember, SInv, IInv, TypeOK, AccountInv
<1>3. \A t \in Stages : calls'[t] <= row.attempts[t]
  BY <1>1, <1>2
<1>4. AttemptsAccounted'
  BY <1>1, <1>2, <1>3 DEF AttemptsAccounted, Spent
<1>5. Accounts("handler", m)'
  BY <1>2 DEF Accounts, Copying
<1> QED BY <1>2, <1>4, <1>5, ActorAccount DEF PCs, Actors

\* A stage closes: no attempt is added, and a stage that succeeded may be the
\* stage at work when the loop goes on.
LEMMA OutcomeAccount ==
  ASSUME AccountInv, SInv', AtMostOneBusy', NEW e \in Executors, pc[e] = "handler",
         NEW refresh \in BOOLEAN, NEW outcome \in {"completed", "failed"},
         NEW next \in {"advance", "retry", "fail"},
         next = "retry" => outcome = "failed" /\ mem[e].tries < MaxAttempts,
         next = "advance" => outcome = "completed",
         Remember(e, Outcome(mem[e], Refreshed(mem[e].run, refresh), outcome, next)),
         Goto(e, "checkpoint"), UNCHANGED <<row, calls, execs>>
  PROVE  AccountInv'
<1> PICK m \in Memory : /\ m = mem[e] /\ Local("handler", m) /\ Accounts("handler", m)
                        /\ m.run \in Runs /\ m.at \in Stages /\ row \in Runs
                        /\ m.run.stage \in [Stages -> StageStatus]
  BY AccountAtWork, AtWork DEF Actors
<1> DEFINE base == Refreshed(m.run, refresh)
           x == Outcome(m, base, outcome, next)
<1>1. SameProgress(base, m.run)
  BY RefreshedFacts
<1>2. Remember(e, x)
  OBVIOUS
<1>3. x.then = next /\ x.tries = m.tries
  BY DEF Outcome, Memory
<1> HIDE DEF base
<1>4. Closes(m, outcome, x)
  BY <1>1, OutcomeFacts
<1> HIDE DEF x
<1>5. /\ x \in Memory /\ x.at = m.at /\ x.run.attempts = m.run.attempts
      /\ x.run.stage = [m.run.stage EXCEPT ![m.at] = outcome]
  BY <1>4 DEF Closes
<1>6. /\ ~Complete(m.run, m.at)
      /\ \A s \in Stages : Complete(m.run, s) => Complete(x.run, s)
      /\ outcome = "completed" => Complete(x.run, x.at)
  BY <1>5 DEF Local, Complete
<1>7. m.then = "handler"
  BY DEF Local
<1>8. Accounts("checkpoint", x)
  BY <1>3, <1>5, <1>6, <1>7 DEF Accounts, Copying
<1> QED BY <1>2, <1>5, <1>8, QuietAccount DEF PCs, Actors

\* Settling, editing and recording a failure add no attempt and close the copy.
LEMMA ClosingAccount ==
  ASSUME AccountInv, SInv', AtMostOneBusy', NEW a \in Actors, NEW m \in Memory,
         Goto(a, "row"), Remember(a, m), UNCHANGED <<row, calls, execs>>,
         m.then \in {"stop", "record"},
         \A s \in Stages : m.run.attempts[s] <= Spent(execs)
  PROVE  AccountInv'
<1>1. Accounts("row", m)
  BY DEF Accounts
<1> QED BY <1>1, QuietAccount DEF PCs

LEMMA SettleAccount ==
  ASSUME AccountInv, SInv', AtMostOneBusy', NEW e \in Executors, pc[e] = "file",
         NEW status \in {"needs_review", "failed"},
         Remember(e, Settle(mem[e], status)), Goto(e, "row"), UNCHANGED <<row, calls, execs>>
  PROVE  AccountInv'
<1>1. /\ e \in Actors /\ mem[e] \in Memory /\ InOrder(mem[e].run) /\ Accounts("file", mem[e])
  BY AccountAtWork, AtWork DEF Local, Actors
<1>2. /\ Settle(mem[e], status) \in Memory /\ Settle(mem[e], status).then = "stop"
      /\ Settle(mem[e], status).run.attempts = mem[e].run.attempts
  BY <1>1, SettleFacts
<1> QED BY <1>1, <1>2, ClosingAccount DEF Accounts, Copying

LEMMA LeaveAccount ==
  ASSUME AccountInv, SInv', AtMostOneBusy', NEW a \in Actors, NEW label \in {"idle", "rescue"},
         pc[a] # "idle" \/ label # "idle",
         Goto(a, label), Remember(a, Blank), UNCHANGED <<row, calls>>, execs' \in {execs, execs + 1}
  PROVE  AccountInv'
<1>1. /\ execs \in Nat /\ row.attempts \in [Stages -> Nat] /\ Spent(execs) \in Nat
      /\ Spent(execs + 1) = Spent(execs) + MaxAttempts
      /\ Present(row) => \A s \in Stages : calls[s] <= row.attempts[s]
                                           /\ row.attempts[s] <= Spent(execs)
  BY AccountAtWork, AtWork, SpentFacts
<1>2. Spent(execs') \in Nat /\ Spent(execs') >= Spent(execs)
  BY <1>1, BoundsAssumption
<1>3. Present(row) => \A s \in Stages : row.attempts[s] <= Spent(execs')
  BY <1>1, <1>2
<1>4. AttemptsAccounted'
  BY <1>1, <1>3 DEF AttemptsAccounted, Spent, Present
<1>5. Accounts(label, Blank)'
  BY DEF Accounts, Copying
<1> QED BY <1>4, <1>5, BlankFacts, ActorAccount DEF PCs

LEMMA AdvanceAccount ==
  ASSUME AccountInv, SInv', AtMostOneBusy', NEW e \in Executors, NEW s \in Stages, Advance(e, s)
  PROVE  AccountInv'
<1>1. /\ Accounts("file", mem[e]) /\ mem[e].then = "advance" /\ ~Complete(mem[e].run, s)
      /\ \A t \in Stages : t < s => Complete(mem[e].run, t)
  BY AccountAtWork DEF Advance, WriteFile, Due, Actors
<1>2. 1 = (IF s = mem[e].at THEN mem[e].tries ELSE 0) + 1
  BY <1>1 DEF Accounts, Copying
<1>3. 1 \in 1..MaxAttempts
  BY BoundsAssumption
<1> QED BY <1>1, <1>2, <1>3, AttemptAccount DEF Advance, WriteFile

LEMMA RetryAccount ==
  ASSUME AccountInv, SInv', AtMostOneBusy', NEW e \in Executors, Retry(e)
  PROVE  AccountInv'
<1>1. /\ mem[e].at \in Stages /\ InOrder(mem[e].run) /\ mem[e].run.stage[mem[e].at] = "failed"
      /\ mem[e].tries + 1 \in 1..MaxAttempts
  BY AccountAtWork, AtWork, BoundsAssumption DEF Retry, WriteFile, Local, Memory, Actors
<1>2. /\ ~Complete(mem[e].run, mem[e].at)
      /\ \A t \in Stages : t < mem[e].at => Complete(mem[e].run, t)
  BY <1>1 DEF InOrder, Complete
<1> QED BY <1>1, <1>2, AttemptAccount DEF Retry, WriteFile

LEMMA RescueAccount ==
  ASSUME AccountInv, SInv', AtMostOneBusy', NEW e \in Executors, Rescue(e)
  PROVE  AccountInv'
<1>1. /\ e \in Actors /\ Present(row) /\ pc[e] = "rescue" /\ row \in Runs /\ InOrder(row)
      /\ \A s \in Stages : row.attempts[s] <= Spent(execs)
  BY AccountAtWork, AtWork, Holding DEF Actors, Rescue
<1>2. Goto(e, "row") /\ Remember(e, Failure(row)) /\ UNCHANGED <<row, calls, execs>>
  BY <1>1 DEF Rescue, LoadFromDisk
<1>3. /\ Failure(row) \in Memory /\ Failure(row).run.attempts = row.attempts
      /\ Failure(row).then = "record"
  BY <1>1, FailureFacts
<1> QED BY <1>1, <1>2, <1>3, ClosingAccount

LEMMA EditAccount ==
  ASSUME AccountInv, SInv', AtMostOneBusy', NEW c \in Clients, NEW attaches \in BOOLEAN,
         Edit(c, attaches)
  PROVE  AccountInv'
<1> DEFINE m == Edited(Blank, row, attaches)
<1>1. /\ c \in Actors /\ Present(row) /\ row \in Runs /\ InOrder(row)
      /\ \A s \in Stages : row.attempts[s] <= Spent(execs)
  BY AccountAtWork, Holding DEF Actors, Edit
<1>2. m \in Memory /\ m.then = "stop" /\ m.run.attempts = row.attempts
  BY <1>1, EditedFacts, BlankFacts
<1>3. Goto(c, "row") /\ Remember(c, m) /\ UNCHANGED <<row, calls, execs>>
  BY DEF Edit
<1> HIDE DEF m
<1> QED BY <1>1, <1>2, <1>3, ClosingAccount

LEMMA WriteCheckpointAccount ==
  ASSUME AccountInv, SInv', AtMostOneBusy', NEW e \in Executors, WriteCheckpoint(e)
  PROVE  AccountInv'
<1> PICK m \in Memory : m = mem[e] /\ Accounts("checkpoint", m)
  BY AccountAtWork, AtWork DEF Actors, WriteCheckpoint
<1>1. Goto(e, "row") /\ Remember(e, m) /\ UNCHANGED <<row, calls, execs>>
  BY DEF WriteCheckpoint, Remember, AccountInv, SInv, IInv, TypeOK
<1>2. Accounts("row", m)
  BY DEF Accounts, Copying
<1> QED BY <1>1, <1>2, QuietAccount DEF PCs, Actors

\* A delete finds nobody at work and leaves an empty row.
LEMMA DeleteAccount ==
  ASSUME AccountInv, SInv', Delete
  PROVE  AccountInv'
<1>1. pc' = pc /\ mem' = mem /\ calls' = calls /\ execs' = execs /\ row' \in {row, Absent}
  BY DEF Delete, DeleteArchive, DeleteCommit, DeleteRollback, DeleteCrash
<1>2. AttemptsAccounted'
  BY <1>1, BlankFacts DEF AccountInv, AttemptsAccounted
<1>3. CASE row' = row
  <2>1. Accounted'
    BY <1>1, <1>3 DEF AccountInv, Accounted, Accounts, Complete
  <2> QED BY <1>2, <2>1 DEF AccountInv
<1>4. CASE row' # row
  <2>1. \A a \in Actors : pc[a] = "idle"
    BY <1>4 DEF Delete, DeleteArchive, DeleteCommit, DeleteRollback, DeleteCrash, AccountInv, SInv,
       AtMostOneBusy
  <2>2. Accounted'
    BY <1>1, <2>1 DEF Accounted, Accounts, Copying
  <2> QED BY <1>2, <2>2 DEF AccountInv
<1> QED BY <1>3, <1>4

LEMMA StepAccount ==
  ASSUME AccountInv, SInv', AtMostOneBusy', NEW e \in Executors, Step(e)
  PROVE  AccountInv'
<1>1. CASE Pause(e)
  BY <1>1, SettleAccount DEF Pause, WriteFile
<1>2. CASE GiveUp(e)
  BY <1>2, SettleAccount DEF GiveUp, WriteFile
<1>3. ASSUME NEW refresh \in BOOLEAN, HandlerSucceeds(e, refresh) PROVE AccountInv'
  BY <1>3, OutcomeAccount DEF HandlerSucceeds
<1>4. ASSUME NEW refresh \in BOOLEAN, NEW retryable \in BOOLEAN,
             HandlerFails(e, retryable, refresh)
      PROVE  AccountInv'
  BY <1>4, OutcomeAccount DEF HandlerFails
<1>5. CASE Finish(e)
  BY <1>5, LeaveAccount DEF Finish, WriteFile, Return, Actors
<1>6. CASE pc[e] # "idle" /\ Raise(e)
  BY <1>6, LeaveAccount DEF Raise, Actors
<1>7. CASE Rescue(e)
  BY <1>7, RescueAccount
<1> QED BY <1>1, <1>2, <1>3, <1>4, <1>5, <1>6, <1>7, WriteCheckpointAccount, WriteAccount,
           AdvanceAccount, RetryAccount, EnterHandlerAccount, AccountAtWork, NoRestore
        DEF Step, Actors

LEMMA NextAccount ==
  ASSUME AccountInv, [SerialNext]_vars
  PROVE  AccountInv'
<1>1. SInv'
  BY NextSInv DEF AccountInv
<1>2. CASE UNCHANGED vars
  <2>1. AttemptsAccounted' /\ Accounted'
    BY <1>2 DEF vars, AccountInv, AttemptsAccounted, Accounted, Accounts, Complete, Present
  <2> QED BY <1>1, <2>1 DEF AccountInv
<1> SUFFICES ASSUME Next, AtMostOneBusy' PROVE AccountInv'
  BY <1>2 DEF SerialNext
<1>3. ASSUME NEW e \in Executors, Start(e) PROVE AccountInv'
  <2>1. CASE pc[e] = "idle" /\ Raise(e)
    BY <1>1, <2>1, LeaveAccount DEF Raise, Actors
  <2> QED BY <1>1, <1>3, <2>1, ExecuteAccount, AccountAtWork, NoRestore DEF Start, Actors
<1>4. CASE \E e \in Executors : Step(e)
  BY <1>1, <1>4, StepAccount
<1>5. ASSUME NEW c \in Clients, Request(c) PROVE AccountInv'
  <2>1. CASE Finish(c)
    BY <1>1, <2>1, LeaveAccount DEF Finish, WriteFile, Return, Actors
  <2> QED BY <1>1, <1>5, <2>1, EditAccount, AccountAtWork, NoRestore, WriteAccount
          DEF Request, Actors
<1>6. CASE \E a \in Actors : Crash(a)
  BY <1>1, <1>6, LeaveAccount DEF Crash, Return
<1>7. CASE Delete
  BY <1>1, <1>7, DeleteAccount
<1> QED BY <1>3, <1>4, <1>5, <1>6, <1>7 DEF Next

\* One caller at a time, any crash: the lifetime count of the row accounts for
\* every call of a handler, and no execution spends more than its retry budget.
THEOREM SerialAttempts == SerialSpec => []AttemptsAccounted
<1>1. Init => AccountInv
  <2> SUFFICES ASSUME Init PROVE AccountInv
    OBVIOUS
  <2>1. AttemptsAccounted
    BY BoundsAssumption DEF Init, AttemptsAccounted, Fresh
  <2>2. Accounted
    BY DEF Init, Accounted, Accounts, Copying
  <2> QED BY <2>1, <2>2, InitSInv DEF AccountInv
<1>2. AccountInv /\ [SerialNext]_vars => AccountInv'
  BY NextAccount
<1>3. AccountInv => AttemptsAccounted
  BY DEF AccountInv
<1> QED BY <1>1, <1>2, <1>3, PTL DEF SerialSpec

-----------------------------------------------------------------------------
(* Every step of WorkflowExecutor used by one caller maps to a step of     *)
(* RunLifecycle or to none.                                                *)

Done(run) == {s \in Stages : Complete(run, s)}

\* A lifecycle step, or none, from the run r to the run q.
Moves(r, q) ==
  \/ q.status \in {r.status, "running", "failed"} /\ Done(q) = Done(r)
  \/ /\ r.status = "running" /\ q.status = "running"
     /\ \E s \in Stages : /\ s \notin Done(r) /\ Done(q) = Done(r) \cup {s}
                          /\ \A t \in Stages : t < s => t \in Done(r)
  \/ r.status = "running" /\ q.status = "needs_review" /\ 1 \in Done(r) /\ Done(q) = Done(r)

\* Where an actor is, and the lifecycle step its next write of the row makes.
Maps(label, m, r) ==
  /\ label \in Copying /\ m.then \in {"advance", "handler", "retry", "fail"} =>
       m.run.status = "running"
  /\ label \in {"checkpoint", "handler"} =>
       m.then \in {"advance", "handler", "retry", "fail"} /\ r.status = "running"
  /\ label = "checkpoint" => Moves(r, m.run)
  /\ label = "row" => Moves(r, m.run)
  /\ label \in {"file", "handler"} => r = m.run

Mapping == \A a \in Actors : Maps(pc[a], mem[a], row)
RInv == SInv /\ Mapping

-----------------------------------------------------------------------------
LEMMA InitRInv ==
  ASSUME Init
  PROVE  RInv
<1>1. Mapping
  BY DEF Init, Mapping, Maps, Copying
<1> QED BY <1>1, InitSInv DEF RInv

LEMMA Unmapped ==
  ASSUME NEW label \in {"idle", "rescue"}, NEW m, NEW r
  PROVE  Maps(label, m, r)
  BY DEF Maps, Copying

\* Whoever moves is alone, so only its own map has to be shown.
LEMMA ActorMaps ==
  ASSUME RInv, AtMostOneBusy', NEW a \in Actors, NEW label \in PCs, NEW m,
         Goto(a, label), Remember(a, m), pc[a] # "idle" \/ label # "idle",
         Maps(label, m, row')
  PROVE  Mapping'
<1>1. pc'[a] = label /\ \A b \in Actors \ {a} : pc'[b] = "idle"
  BY Alone DEF RInv, SInv, IInv
<1>2. mem'[a] = m
  BY DEF Remember, RInv, SInv, IInv, TypeOK
<1> SUFFICES ASSUME NEW b \in Actors PROVE Maps(pc'[b], mem'[b], row')
  BY DEF Mapping
<1>3. CASE b = a
  BY <1>1, <1>2, <1>3
<1>4. CASE b # a
  BY <1>1, <1>4, Unmapped
<1> QED BY <1>3, <1>4

\* What an actor's map says of it.
LEMMA Mapped ==
  ASSUME RInv, NEW a \in Actors
  PROVE  /\ mem[a] \in Memory /\ mem[a].run \in Runs /\ mem[a].at \in Stages /\ row \in Runs
         /\ mem[a].run.stage \in [Stages -> StageStatus]
         /\ Local(pc[a], mem[a]) /\ InOrder(mem[a].run) /\ InOrder(row)
         /\ Maps(pc[a], mem[a], row)
  BY AtWork, Holding DEF RInv, SInv, Mapping

LEMMA ExecuteMaps ==
  ASSUME RInv, AtMostOneBusy', NEW e \in Executors, NEW until \in Stages,
         NEW retryFailed \in BOOLEAN, Execute(e, until, retryFailed)
  PROVE  Mapping'
<1> DEFINE reset == [s \in Stages |-> IF retryFailed /\ row.stage[s] = "failed" THEN "pending"
                                     ELSE row.stage[s]]
<1> DEFINE r == [row EXCEPT !.status = "running", !.stage = reset]
<1> DEFINE m == [Blank EXCEPT !.run = r, !.until = until, !.then = "advance"]
<1>1. e \in Actors /\ row \in Runs
  BY Mapped DEF Actors
<1>2. Goto(e, "row") /\ Remember(e, m) /\ row' = row
  BY DEF Execute
<1>3. r.status = "running" /\ r.stage = reset
  BY <1>1 DEF Runs
<1>4. \A s \in Stages : reset[s] = "completed" <=> row.stage[s] = "completed"
  OBVIOUS
<1> HIDE DEF reset
<1>5. Done(r) = Done(row)
  BY <1>3, <1>4 DEF Done, Complete
<1> HIDE DEF r
<1>6. m.run = r /\ m.then = "advance"
  BY BlankFacts DEF Memory
<1> HIDE DEF m
<1>7. Maps("row", m, row')
  BY <1>2, <1>3, <1>5, <1>6 DEF Maps, Moves
<1> QED BY <1>1, <1>2, <1>7, ActorMaps DEF PCs

LEMMA WriteCheckpointMaps ==
  ASSUME RInv, AtMostOneBusy', NEW e \in Executors, WriteCheckpoint(e)
  PROVE  Mapping'
<1>1. e \in Actors /\ pc[e] = "checkpoint" /\ Goto(e, "row") /\ row' = row
      /\ Maps("checkpoint", mem[e], row)
  BY Mapped DEF Actors, WriteCheckpoint
<1>2. Remember(e, mem[e])
  BY DEF WriteCheckpoint, Remember, RInv, SInv, IInv, TypeOK
<1>3. Maps("row", mem[e], row')
  BY <1>1 DEF Maps, Copying
<1> QED BY <1>1, <1>2, <1>3, ActorMaps DEF PCs

LEMMA WriteRowMaps ==
  ASSUME RInv, AtMostOneBusy', NEW a \in Actors, WriteRow(a)
  PROVE  Mapping' /\ Moves(row, row')
<1>1. pc[a] = "row" /\ Goto(a, "file") /\ row' = mem[a].run /\ Maps("row", mem[a], row)
  BY Mapped DEF WriteRow
<1>2. Remember(a, mem[a])
  BY DEF WriteRow, Remember, RInv, SInv, IInv, TypeOK
<1>3. Maps("file", mem[a], row')
  BY <1>1 DEF Maps, Copying
<1>4. Mapping'
  BY <1>1, <1>2, <1>3, ActorMaps DEF PCs
<1> QED BY <1>1, <1>4 DEF Maps

\* Closing an execution: a pause has completed stages, a failure has any.
LEMMA SettleMaps ==
  ASSUME NEW m \in Memory, InOrder(m.run), m.run.status = "running",
         NEW status \in {"needs_review", "failed"},
         status = "needs_review" => 1 \in Done(m.run)
  PROVE  Maps("row", Settle(m, status), m.run)
<1> DEFINE x == Settle(m, status)
<1>1. x.then = "stop" /\ x.run.stage = m.run.stage /\ x.run.status = status
  <2>1. x.run = [m.run EXCEPT !.status = status] /\ m.run \in Runs
    BY SettleFacts DEF Memory
  <2> QED BY <2>1, SettleFacts DEF Runs
<1> HIDE DEF x
<1>2. Done(x.run) = Done(m.run)
  BY <1>1 DEF Done, Complete
<1>3. Moves(m.run, x.run)
  BY <1>1, <1>2 DEF Moves
<1> QED BY <1>1, <1>3 DEF Maps, x

LEMMA PauseMaps ==
  ASSUME RInv, AtMostOneBusy', NEW e \in Executors, Pause(e)
  PROVE  Mapping'
<1>1. /\ e \in Actors /\ pc[e] = "file" /\ mem[e].then = "advance" /\ row' = row
      /\ Goto(e, "row") /\ Remember(e, Settle(mem[e], "needs_review"))
      /\ mem[e] \in Memory /\ InOrder(mem[e].run) /\ Maps("file", mem[e], row)
  BY Mapped DEF Actors, Pause, WriteFile
<1>2. row = mem[e].run /\ mem[e].run.status = "running"
  BY <1>1 DEF Maps, Copying
<1>3. 1 \in Stages /\ 1 \in 1..mem[e].until
  BY <1>1, StagesAssumption DEF Memory, Stages
<1>4. 1 \in Done(mem[e].run)
  BY <1>3 DEF Pause, Reached, Done
<1>5. Maps("row", Settle(mem[e], "needs_review"), row')
  BY <1>1, <1>2, <1>4, SettleMaps
<1> QED BY <1>1, <1>5, ActorMaps DEF PCs

LEMMA GiveUpMaps ==
  ASSUME RInv, AtMostOneBusy', NEW e \in Executors, GiveUp(e)
  PROVE  Mapping'
<1>1. /\ e \in Actors /\ pc[e] = "file" /\ mem[e].then = "fail" /\ row' = row
      /\ Goto(e, "row") /\ Remember(e, Settle(mem[e], "failed"))
      /\ mem[e] \in Memory /\ InOrder(mem[e].run) /\ Maps("file", mem[e], row)
  BY Mapped DEF Actors, GiveUp, WriteFile
<1>2. row = mem[e].run /\ mem[e].run.status = "running"
  BY <1>1 DEF Maps, Copying
<1>3. Maps("row", Settle(mem[e], "failed"), row')
  BY <1>1, <1>2, SettleMaps
<1> QED BY <1>1, <1>3, ActorMaps DEF PCs

\* Starting an attempt completes nothing.
LEMMA AttemptMaps ==
  ASSUME NEW m \in Memory, InOrder(m.run), Present(m.run), m.run.status = "running",
         NEW s \in Stages, ~Complete(m.run, s), \A t \in Stages : t < s => Complete(m.run, t),
         NEW k \in 0..MaxAttempts
  PROVE  Maps("checkpoint", Attempt(m, s, k), m.run)
<1> DEFINE x == Attempt(m, s, k)
<1>1. x.run.stage = [m.run.stage EXCEPT ![s] = "running"] /\ x.run.status = m.run.status
  <2>1. /\ x \in Memory /\ x.at = s
        /\ x.run.stage = [m.run.stage EXCEPT ![s] = "running"]
        /\ x.run.attempts = [m.run.attempts EXCEPT ![s] = m.run.attempts[s] + 1]
    BY AttemptFacts
  <2>2. x.run.status = m.run.status
    BY DEF Attempt, Marked, Memory, Runs
  <2> QED BY <2>1, <2>2
<1>2. x.then = "handler"
  BY DEF Attempt, Memory
<1>3. m.run.stage \in [Stages -> StageStatus]
  BY DEF Memory, Runs
<1> HIDE DEF x
<1>4. Done(x.run) = Done(m.run)
  BY <1>1, <1>3 DEF Done, Complete
<1> QED BY <1>1, <1>2, <1>4 DEF Maps, Moves, x

LEMMA NextAttemptMaps ==
  ASSUME RInv, AtMostOneBusy', NEW e \in Executors, pc[e] = "file",
         mem[e].then \in {"advance", "retry"}, row' = row,
         NEW s \in Stages, ~Complete(mem[e].run, s),
         \A t \in Stages : t < s => Complete(mem[e].run, t), NEW k \in 0..MaxAttempts,
         Goto(e, "checkpoint"), Remember(e, Attempt(mem[e], s, k))
  PROVE  Mapping'
<1>1. /\ e \in Actors /\ mem[e] \in Memory /\ InOrder(mem[e].run) /\ Present(mem[e].run)
      /\ Maps("file", mem[e], row)
  BY Mapped DEF Actors, Local
<1>2. row = mem[e].run /\ mem[e].run.status = "running"
  BY <1>1 DEF Maps, Copying
<1>3. Maps("checkpoint", Attempt(mem[e], s, k), row')
  BY <1>1, <1>2, AttemptMaps
<1> QED BY <1>1, <1>3, ActorMaps DEF PCs

LEMMA EnterHandlerMaps ==
  ASSUME RInv, AtMostOneBusy', NEW e \in Executors, EnterHandler(e)
  PROVE  Mapping'
<1>1. /\ e \in Actors /\ pc[e] = "file" /\ mem[e].then = "handler" /\ row' = row
      /\ Goto(e, "handler") /\ Maps("file", mem[e], row)
  BY Mapped DEF Actors, EnterHandler, WriteFile
<1>2. Remember(e, mem[e])
  BY DEF EnterHandler, Remember, RInv, SInv, IInv, TypeOK
<1>3. Maps("handler", mem[e], row')
  BY <1>1 DEF Maps, Copying
<1> QED BY <1>1, <1>2, <1>3, ActorMaps DEF PCs

\* The stage at work completes, as the next in order, or it does not.
LEMMA OutcomeMaps ==
  ASSUME NEW m \in Memory, Local("handler", m), NEW base, SameProgress(base, m.run),
         NEW outcome \in {"completed", "failed"}, NEW next \in {"advance", "retry", "fail"},
         next = "retry" => outcome = "failed" /\ m.tries < MaxAttempts,
         m.run.status = "running"
  PROVE  Maps("checkpoint", Outcome(m, base, outcome, next), m.run)
<1> DEFINE x == Outcome(m, base, outcome, next)
<1>1. Closes(m, outcome, x)
  BY OutcomeFacts
<1>2. x.then = next
  BY DEF Outcome, Memory
<1>3. /\ m.at \in Stages /\ m.run.stage \in [Stages -> StageStatus] /\ InOrder(m.run)
      /\ m.run.stage[m.at] = "running"
  BY DEF Memory, Runs, Local
<1> HIDE DEF x
<1>4. /\ x.run.status = "running"
      /\ \A s \in Stages : x.run.stage[s] = IF s = m.at THEN outcome ELSE m.run.stage[s]
  BY <1>1, <1>3 DEF Closes
<1>5. m.at \notin Done(m.run) /\ \A t \in Stages : t < m.at => t \in Done(m.run)
  BY <1>3 DEF Done, Complete, InOrder
<1>6. Moves(m.run, x.run)
  <2>1. CASE outcome = "completed"
    <3>1. Done(x.run) = Done(m.run) \cup {m.at}
      BY <1>3, <1>4, <2>1 DEF Done, Complete
    <3> QED BY <1>3, <1>4, <1>5, <3>1 DEF Moves
  <2>2. CASE outcome = "failed"
    <3>1. Done(x.run) = Done(m.run)
      BY <1>3, <1>4, <2>2 DEF Done, Complete
    <3> QED BY <1>4, <3>1 DEF Moves
  <2> QED BY <2>1, <2>2
<1> QED BY <1>2, <1>4, <1>6 DEF Maps, x

LEMMA HandlerMaps ==
  ASSUME RInv, AtMostOneBusy', NEW e \in Executors, NEW refresh \in BOOLEAN,
         pc[e] = "handler", NEW outcome \in {"completed", "failed"},
         NEW next \in {"advance", "retry", "fail"},
         next = "retry" => outcome = "failed" /\ mem[e].tries < MaxAttempts,
         Remember(e, Outcome(mem[e], Refreshed(mem[e].run, refresh), outcome, next)),
         Goto(e, "checkpoint"), row' = row
  PROVE  Mapping'
<1> DEFINE base == Refreshed(mem[e].run, refresh)
<1>1. /\ e \in Actors /\ mem[e] \in Memory /\ mem[e].run \in Runs /\ row \in Runs
      /\ Local("handler", mem[e]) /\ Maps("handler", mem[e], row)
  BY Mapped DEF Actors
<1>2. SameProgress(base, mem[e].run)
  BY <1>1, RefreshedFacts
<1>3. Remember(e, Outcome(mem[e], base, outcome, next))
  OBVIOUS
<1> HIDE DEF base
<1>4. row = mem[e].run /\ mem[e].run.status = "running"
  BY <1>1 DEF Maps, Copying
<1>5. Maps("checkpoint", Outcome(mem[e], base, outcome, next), row')
  BY <1>1, <1>2, <1>4, OutcomeMaps
<1> QED BY <1>1, <1>3, <1>5, ActorMaps DEF PCs

LEMMA LeaveMaps ==
  ASSUME RInv, AtMostOneBusy', NEW a \in Actors, NEW label \in {"idle", "rescue"},
         pc[a] # "idle" \/ label # "idle", Goto(a, label), Remember(a, Blank)
  PROVE  Mapping'
  BY ActorMaps, Unmapped DEF PCs

LEMMA RescueMaps ==
  ASSUME RInv, AtMostOneBusy', NEW e \in Executors, Rescue(e)
  PROVE  Mapping'
<1>1. /\ e \in Actors /\ pc[e] = "rescue" /\ row' = row /\ row \in Runs /\ InOrder(row)
      /\ Present(row)
  BY Mapped, AtWork DEF Actors, Rescue, RInv
<1>2. Goto(e, "row") /\ Remember(e, Failure(row))
  BY <1>1 DEF Rescue, LoadFromDisk
<1>3. /\ Failure(row).then = "record" /\ Failure(row).run.status = "failed"
      /\ Failure(row).run.stage = row.stage
  BY <1>1, FailureFacts
<1>4. Done(Failure(row).run) = Done(row)
  BY <1>3 DEF Done, Complete
<1>5. Maps("row", Failure(row), row')
  BY <1>1, <1>3, <1>4 DEF Maps, Moves
<1> QED BY <1>1, <1>2, <1>5, ActorMaps DEF PCs

LEMMA EditMaps ==
  ASSUME RInv, AtMostOneBusy', NEW c \in Clients, NEW attaches \in BOOLEAN, Edit(c, attaches)
  PROVE  Mapping'
<1> DEFINE m == Edited(Blank, row, attaches)
<1>1. c \in Actors /\ row' = row /\ row \in Runs /\ InOrder(row) /\ Present(row)
      /\ Goto(c, "row") /\ Remember(c, m)
  BY Mapped DEF Actors, Edit
<1>2. m.then = "stop" /\ m.run.status = row.status /\ m.run.stage = row.stage
  BY <1>1, EditedFacts, BlankFacts
<1> HIDE DEF m
<1>3. Done(m.run) = Done(row)
  BY <1>2 DEF Done, Complete
<1>4. Maps("row", m, row')
  BY <1>1, <1>2, <1>3 DEF Maps, Moves
<1> QED BY <1>1, <1>4, ActorMaps DEF PCs

-----------------------------------------------------------------------------
\* One step of the serial system, on the row and on the map.
LEMMA NextMaps ==
  ASSUME RInv, SerialNext
  PROVE  /\ Mapping'
         /\ \/ Moves(row, row')
            \/ (row' = Absent /\ Untouched(row))
<1>1. row \in Runs /\ Moves(row, row)
  BY DEF RInv, SInv, IInv, TypeOK, Moves
<1>2. Next /\ AtMostOneBusy'
  BY DEF SerialNext
<1>3. ASSUME NEW a \in Actors, WriteRow(a)
      PROVE  Mapping' /\ Moves(row, row')
  BY <1>2, <1>3, WriteRowMaps
<1>4. ASSUME NEW a \in Actors, Finish(a) \/ Crash(a)
      PROVE  Mapping' /\ row' = row
  BY <1>2, <1>4, LeaveMaps DEF Finish, WriteFile, Crash, Return
<1>5. ASSUME NEW e \in Executors, Raise(e)
      PROVE  Mapping' /\ row' = row
  BY <1>2, <1>5, LeaveMaps DEF Raise, Actors
<1>6. ASSUME NEW e \in Executors, Step(e)
      PROVE  Mapping' /\ Moves(row, row')
  <2>1. ASSUME NEW s \in Stages, Advance(e, s) PROVE Mapping' /\ row' = row
    BY <1>2, <2>1, NextAttemptMaps, BoundsAssumption DEF Advance, WriteFile, Due
  <2>2. CASE Retry(e)
    <3>1. /\ mem[e].at \in Stages /\ InOrder(mem[e].run)
          /\ mem[e].run.stage[mem[e].at] = "failed" /\ mem[e].tries + 1 \in 0..MaxAttempts
      BY <2>2, Mapped, BoundsAssumption DEF Retry, WriteFile, Local, Memory, Actors
    <3>2. /\ ~Complete(mem[e].run, mem[e].at)
          /\ \A t \in Stages : t < mem[e].at => Complete(mem[e].run, t)
      BY <3>1 DEF InOrder, Complete
    <3> QED BY <1>1, <1>2, <2>2, <3>1, <3>2, NextAttemptMaps DEF Retry, WriteFile
  <2>3. ASSUME NEW refresh \in BOOLEAN, HandlerSucceeds(e, refresh) PROVE Mapping' /\ row' = row
    BY <1>2, <2>3, HandlerMaps DEF HandlerSucceeds
  <2>4. ASSUME NEW refresh \in BOOLEAN, NEW retryable \in BOOLEAN,
               HandlerFails(e, retryable, refresh)
        PROVE  Mapping' /\ row' = row
    BY <1>2, <2>4, HandlerMaps DEF HandlerFails
  <2>5. WriteCheckpoint(e) \/ Pause(e) \/ GiveUp(e) \/ EnterHandler(e) \/ Rescue(e) =>
          Mapping' /\ row' = row
    BY <1>2, WriteCheckpointMaps, PauseMaps, GiveUpMaps, EnterHandlerMaps, RescueMaps
    DEF WriteCheckpoint, Pause, GiveUp, EnterHandler, Rescue
  <2> QED BY <1>1, <1>3, <1>4, <1>5, <1>6, <2>1, <2>2, <2>3, <2>4, <2>5, NoRestore
          DEF Step, Actors, RInv
<1>7. ASSUME NEW e \in Executors, Start(e)
      PROVE  Mapping' /\ row' = row
  BY <1>2, <1>5, <1>7, ExecuteMaps, NoRestore DEF Start, Execute, Actors, RInv
<1>8. ASSUME NEW c \in Clients, Request(c)
      PROVE  Mapping' /\ Moves(row, row')
  <2>1. ASSUME NEW attaches \in BOOLEAN, Edit(c, attaches) PROVE Mapping' /\ row' = row
    BY <1>2, <2>1, EditMaps DEF Edit
  <2> QED BY <1>1, <1>3, <1>4, <1>8, <2>1, NoRestore DEF Request, Actors, RInv
<1>9. CASE Delete
  <2>1. UNCHANGED <<pc, mem>>
    BY <1>9 DEF Delete, DeleteArchive, DeleteCommit, DeleteRollback, DeleteCrash
  <2>2. lock = "held" => Untouched(row) /\ \A a \in Actors : pc[a] = "idle"
    BY DEF RInv, SInv, Gone, AtMostOneBusy
  <2>3. CASE row' = row
    BY <1>1, <2>1, <2>3 DEF RInv, Mapping
  <2>4. CASE DeleteCommit
    <3>1. \A a \in Actors : Maps(pc'[a], mem'[a], row')
      BY <2>1, <2>2, <2>4, Unmapped DEF DeleteCommit
    <3> QED BY <2>2, <2>4, <3>1 DEF DeleteCommit, Mapping
  <2> QED BY <1>9, <2>3, <2>4 DEF Delete, DeleteArchive, DeleteRollback, DeleteCrash
<1> QED BY <1>1, <1>2, <1>4, <1>6, <1>7, <1>8, <1>9 DEF Next

LEMMA NextRInv ==
  ASSUME RInv, [SerialNext]_vars
  PROVE  RInv'
<1>1. SInv'
  BY NextSInv DEF RInv
<1>2. CASE UNCHANGED vars
  BY <1>2 DEF vars, RInv, SInv, IInv, TypeOK, Ordered, Working, Recorded, AtMostOneBusy,
     CheckpointBacksRow, Following, Gone, Mapping
<1>3. CASE SerialNext
  BY <1>1, <1>3, NextMaps DEF RInv
<1> QED BY <1>2, <1>3

\* A move of the row is a step of the lifecycle.
LEMMA MovesMaps ==
  ASSUME row \in Runs, row' \in Runs, Present(row) \/ row' = row,
         Moves(row, row') \/ (row' = Absent /\ Untouched(row))
  PROVE  [Lifecycle!Next]_(Lifecycle!vars)
<1> DEFINE done == {s \in Stages : Complete(row, s)}
<1>1. done = Done(row) /\ done' = Done(row')
  BY DEF Done
<1>2. CASE row' = row
  BY <1>2 DEF Lifecycle!vars, Complete
<1> SUFFICES ASSUME row.status # "absent"
             PROVE  [Lifecycle!Next]_(Lifecycle!vars)
  BY <1>2 DEF Present
<1>3. CASE row' = Absent /\ Untouched(row)
  <2>1. Done(row) = {} /\ Done(row') = {} /\ row.status = "created" /\ row'.status = "absent"
    BY <1>3 DEF Done, Complete, Untouched, Absent, Fresh
  <2> QED BY <1>1, <2>1 DEF Lifecycle!Next, Lifecycle!Delete
<1>4. CASE row'.status \in {row.status, "running", "failed"} /\ Done(row') = Done(row)
  BY <1>1, <1>4 DEF Lifecycle!Next, Lifecycle!vars, Lifecycle!Run, Lifecycle!Fail
<1>5. CASE /\ row.status = "running" /\ row'.status = "running"
           /\ \E s \in Stages : /\ s \notin Done(row) /\ Done(row') = Done(row) \cup {s}
                                /\ \A t \in Stages : t < s => t \in Done(row)
  BY <1>1, <1>5 DEF Lifecycle!Next, Lifecycle!Complete, Stages
<1>6. CASE /\ row.status = "running" /\ row'.status = "needs_review"
           /\ 1 \in Done(row) /\ Done(row') = Done(row)
  BY <1>1, <1>6 DEF Lifecycle!Next, Lifecycle!Pause
<1> QED BY <1>3, <1>4, <1>5, <1>6 DEF Moves

\* Used by one caller at a time, for any pipeline and retry budget and any
\* crashes, the engine implements the documented lifecycle.
THEOREM SerialLifecycle == SerialSpec => ImplementsLifecycle
<1>1. Init => RInv
  BY InitRInv
<1>2. RInv /\ [SerialNext]_vars => RInv'
  BY NextRInv
<1>3. Init => Lifecycle!Init
  BY DEF Init, Lifecycle!Init, Fresh, Complete
<1>4. ASSUME RInv, RInv', [SerialNext]_vars
      PROVE  [Lifecycle!Next]_(Lifecycle!vars)
  <2>1. row \in Runs /\ row' \in Runs
    BY <1>4 DEF RInv, SInv, IInv, TypeOK
  <2>2. Present(row) \/ row' = row
    BY <1>4 DEF RInv, SInv, Gone, Untouched, Present, SerialNext, Next, vars, Start, Step,
     Request, Delete, Actors, Execute, Raise, WriteCheckpoint, WriteRow, Pause, Advance, EnterHandler, Retry, GiveUp, Finish,
     HandlerSucceeds, HandlerFails, Rescue, LoadForExecution, RunIsBack,
     RecordRestored, Edit, LoadForEdit, EditRestored, RestoreRow, LoadFromDisk, Crash,
     DeleteArchive, DeleteCommit, DeleteRollback, DeleteCrash
  <2>3. Moves(row, row') \/ (row' = Absent /\ Untouched(row))
    BY <1>4, NextMaps DEF Moves, vars
  <2> QED BY <2>1, <2>2, <2>3, MovesMaps
<1>5. RInv /\ RInv' /\ [SerialNext]_vars => [Lifecycle!Next]_(Lifecycle!vars)
  BY <1>4
<1> QED BY <1>1, <1>2, <1>3, <1>5, PTL DEF SerialSpec, ImplementsLifecycle, Lifecycle!Spec
===========================================================================
