---------------------------- MODULE LiveGateway ----------------------------
(***************************************************************************)
(* The live gateway: the runtimes of one process (live/runtime.py) and the *)
(* polls of one MCP stream with its daily call budget (live/mcp.py,        *)
(* poll_source in live/service.py, the checkpoint row in live/store.py).   *)
(*                                                                         *)
(* A runtime is an object with at most one thread, whose event loop runs   *)
(* the polling task; a poll itself is done by a pool thread, which outlives*)
(* the task that waits for it.  Runtimes are registered in a dictionary    *)
(* and replaced when credentials change.  Admins start, stop and reload    *)
(* them; readers only poll.  Every poll loads the checkpoint, calls the    *)
(* provider, and saves a new checkpoint as a whole.                        *)
(*                                                                         *)
(* What a poll ingests is the matter of LiveSignals.                       *)
(***************************************************************************)
EXTENDS Integers

CONSTANTS
  Admins,        \* threads of the API that start, stop, patch and reload
  Readers,       \* threads and processes that only poll
  MaxRuntimes,   \* bound of the model: runtimes a process makes
  MaxRequests,   \* bound of the model: requests, and restarts of the process
  MaxDays,       \* bound of the model
  Budget         \* mcp_call_budget

ASSUME GatewayUsers == Admins \cap Readers = {} /\ (Admins \cup Readers) \cap Nat = {}
ASSUME GatewayBudget == Budget \in Nat \ {0}
ASSUME GatewayBounds ==
  /\ MaxRuntimes \in Nat /\ MaxRequests \in Nat /\ MaxDays \in Nat \ {0}

Runtimes == 1..MaxRuntimes
Users == Admins \cup Readers

VARIABLES
  current,     \* the registered runtime (0: none)
  created,     \* how many were made
  thread,      \* of each runtime
  stopAsked,   \* its _stop_requested
  stopEvent,   \* its _async_stop
  closed,      \* those whose MCP client is closed
  checkpoint,  \* the stored checkpoint of the stream
  pc,          \* of users, and of each runtime's polling task
  mem,         \* their local variables
  today,       \* the date in Beijing
  made,        \* history: calls that reached the provider today, up to the budget
  requests     \* history: requests and restarts

runtimes == <<current, created, thread, stopAsked, stopEvent, closed>>
vars == <<runtimes, checkpoint, pc, mem, today, made, requests>>

-----------------------------------------------------------------------------
Threads == {"none", "boot", "entered", "loop", "closing", "closed", "dead"}
Running(g) == thread[g] \notin {"none", "dead"}

\* What counts of a checkpoint; day 0: there is no row.
Checkpoints == [calls : 0..Budget, day : 0..MaxDays,
                health : {"standby", "active", "degraded", "exhausted"}]

UserPCs == {"idle", "read", "call", "save", "start", "stop", "patch", "reload", "close",
            "register"}
TaskPCs == {"gone", "wait", "read", "call", "save"}

\* A user's runtime, where it goes on after a stop, whether that runtime was
\* running; a poll's checkpoint, and whether the source has raised.
Locals == [runtime : 0..MaxRuntimes, then : {"idle", "start", "close"}, was : BOOLEAN,
           copy : Checkpoints, raised : BOOLEAN]
NoCheckpoint == [calls |-> 0, day |-> 0, health |-> "standby"]
Blank == [runtime |-> 0, then |-> "idle", was |-> FALSE, copy |-> NoCheckpoint,
          raised |-> FALSE]

TypeOK ==
  /\ current \in 0..created /\ created \in 0..MaxRuntimes
  /\ thread \in [Runtimes -> Threads]
  /\ stopAsked \in [Runtimes -> BOOLEAN]
  /\ stopEvent \in [Runtimes -> {"none", "clear", "asked", "set"}]
  /\ closed \subseteq 0..MaxRuntimes
  /\ checkpoint \in Checkpoints
  /\ pc \in [Users \cup Runtimes -> UserPCs \cup TaskPCs]
  /\ \A u \in Users : pc[u] \in UserPCs
  /\ \A g \in Runtimes : pc[g] \in TaskPCs
  /\ mem \in [Users \cup Runtimes -> Locals]
  /\ today \in 1..MaxDays /\ made \in 0..Budget
  /\ requests \in 0..MaxRequests

\* A process without runtimes.
Fresh ==
  /\ current' = 0 /\ created' = 0
  /\ thread' = [g \in Runtimes |-> "none"]
  /\ stopAsked' = [g \in Runtimes |-> FALSE]
  /\ stopEvent' = [g \in Runtimes |-> "none"]
  /\ closed' = {}
  /\ pc' = [p \in Users \cup Runtimes |-> IF p \in Users THEN "idle" ELSE "gone"]
  /\ mem' = [p \in Users \cup Runtimes |-> Blank]

Init ==
  /\ current = 0 /\ created = 0
  /\ thread = [g \in Runtimes |-> "none"]
  /\ stopAsked = [g \in Runtimes |-> FALSE]
  /\ stopEvent = [g \in Runtimes |-> "none"]
  /\ closed = {}
  /\ checkpoint = NoCheckpoint
  /\ pc = [p \in Users \cup Runtimes |-> IF p \in Users THEN "idle" ELSE "gone"]
  /\ mem = [p \in Users \cup Runtimes |-> Blank]
  /\ today = 1 /\ made = 0 /\ requests = 0

Goto(p, label, m) == pc' = [pc EXCEPT ![p] = label] /\ mem' = [mem EXCEPT ![p] = m]
Leave(u) == Goto(u, "idle", Blank)

-----------------------------------------------------------------------------
(* The thread of a runtime                                                 *)

EnterLoop(g) ==
  /\ thread[g] = "boot"
  /\ thread' = [thread EXCEPT ![g] = "entered"]
  /\ stopEvent' = [stopEvent EXCEPT ![g] = "clear"]
  /\ UNCHANGED <<current, created, stopAsked, closed, checkpoint, pc, mem, today, made, requests>>

\* Mutant: a stop from before the loop is forgotten.
SetUp_Forgets(g) ==
  /\ thread[g] = "entered"
  /\ \/ /\ thread' = [thread EXCEPT ![g] = "loop"]
        /\ UNCHANGED stopEvent
        /\ \/ pc' = [pc EXCEPT ![g] = "wait"]
           \/ UNCHANGED pc
     \/ /\ thread' = [thread EXCEPT ![g] = "closed"]
        /\ UNCHANGED <<stopEvent, pc>>
  /\ UNCHANGED <<current, created, stopAsked, closed, checkpoint, mem, today, made, requests>>

\* A stop from before the loop is seen here.  The settings may know of no
\* stream to poll, or may be out of reach.
SetUp(g) ==
  /\ thread[g] = "entered"
  /\ \/ /\ thread' = [thread EXCEPT ![g] = "loop"]
        /\ stopEvent' = [stopEvent EXCEPT ![g] = IF stopAsked[g] THEN "set" ELSE @]
        /\ \/ pc' = [pc EXCEPT ![g] = "wait"]
           \/ UNCHANGED pc
     \/ /\ thread' = [thread EXCEPT ![g] = "closed"]
        /\ UNCHANGED <<stopEvent, pc>>
  /\ UNCHANGED <<current, created, stopAsked, closed, checkpoint, mem, today, made, requests>>

\* The callback that stop has handed to the loop.
SetEvent(g) ==
  /\ thread[g] \in {"entered", "loop", "closing"} /\ stopEvent[g] = "asked"
  /\ stopEvent' = [stopEvent EXCEPT ![g] = "set"]
  /\ UNCHANGED <<current, created, thread, stopAsked, closed, checkpoint, pc, mem, today, made,
                 requests>>

\* The task is cancelled.  A poll under way goes on in its pool thread, and
\* asyncio.run waits for it.
EndLoop(g) ==
  /\ thread[g] = "loop" /\ stopEvent[g] = "set"
  /\ thread' = [thread EXCEPT ![g] = "closing"]
  /\ pc' = [pc EXCEPT ![g] = IF @ = "wait" THEN "gone" ELSE @]
  /\ UNCHANGED <<current, created, stopAsked, stopEvent, closed, checkpoint, mem, today, made,
                 requests>>

CloseLoop(g) ==
  /\ thread[g] = "closing" /\ pc[g] = "gone"
  /\ thread' = [thread EXCEPT ![g] = "closed"]
  /\ UNCHANGED <<current, created, stopAsked, stopEvent, closed, checkpoint, pc, mem, today,
                 made, requests>>

EndThread(g) ==
  /\ thread[g] = "closed"
  /\ thread' = [thread EXCEPT ![g] = "dead"]
  /\ stopEvent' = [stopEvent EXCEPT ![g] = "none"]
  /\ UNCHANGED <<current, created, stopAsked, closed, checkpoint, pc, mem, today, made, requests>>

BeginPoll(g) ==
  /\ thread[g] = "loop" /\ pc[g] = "wait" /\ stopEvent[g] # "set"
  /\ Goto(g, "read", [Blank EXCEPT !.runtime = g])
  /\ UNCHANGED <<runtimes, checkpoint, today, made, requests>>

-----------------------------------------------------------------------------
(* A poll                                                                  *)

\* The poll of a user is answered.  The polling task waits for its next
\* interval, unless it is cancelled; after an error it reads the checkpoint
\* again, and ends for good if that fails too.
Return(p, failed) ==
  IF p \in Users THEN Leave(p)
  ELSE \/ thread[p] = "loop" /\ Goto(p, "wait", Blank)
       \/ (thread[p] # "loop" \/ failed) /\ Goto(p, "gone", Blank)

ReadCheckpoint(p) ==
  /\ pc[p] = "read"
  /\ \/ Goto(p, "call", [mem[p] EXCEPT !.copy = checkpoint])
     \/ Return(p, TRUE)
  /\ UNCHANGED <<runtimes, checkpoint, today, made, requests>>

\* Mutant: the count is not reset at midnight.
CallsUsed_NoReset(copy) == copy.calls

\* _checkpoint_counts: the calls of another day do not count.
CallsUsed(copy) == IF copy.day = today THEN copy.calls ELSE 0

\* Mutant: one call too many.
Exhausted_Late(copy) == CallsUsed(copy) > Budget

Exhausted(copy) == CallsUsed(copy) >= Budget

CountCall == made' = IF made < Budget THEN made + 1 ELSE made

\* What the source makes of the checkpoint it was given.
Held(copy) == [calls |-> CallsUsed(copy), day |-> today, health |-> "exhausted"]
Called(copy, health) == [calls |-> CallsUsed(copy) + 1, day |-> today, health |-> health]
Degraded(copy) == [copy EXCEPT !.health = "degraded"]

\* The source makes the next checkpoint: without a call if the budget is
\* spent, and counting the call whether it succeeds or fails.
Hold(p) ==
  /\ pc[p] = "call" /\ Exhausted(mem[p].copy)
  /\ Goto(p, "save", [mem[p] EXCEPT !.copy = Held(mem[p].copy)])
  /\ UNCHANGED <<runtimes, checkpoint, today, made, requests>>

Call(p) ==
  /\ pc[p] = "call" /\ ~Exhausted(mem[p].copy) /\ mem[p].runtime \notin closed
  /\ CountCall
  /\ \E health \in {"active", "degraded"} :
        Goto(p, "save", [mem[p] EXCEPT !.copy = Called(mem[p].copy, health)])
  /\ UNCHANGED <<runtimes, checkpoint, today, requests>>

\* The source raises, and the old counts are saved again: the client is
\* closed, or what came back to a call was not foreseen.
Raise(p) ==
  /\ pc[p] = "call" /\ ~Exhausted(mem[p].copy)
  /\ IF mem[p].runtime \in closed THEN UNCHANGED made ELSE CountCall
  /\ Goto(p, "save", [mem[p] EXCEPT !.copy = Degraded(mem[p].copy), !.raised = TRUE])
  /\ UNCHANGED <<runtimes, checkpoint, today, requests>>

SaveCheckpoint(p) ==
  /\ pc[p] = "save"
  /\ checkpoint' = mem[p].copy
  /\ Return(p, mem[p].raised)
  /\ UNCHANGED <<runtimes, today, made, requests>>

\* An observation or the checkpoint cannot be saved.
SaveFails(p) ==
  /\ pc[p] = "save"
  /\ Return(p, TRUE)
  /\ UNCHANGED <<runtimes, checkpoint, today, made, requests>>

-----------------------------------------------------------------------------
(* Requests                                                                *)

\* get_live_runtime: the registered runtime, or a new one.
Get(g) ==
  \/ current # 0 /\ g = current /\ UNCHANGED <<current, created>>
  \/ current = 0 /\ g = created + 1 /\ current' = g /\ created' = g

Ask(u, label) ==
  /\ pc[u] = "idle" /\ requests < MaxRequests /\ requests' = requests + 1
  /\ \E g \in Runtimes : Get(g) /\ Goto(u, label, [Blank EXCEPT !.runtime = g])
  /\ UNCHANGED <<thread, stopAsked, stopEvent, closed, checkpoint, today, made>>

\* start, under the lock of the runtime.
Start(u) ==
  /\ pc[u] = "start"
  /\ LET g == mem[u].runtime
     IN  IF Running(g) THEN UNCHANGED <<thread, stopAsked>>
         ELSE /\ stopAsked' = [stopAsked EXCEPT ![g] = FALSE]
              /\ thread' = [thread EXCEPT ![g] = "boot"]
  /\ Leave(u)
  /\ UNCHANGED <<current, created, stopEvent, closed, checkpoint, today, made, requests>>

\* stop, under the lock: between the closing of the loop and the end of the
\* thread it raises.  Its wait for the thread gives up after five seconds,
\* which is to say at any time.
Stop(u) ==
  /\ pc[u] = "stop"
  /\ LET g == mem[u].runtime
     IN  /\ stopAsked' = [stopAsked EXCEPT ![g] = TRUE]
         /\ stopEvent' = [stopEvent EXCEPT ![g] = IF @ = "clear" THEN "asked" ELSE @]
         /\ IF thread[g] = "closed" THEN Leave(u)
            ELSE Goto(u, mem[u].then, mem[u])
  /\ UNCHANGED <<current, created, thread, closed, checkpoint, today, made, requests>>

\* patch_live_settings: stop, save the settings and start again, if it runs.
Patch(u) ==
  /\ pc[u] = "patch"
  /\ IF Running(mem[u].runtime) THEN Goto(u, "stop", [mem[u] EXCEPT !.then = "start"])
     ELSE Leave(u)
  /\ UNCHANGED <<runtimes, checkpoint, today, made, requests>>

\* reload_live_runtime takes the registered runtime out, stops it and closes
\* its client; it registers another and starts that, if the first was running.
TakeOut(u) ==
  /\ pc[u] = "idle" /\ requests < MaxRequests /\ requests' = requests + 1
  /\ current' = 0
  /\ Goto(u, IF current = 0 THEN "register" ELSE "reload", [Blank EXCEPT !.runtime = current])
  /\ UNCHANGED <<created, thread, stopAsked, stopEvent, closed, checkpoint, today, made>>

\* Mutant: the old runtime is left alone.
Reload_NoStop(u) ==
  /\ pc[u] = "reload"
  /\ Goto(u, "close", [mem[u] EXCEPT !.was = Running(mem[u].runtime)])
  /\ UNCHANGED <<runtimes, checkpoint, today, made, requests>>

Reload(u) ==
  /\ pc[u] = "reload"
  /\ Goto(u, "stop", [mem[u] EXCEPT !.was = Running(mem[u].runtime), !.then = "close"])
  /\ UNCHANGED <<runtimes, checkpoint, today, made, requests>>

CloseClient(u) ==
  /\ pc[u] = "close"
  /\ closed' = closed \cup {mem[u].runtime}
  /\ Goto(u, "register", mem[u])
  /\ UNCHANGED <<current, created, thread, stopAsked, stopEvent, checkpoint, today, made, requests>>

Register(u) ==
  /\ pc[u] = "register"
  /\ created < MaxRuntimes /\ created' = created + 1 /\ current' = created + 1
  /\ IF mem[u].was THEN Goto(u, "start", [Blank EXCEPT !.runtime = created + 1]) ELSE Leave(u)
  /\ UNCHANGED <<thread, stopAsked, stopEvent, closed, checkpoint, today, made, requests>>

-----------------------------------------------------------------------------
Midnight ==
  /\ today < MaxDays /\ today' = today + 1 /\ made' = 0
  /\ UNCHANGED <<runtimes, checkpoint, pc, mem, requests>>

\* The process dies, at any point, and is started again.
Restart ==
  /\ requests < MaxRequests /\ requests' = requests + 1
  /\ Fresh
  /\ UNCHANGED <<checkpoint, today, made>>

Poll(p) ==
  \/ ReadCheckpoint(p) \/ Hold(p) \/ Call(p) \/ Raise(p) \/ SaveCheckpoint(p) \/ SaveFails(p)

ThreadStep(g) == EnterLoop(g) \/ SetUp(g) \/ SetEvent(g) \/ EndLoop(g) \/ CloseLoop(g) \/ EndThread(g)

Next ==
  \/ \E g \in Runtimes : ThreadStep(g) \/ BeginPoll(g) \/ Poll(g)
  \/ \E u \in Readers : Ask(u, "read") \/ Poll(u)
  \/ \E u \in Admins : \/ \E label \in {"start", "stop", "patch"} : Ask(u, label)
                       \/ Start(u) \/ Stop(u) \/ Patch(u)
                       \/ TakeOut(u) \/ Reload(u) \/ CloseClient(u) \/ Register(u)
  \/ Midnight
  \/ Restart

Spec == Init /\ [][Next]_vars

\* A thread goes on, and the provider answers or times out (twenty seconds).
FairSpec == Spec /\ \A g \in Runtimes : WF_vars(ThreadStep(g)) /\ WF_vars(Poll(g))

-----------------------------------------------------------------------------
(* Properties                                                              *)

\* "Budget usage resets by UTC+8 calendar date" (docs/LIVE_EVENTS.md): however
\* polls overlap each other, midnight and restarts, no call of a day is counted
\* that was not made on it, and "exhausted" is not recorded before its time.
HoldIsDeserved ==
  checkpoint.day = today =>
    /\ checkpoint.calls <= made
    /\ checkpoint.health = "exhausted" => made >= Budget

\* With one admin, whatever a stop that times out leaves behind: the only
\* runtime that runs and was not told to stop is the registered one, or the one
\* being reloaded ("Single-process supervisor", live/runtime.py).
OnlyTheRegisteredRuns ==
  \A g \in Runtimes : Running(g) /\ ~stopAsked[g] =>
    \/ g = current
    \/ \E u \in Admins : mem[u].runtime = g /\ pc[u] \in {"reload", "stop"}

\* A runtime that is told to stop ends its thread, at whatever point of its
\* start, its sleep or a poll the order finds it (live/runtime.py line 175).
StopEnds == \A g \in Runtimes : Running(g) /\ stopAsked[g] ~> ~Running(g)
=============================================================================
