------------------------- MODULE LiveGatewayProofs -------------------------
(***************************************************************************)
(* Theorems about LiveGateway, for every budget and any number of admins,  *)
(* readers, runtimes, days and requests.                                   *)
(***************************************************************************)
EXTENDS LiveGateway, TLAPS

Processes == Users \cup Runtimes

\* TypeOK in parts: what the actions of one thread leave alone.
PlacesOK(p, label) == /\ label \in UserPCs \cup TaskPCs
                      /\ p \in Users => label \in UserPCs
                      /\ p \in Runtimes => label \in TaskPCs
ProcessesOK == /\ pc \in [Processes -> UserPCs \cup TaskPCs]
               /\ \A p \in Processes : PlacesOK(p, pc[p])
               /\ mem \in [Processes -> Locals]
RuntimesOK == /\ current \in 0..created /\ created \in 0..MaxRuntimes
              /\ thread \in [Runtimes -> Threads]
              /\ stopAsked \in [Runtimes -> BOOLEAN]
              /\ stopEvent \in [Runtimes -> {"none", "clear", "asked", "set"}]
              /\ closed \subseteq 0..MaxRuntimes
CallsOK == checkpoint \in Checkpoints /\ today \in 1..MaxDays /\ made \in 0..Budget

\* A checkpoint of day t, seen when n calls were made on it, counts no call
\* that was not made.
Honest(copy, t, n) ==
  /\ copy.day <= t
  /\ copy.day = t => copy.calls <= n /\ (copy.health = "exhausted" => n >= Budget)

\* The stored checkpoint becomes whatever copy is saved next, so every copy
\* has to be honest.
HInv == /\ ProcessesOK /\ RuntimesOK /\ CallsOK /\ requests \in 0..MaxRequests
        /\ Honest(checkpoint, today, made)
        /\ \A p \in Processes : Honest(mem[p].copy, today, made)

LEMMA TypeParts ==
  TypeOK <=> ProcessesOK /\ RuntimesOK /\ CallsOK /\ requests \in 0..MaxRequests
  BY DEF TypeOK, ProcessesOK, RuntimesOK, CallsOK, PlacesOK, Processes

-----------------------------------------------------------------------------
(* Local variables and copies                                              *)

LEMMA Apart == Users \cap Runtimes = {} /\ Admins \subseteq Users /\ Readers \subseteq Users
  BY GatewayUsers, GatewayBounds DEF Users, Runtimes

LEMMA BlankFacts ==
  /\ NoCheckpoint \in Checkpoints /\ Blank \in Locals /\ Blank.copy = NoCheckpoint
  /\ \A g \in Runtimes : /\ [Blank EXCEPT !.runtime = g] \in Locals
                         /\ [Blank EXCEPT !.runtime = g].copy = NoCheckpoint
<1>1. NoCheckpoint \in Checkpoints
  BY GatewayBounds, GatewayBudget DEF NoCheckpoint, Checkpoints
<1>2. Blank \in Locals /\ Blank.copy = NoCheckpoint
  BY <1>1, GatewayBounds DEF Blank, Locals
<1>3. ASSUME NEW g \in Runtimes
      PROVE  /\ [Blank EXCEPT !.runtime = g] \in Locals
             /\ [Blank EXCEPT !.runtime = g].copy = NoCheckpoint
  <2>1. g \in 0..MaxRuntimes BY GatewayBounds DEF Runtimes
  <2> QED BY <1>2, <2>1 DEF Locals, Blank
<1> QED BY <1>1, <1>2, <1>3

LEMMA NoCheckpointHonest ==
  ASSUME NEW t \in 1..MaxDays, NEW n PROVE Honest(NoCheckpoint, t, n)
  BY GatewayBounds DEF Honest, NoCheckpoint

\* More calls make no copy dishonest, and neither does a new day.
LEMMA HonestLater ==
  ASSUME NEW copy \in Checkpoints, NEW t \in Nat, NEW n \in Nat, Honest(copy, t, n)
  PROVE  /\ \A k \in Nat : n <= k => Honest(copy, t, k)
         /\ Honest(copy, t + 1, 0)
  BY GatewayBudget, GatewayBounds DEF Honest, Checkpoints

\* What a source makes of an honest checkpoint.
LEMMA CopiesMade ==
  ASSUME CallsOK, NEW copy \in Checkpoints, Honest(copy, today, made)
  PROVE  /\ Exhausted(copy) => Held(copy) \in Checkpoints /\ Honest(Held(copy), today, made)
         /\ Degraded(copy) \in Checkpoints /\ Honest(Degraded(copy), today, made)
         /\ ~Exhausted(copy) /\ CountCall =>
              /\ made' \in 0..Budget /\ made <= made'
              /\ \A health \in {"active", "degraded"} :
                    /\ Called(copy, health) \in Checkpoints
                    /\ Honest(Called(copy, health), today, made')
<1>1. CallsUsed(copy) \in 0..Budget /\ CallsUsed(copy) <= made
  BY GatewayBudget DEF CallsUsed, Honest, CallsOK, Checkpoints
<1>2. Exhausted(copy) => Held(copy) \in Checkpoints /\ Honest(Held(copy), today, made)
  BY <1>1, GatewayBudget, GatewayBounds DEF Exhausted, Held, Honest, CallsOK, Checkpoints
<1>3. Degraded(copy) \in Checkpoints /\ Honest(Degraded(copy), today, made)
  BY GatewayBudget, GatewayBounds DEF Degraded, Honest, CallsOK, Checkpoints
<1>4. ASSUME ~Exhausted(copy), CountCall, NEW health \in {"active", "degraded"}
      PROVE  /\ made' \in 0..Budget /\ made <= made'
             /\ Called(copy, health) \in Checkpoints
             /\ Honest(Called(copy, health), today, made')
  <2>1. made' \in 0..Budget /\ made <= made' /\ CallsUsed(copy) + 1 <= made'
    BY <1>1, <1>4, GatewayBudget DEF CountCall, Exhausted, CallsOK
  <2> QED BY <1>1, <1>4, <2>1, GatewayBudget, GatewayBounds
        DEF Exhausted, Called, Honest, CallsOK, Checkpoints
<1> QED BY <1>2, <1>3, <1>4

-----------------------------------------------------------------------------
(* Steps of one process                                                    *)

\* A process goes to a place of its own with proper local variables.
LEMMA GotoKeeps ==
  ASSUME ProcessesOK, NEW p \in Processes, NEW label, NEW m \in Locals,
         PlacesOK(p, label), Goto(p, label, m)
  PROVE  ProcessesOK'
<1>1. pc' \in [Processes -> UserPCs \cup TaskPCs] /\ mem' \in [Processes -> Locals]
  BY DEF ProcessesOK, PlacesOK, Goto
<1>2. \A q \in Processes : PlacesOK(q, pc'[q])
  BY DEF ProcessesOK, PlacesOK, Goto
<1> QED BY <1>1, <1>2 DEF ProcessesOK, PlacesOK, Processes, Users, Runtimes, UserPCs, TaskPCs,
                          Locals, Checkpoints

LEMMA GotoHonest ==
  ASSUME ProcessesOK, CallsOK, \A q \in Processes : Honest(mem[q].copy, today, made),
         made' \in Nat, made <= made',
         NEW p \in Processes, NEW label, NEW m, Honest(m.copy, today, made'), Goto(p, label, m)
  PROVE  \A q \in Processes : Honest(mem'[q].copy, today, made')
<1> SUFFICES ASSUME NEW q \in Processes PROVE Honest(mem'[q].copy, today, made')
  OBVIOUS
<1>1. mem[q].copy \in Checkpoints /\ today \in Nat /\ made \in Nat
  BY GatewayBudget, GatewayBounds DEF ProcessesOK, CallsOK, Locals
<1>2. Honest(mem[q].copy, today, made')
  BY <1>1, HonestLater
<1>3. mem'[q] = IF q = p THEN m ELSE mem[q]
  BY DEF Goto, ProcessesOK
<1> QED BY <1>2, <1>3

\* Both together, for a step that leaves the runtimes alone or keeps them.
LEMMA GotoStep ==
  ASSUME HInv, NEW p \in Processes, NEW label, NEW m \in Locals,
         PlacesOK(p, label), Goto(p, label, m), Honest(m.copy, today, made'),
         RuntimesOK', requests' \in 0..MaxRequests, today' = today,
         made' \in 0..Budget, made <= made',
         checkpoint' \in Checkpoints, Honest(checkpoint', today, made')
  PROVE  HInv'
<1>1. ProcessesOK' BY GotoKeeps DEF HInv
<1>2. \A q \in Processes : Honest(mem'[q].copy, today, made')
  BY GotoHonest, GatewayBudget DEF HInv
<1>3. CallsOK' BY DEF HInv, CallsOK, Checkpoints
<1> QED BY <1>1, <1>2, <1>3 DEF HInv, Honest, Processes, Users, Runtimes

-----------------------------------------------------------------------------
(* The thread of a runtime                                                 *)

\* Its steps touch no copy of the checkpoint.
LEMMA ThreadKeeps ==
  ASSUME HInv, NEW g \in Runtimes, ThreadStep(g) PROVE HInv'
<1> USE DEF HInv
<1>1. UNCHANGED <<current, created, stopAsked, closed, checkpoint, mem, today, made, requests>>
  BY DEF ThreadStep, EnterLoop, SetUp, SetEvent, EndLoop, CloseLoop, EndThread
<1>2. thread' \in [Runtimes -> Threads]
  BY DEF RuntimesOK, Threads, ThreadStep, EnterLoop, SetUp, SetEvent, EndLoop, CloseLoop, EndThread
<1>3. stopEvent' \in [Runtimes -> {"none", "clear", "asked", "set"}]
  BY DEF RuntimesOK, ThreadStep, EnterLoop, SetUp, SetEvent, EndLoop, CloseLoop, EndThread
<1>4. RuntimesOK'
  BY <1>1, <1>2, <1>3 DEF RuntimesOK, Runtimes, Threads
<1>5. pc' = pc \/ \E label \in {"wait", "gone"} : pc' = [pc EXCEPT ![g] = label]
  <2>1. ProcessesOK => pc = [pc EXCEPT ![g] = pc[g]]
    BY DEF ProcessesOK, Processes
  <2> QED BY <2>1 DEF ThreadStep, EnterLoop, SetUp, SetEvent, EndLoop, CloseLoop, EndThread
<1>6. ProcessesOK'
  <2>1. g \in Processes /\ g \notin Users BY Apart DEF Processes
  <2>2. pc' \in [Processes -> UserPCs \cup TaskPCs]
    BY <1>5 DEF ProcessesOK, TaskPCs
  <2>3. \A p \in Processes : PlacesOK(p, pc'[p])
    BY <1>5, <2>1 DEF ProcessesOK, PlacesOK, TaskPCs
  <2> QED BY <1>1, <2>2, <2>3 DEF ProcessesOK, PlacesOK, Processes, Users, Runtimes, UserPCs,
                                  TaskPCs, Locals, Checkpoints
<1> QED BY <1>1, <1>4, <1>6 DEF CallsOK, Honest, Processes, Users, Runtimes, Checkpoints

-----------------------------------------------------------------------------
(* A poll                                                                  *)

LEMMA BeginPollKeeps ==
  ASSUME HInv, NEW g \in Runtimes, BeginPoll(g) PROVE HInv'
<1>1. g \in Processes /\ PlacesOK(g, "read")
  BY Apart DEF Processes, PlacesOK, TaskPCs
<1> DEFINE m == [Blank EXCEPT !.runtime = g]
<1>2. m \in Locals /\ m.copy = NoCheckpoint
  BY BlankFacts
<1>3. RuntimesOK' /\ UNCHANGED <<checkpoint, today, made, requests>> /\ Goto(g, "read", m)
  BY DEF HInv, BeginPoll, RuntimesOK, runtimes, Runtimes, Threads
<1>4. Honest(m.copy, today, made')
  BY <1>2, NoCheckpointHonest DEF HInv, CallsOK
<1> HIDE DEF m
<1> QED BY <1>1, <1>2, <1>3, <1>4, GotoStep, GatewayBudget DEF HInv, CallsOK

\* However a poll returns, it forgets its copy.
LEMMA ReturnKeeps ==
  ASSUME HInv, NEW p \in Processes, NEW failed, Return(p, failed), UNCHANGED runtimes,
         UNCHANGED <<today, made, requests>>,
         checkpoint' \in Checkpoints, Honest(checkpoint', today, made)
  PROVE  HInv'
<1>1. \E label \in {"idle", "wait", "gone"} : PlacesOK(p, label) /\ Goto(p, label, Blank)
  BY Apart DEF Return, Leave, PlacesOK, UserPCs, TaskPCs, Processes
<1>2. RuntimesOK' BY DEF HInv, RuntimesOK, runtimes, Runtimes, Threads
<1>3. Blank \in Locals /\ Honest(Blank.copy, today, made')
  BY BlankFacts, NoCheckpointHonest DEF HInv, CallsOK
<1> QED BY <1>1, <1>2, <1>3, GotoStep, GatewayBudget DEF HInv, CallsOK

LEMMA ReadCheckpointKeeps ==
  ASSUME HInv, NEW p \in Processes, ReadCheckpoint(p) PROVE HInv'
<1> DEFINE m == [mem[p] EXCEPT !.copy = checkpoint]
<1>1. UNCHANGED runtimes /\ UNCHANGED <<checkpoint, today, made, requests>>
  BY DEF ReadCheckpoint
<1>2. CASE Return(p, TRUE)
  BY <1>1, <1>2, ReturnKeeps DEF HInv, CallsOK
<1>3. CASE Goto(p, "call", m)
  <2>1. PlacesOK(p, "call") BY DEF PlacesOK, UserPCs, TaskPCs
  <2>2. m \in Locals /\ m.copy = checkpoint
    BY DEF HInv, ProcessesOK, CallsOK, Locals
  <2>3. RuntimesOK' BY <1>1 DEF HInv, RuntimesOK, runtimes, Runtimes, Threads
  <2> HIDE DEF m
  <2> QED BY <1>1, <1>3, <2>1, <2>2, <2>3, GotoStep, GatewayBudget DEF HInv, CallsOK
<1> QED BY <1>2, <1>3 DEF ReadCheckpoint

\* The source is done and its checkpoint is about to be saved.
LEMMA SourceKeeps ==
  ASSUME HInv, NEW p \in Processes, NEW m \in Locals, Goto(p, "save", m),
         Honest(m.copy, today, made'), UNCHANGED runtimes,
         UNCHANGED <<checkpoint, today, requests>>, made' \in 0..Budget, made <= made'
  PROVE  HInv'
<1>1. PlacesOK(p, "save") BY DEF PlacesOK, UserPCs, TaskPCs
<1>2. RuntimesOK' BY DEF HInv, RuntimesOK, runtimes, Runtimes, Threads
<1>3. Honest(checkpoint', today, made')
  BY HonestLater, GatewayBudget, GatewayBounds DEF HInv, CallsOK
<1> QED BY <1>1, <1>2, <1>3, GotoStep DEF HInv, CallsOK

LEMMA CallKeeps ==
  ASSUME HInv, NEW p \in Processes, Hold(p) \/ Call(p) \/ Raise(p) PROVE HInv'
<1>1. CallsOK /\ mem[p] \in Locals /\ mem[p].copy \in Checkpoints
      /\ Honest(mem[p].copy, today, made) /\ made \in 0..Budget
  BY DEF HInv, ProcessesOK, CallsOK, Locals
<1>2. CASE Hold(p)
  <2> DEFINE m == [mem[p] EXCEPT !.copy = Held(mem[p].copy)]
  <2>1. Held(mem[p].copy) \in Checkpoints /\ Honest(Held(mem[p].copy), today, made)
    BY <1>1, <1>2, CopiesMade DEF Hold
  <2>2. m \in Locals /\ m.copy = Held(mem[p].copy) BY <1>1, <2>1 DEF Locals
  <2>3. Goto(p, "save", m) /\ UNCHANGED <<runtimes, checkpoint, today, made, requests>>
    BY <1>2 DEF Hold
  <2> HIDE DEF m
  <2> QED BY <1>1, <2>1, <2>2, <2>3, SourceKeeps, GatewayBudget
<1>3. CASE Call(p)
  <2>1. ~Exhausted(mem[p].copy) /\ CountCall /\ UNCHANGED <<runtimes, checkpoint, today, requests>>
    BY <1>3 DEF Call
  <2>2. PICK health \in {"active", "degraded"} :
          Goto(p, "save", [mem[p] EXCEPT !.copy = Called(mem[p].copy, health)])
    BY <1>3 DEF Call
  <2> DEFINE m == [mem[p] EXCEPT !.copy = Called(mem[p].copy, health)]
  <2>3. /\ Called(mem[p].copy, health) \in Checkpoints
        /\ Honest(Called(mem[p].copy, health), today, made')
        /\ made' \in 0..Budget /\ made <= made'
    BY <1>1, <2>1, CopiesMade
  <2>4. m \in Locals /\ m.copy = Called(mem[p].copy, health) BY <1>1, <2>3 DEF Locals
  <2>5. Goto(p, "save", m) BY <2>2
  <2> HIDE DEF m
  <2> QED BY <2>1, <2>3, <2>4, <2>5, SourceKeeps
<1>4. CASE Raise(p)
  <2> DEFINE m == [mem[p] EXCEPT !.copy = Degraded(mem[p].copy), !.raised = TRUE]
  <2>1. Degraded(mem[p].copy) \in Checkpoints /\ Honest(Degraded(mem[p].copy), today, made)
    BY <1>1, CopiesMade
  <2>2. m \in Locals /\ m.copy = Degraded(mem[p].copy) BY <1>1, <2>1 DEF Locals
  <2>3. Goto(p, "save", m) /\ ~Exhausted(mem[p].copy)
        /\ UNCHANGED <<runtimes, checkpoint, today, requests>>
        /\ (made' = made \/ CountCall)
    BY <1>4 DEF Raise
  <2>4. made' \in 0..Budget /\ made <= made'
    BY <1>1, <2>3, CopiesMade, GatewayBudget
  <2>5. Honest(m.copy, today, made')
    <3>1. \A k \in Nat : made <= k => Honest(Degraded(mem[p].copy), today, k)
      BY <1>1, <2>1, HonestLater, GatewayBudget, GatewayBounds DEF CallsOK
    <3> QED BY <2>2, <2>4, <3>1, GatewayBudget
  <2> HIDE DEF m
  <2> QED BY <2>2, <2>3, <2>4, <2>5, SourceKeeps
<1> QED BY <1>2, <1>3, <1>4

LEMMA SaveKeeps ==
  ASSUME HInv, NEW p \in Processes, SaveCheckpoint(p) \/ SaveFails(p) PROVE HInv'
<1>1. UNCHANGED runtimes /\ UNCHANGED <<today, made, requests>>
  BY DEF SaveCheckpoint, SaveFails
<1>2. checkpoint' \in Checkpoints /\ Honest(checkpoint', today, made)
  BY DEF SaveCheckpoint, SaveFails, HInv, ProcessesOK, CallsOK, Locals
<1>3. \E failed : Return(p, failed)
  BY DEF SaveCheckpoint, SaveFails
<1> QED BY <1>1, <1>2, <1>3, ReturnKeeps

LEMMA PollKeeps ==
  ASSUME HInv, NEW p \in Processes, Poll(p) PROVE HInv'
  BY ReadCheckpointKeeps, CallKeeps, SaveKeeps DEF Poll

-----------------------------------------------------------------------------
(* Requests                                                                *)

\* A user goes on with a copy it has, or with none.
LEMMA RequestStep ==
  ASSUME HInv, NEW u \in Users, NEW label \in UserPCs, NEW m \in Locals, Goto(u, label, m),
         m.copy = NoCheckpoint \/ m.copy = mem[u].copy,
         RuntimesOK', requests' \in 0..MaxRequests, UNCHANGED <<checkpoint, today, made>>
  PROVE  HInv'
<1>1. u \in Processes /\ PlacesOK(u, label)
  BY Apart DEF Processes, PlacesOK
<1>2. Honest(m.copy, today, made')
  BY <1>1, NoCheckpointHonest DEF HInv, CallsOK
<1> QED BY <1>1, <1>2, GotoStep, GatewayBudget DEF HInv, CallsOK

LEMMA AskKeeps ==
  ASSUME HInv, NEW u \in Users, NEW label \in UserPCs, Ask(u, label) PROVE HInv'
<1>1. PICK g \in Runtimes : Get(g) /\ Goto(u, label, [Blank EXCEPT !.runtime = g])
  BY DEF Ask
<1> DEFINE m == [Blank EXCEPT !.runtime = g]
<1>2. m \in Locals /\ m.copy = NoCheckpoint /\ Goto(u, label, m)
  BY <1>1, BlankFacts
<1>3. current' \in 0..created' /\ created' \in 0..MaxRuntimes
  BY <1>1, GatewayBounds DEF Get, HInv, RuntimesOK, Runtimes
<1>4. RuntimesOK'
  BY <1>3 DEF Ask, HInv, RuntimesOK, Runtimes, Threads
<1>5. requests' \in 0..MaxRequests /\ UNCHANGED <<checkpoint, today, made>>
  BY GatewayBounds DEF Ask, HInv
<1> HIDE DEF m
<1> QED BY <1>2, <1>4, <1>5, RequestStep

\* What the actions of a user make of its local variables.
LEMMA LocalsMade ==
  ASSUME HInv, NEW u \in Users
  PROVE  /\ mem[u] \in Locals
         /\ Blank \in Locals /\ Blank.copy = NoCheckpoint
         /\ \A then \in {"start", "close"}, was \in BOOLEAN :
               LET m == [mem[u] EXCEPT !.was = was, !.then = then]
               IN  m \in Locals /\ m.copy = mem[u].copy
         /\ \A then \in {"start", "close"} :
               LET m == [mem[u] EXCEPT !.then = then]
               IN  m \in Locals /\ m.copy = mem[u].copy
         /\ \A g \in 0..MaxRuntimes :
               LET m == [Blank EXCEPT !.runtime = g]
               IN  m \in Locals /\ m.copy = NoCheckpoint
<1>1. mem[u] \in Locals BY DEF HInv, ProcessesOK, Processes
<1>2. Blank \in Locals /\ Blank.copy = NoCheckpoint BY BlankFacts
<1>3. ASSUME NEW then \in {"start", "close"}, NEW was \in BOOLEAN
      PROVE  LET m == [mem[u] EXCEPT !.was = was, !.then = then]
             IN  m \in Locals /\ m.copy = mem[u].copy
  BY <1>1 DEF Locals
<1>4. ASSUME NEW then \in {"start", "close"}
      PROVE  LET m == [mem[u] EXCEPT !.then = then]
             IN  m \in Locals /\ m.copy = mem[u].copy
  BY <1>1 DEF Locals
<1>5. ASSUME NEW g \in 0..MaxRuntimes
      PROVE  LET m == [Blank EXCEPT !.runtime = g]
             IN  m \in Locals /\ m.copy = NoCheckpoint
  BY <1>2 DEF Locals, Blank
<1> QED BY <1>1, <1>2, <1>3, <1>4, <1>5

LEMMA StartKeeps ==
  ASSUME HInv, NEW u \in Users, Start(u) PROVE HInv'
<1>1. thread' \in [Runtimes -> Threads] /\ stopAsked' \in [Runtimes -> BOOLEAN]
  BY DEF Start, HInv, RuntimesOK, Threads
<1>2. RuntimesOK'
  BY <1>1 DEF Start, HInv, RuntimesOK, Runtimes, Threads
<1>3. Goto(u, "idle", Blank) /\ UNCHANGED <<checkpoint, today, made, requests>>
  BY DEF Start, Leave
<1>4. "idle" \in UserPCs BY DEF UserPCs
<1> QED BY <1>2, <1>3, <1>4, LocalsMade, RequestStep DEF HInv

LEMMA StopKeeps ==
  ASSUME HInv, NEW u \in Users, Stop(u) PROVE HInv'
<1>1. stopAsked' \in [Runtimes -> BOOLEAN]
      /\ stopEvent' \in [Runtimes -> {"none", "clear", "asked", "set"}]
  BY DEF Stop, HInv, RuntimesOK
<1>2. RuntimesOK'
  BY <1>1 DEF Stop, HInv, RuntimesOK, Runtimes, Threads
<1>3. Goto(u, "idle", Blank) \/ Goto(u, mem[u].then, mem[u])
  BY DEF Stop, Leave
<1>4. "idle" \in UserPCs /\ mem[u].then \in UserPCs
  BY LocalsMade DEF UserPCs, Locals
<1>5. UNCHANGED <<checkpoint, today, made, requests>>
  BY DEF Stop
<1> QED BY <1>2, <1>3, <1>4, <1>5, LocalsMade, RequestStep DEF HInv

LEMMA PatchKeeps ==
  ASSUME HInv, NEW u \in Users, Patch(u) PROVE HInv'
<1>1. RuntimesOK' /\ UNCHANGED <<checkpoint, today, made, requests>>
  BY DEF Patch, HInv, RuntimesOK, runtimes, Runtimes, Threads
<1>2. Goto(u, "stop", [mem[u] EXCEPT !.then = "start"]) \/ Goto(u, "idle", Blank)
  BY DEF Patch, Leave
<1>3. "idle" \in UserPCs /\ "stop" \in UserPCs BY DEF UserPCs
<1> QED BY <1>1, <1>2, <1>3, LocalsMade, RequestStep DEF HInv

LEMMA ReloadKeeps ==
  ASSUME HInv, NEW u \in Users,
         TakeOut(u) \/ Reload(u) \/ CloseClient(u) \/ Register(u)
  PROVE  HInv'
<1>1. {"idle", "register", "reload", "stop", "start"} \subseteq UserPCs
  BY DEF UserPCs
<1>2. CASE TakeOut(u)
  <2>1. RuntimesOK'
    BY <1>2, GatewayBounds DEF TakeOut, HInv, RuntimesOK, Runtimes, Threads
  <2>2. requests' \in 0..MaxRequests /\ UNCHANGED <<checkpoint, today, made>>
    BY <1>2, GatewayBounds DEF TakeOut, HInv
  <2>3. current \in 0..MaxRuntimes
    BY GatewayBounds DEF HInv, RuntimesOK
  <2>4. \E label \in {"register", "reload"} : Goto(u, label, [Blank EXCEPT !.runtime = current])
    BY <1>2 DEF TakeOut
  <2> DEFINE m == [Blank EXCEPT !.runtime = current]
  <2>5. m \in Locals /\ m.copy = NoCheckpoint BY <2>3, LocalsMade
  <2>6. PICK label \in {"register", "reload"} : Goto(u, label, m) BY <2>4
  <2> HIDE DEF m
  <2> QED BY <1>1, <2>1, <2>2, <2>5, <2>6, RequestStep
<1>3. CASE Reload(u)
  <2>1. RuntimesOK' /\ UNCHANGED <<checkpoint, today, made, requests>>
    BY <1>3 DEF Reload, HInv, RuntimesOK, runtimes, Runtimes, Threads
  <2>2. Running(mem[u].runtime) \in BOOLEAN BY DEF Running
  <2>3. Goto(u, "stop", [mem[u] EXCEPT !.was = Running(mem[u].runtime), !.then = "close"])
    BY <1>3 DEF Reload
  <2> DEFINE m == [mem[u] EXCEPT !.was = Running(mem[u].runtime), !.then = "close"]
  <2>4. m \in Locals /\ m.copy = mem[u].copy BY <2>2, LocalsMade
  <2>5. Goto(u, "stop", m) BY <2>3
  <2> HIDE DEF m
  <2> QED BY <1>1, <2>1, <2>4, <2>5, RequestStep DEF HInv
<1>4. CASE CloseClient(u)
  <2>1. closed' \subseteq 0..MaxRuntimes
    <3>1. mem[u] \in Locals BY LocalsMade
    <3>2. mem[u].runtime \in 0..MaxRuntimes BY <3>1 DEF Locals
    <3>3. closed' = closed \cup {mem[u].runtime} BY <1>4 DEF CloseClient
    <3> QED BY <3>2, <3>3 DEF HInv, RuntimesOK
  <2>2. RuntimesOK'
    BY <1>4, <2>1 DEF CloseClient, HInv, RuntimesOK, Runtimes, Threads
  <2>3. Goto(u, "register", mem[u]) /\ UNCHANGED <<checkpoint, today, made, requests>>
    BY <1>4 DEF CloseClient
  <2> QED BY <1>1, <2>2, <2>3, LocalsMade, RequestStep DEF HInv
<1>5. CASE Register(u)
  <2>1. created + 1 \in 0..MaxRuntimes /\ current' = created + 1 /\ created' = created + 1
    BY <1>5, GatewayBounds DEF Register, HInv, RuntimesOK
  <2>2. RuntimesOK'
    BY <1>5, <2>1 DEF Register, HInv, RuntimesOK, Runtimes, Threads
  <2>3. /\ \/ Goto(u, "start", [Blank EXCEPT !.runtime = created + 1])
           \/ Goto(u, "idle", Blank)
        /\ UNCHANGED <<checkpoint, today, made, requests>>
    BY <1>5 DEF Register, Leave
  <2> QED BY <1>1, <2>1, <2>2, <2>3, LocalsMade, RequestStep DEF HInv
<1> QED BY <1>2, <1>3, <1>4, <1>5

-----------------------------------------------------------------------------
(* The day, the process, and the theorems                                  *)

LEMMA MidnightKeeps ==
  ASSUME HInv, Midnight PROVE HInv'
<1>1. ProcessesOK' /\ RuntimesOK' /\ requests' \in 0..MaxRequests
  BY DEF Midnight, HInv, ProcessesOK, RuntimesOK, runtimes, PlacesOK, Processes, Users, Runtimes,
         UserPCs, TaskPCs, Threads, Locals, Checkpoints
<1>2. CallsOK'
  BY GatewayBounds, GatewayBudget DEF Midnight, HInv, CallsOK, Checkpoints
<1>3. ASSUME NEW copy \in Checkpoints, Honest(copy, today, made)
      PROVE  Honest(copy, today', made')
  BY <1>3, HonestLater, GatewayBounds, GatewayBudget DEF Midnight, HInv, CallsOK
<1>4. Honest(checkpoint', today', made')
  BY <1>3 DEF Midnight, HInv, CallsOK
<1>5. \A p \in Processes : Honest(mem'[p].copy, today', made')
  BY <1>3 DEF Midnight, HInv, ProcessesOK, Locals
<1> QED BY <1>1, <1>2, <1>4, <1>5 DEF HInv, Honest, Processes, Users, Runtimes

LEMMA FreshProcess ==
  ASSUME Fresh PROVE RuntimesOK' /\ ProcessesOK' /\ \A p \in Processes : mem'[p] = Blank
<1>1. RuntimesOK'
  BY GatewayBounds DEF Fresh, RuntimesOK, Runtimes, Threads
<1>2. Blank \in Locals BY BlankFacts
<1>3. \A p \in Processes : mem'[p] = Blank /\ PlacesOK(p, pc'[p])
  BY Apart DEF Fresh, Processes, PlacesOK, UserPCs, TaskPCs
<1>4. pc' \in [Processes -> UserPCs \cup TaskPCs] /\ mem' \in [Processes -> Locals]
  BY <1>2 DEF Fresh, Processes, UserPCs, TaskPCs
<1> QED BY <1>1, <1>3, <1>4 DEF ProcessesOK, PlacesOK, Processes, Users, Runtimes, UserPCs,
                                TaskPCs, Locals, Checkpoints

LEMMA RestartKeeps ==
  ASSUME HInv, Restart PROVE HInv'
<1>1. RuntimesOK' /\ ProcessesOK' /\ \A p \in Processes : mem'[p] = Blank
  BY FreshProcess DEF Restart
<1>2. UNCHANGED <<checkpoint, today, made>> /\ requests' \in 0..MaxRequests
  BY GatewayBounds DEF Restart, HInv
<1>3. Honest(Blank.copy, today, made)
  BY BlankFacts, NoCheckpointHonest DEF HInv, CallsOK
<1> QED BY <1>1, <1>2, <1>3 DEF HInv, CallsOK, Honest, Processes, Users, Runtimes, Checkpoints

LEMMA HInvInit == Init => HInv
<1> SUFFICES ASSUME Init PROVE HInv
  OBVIOUS
<1>1. RuntimesOK /\ CallsOK /\ requests \in 0..MaxRequests
  BY BlankFacts, GatewayBounds, GatewayBudget DEF Init, RuntimesOK, CallsOK, Runtimes, Threads
<1>2. Blank \in Locals /\ Blank.copy = NoCheckpoint BY BlankFacts
<1>3. \A p \in Processes : mem[p] = Blank /\ PlacesOK(p, pc[p])
  BY Apart DEF Init, Processes, PlacesOK, UserPCs, TaskPCs
<1>4. pc \in [Processes -> UserPCs \cup TaskPCs] /\ mem \in [Processes -> Locals]
  BY <1>2 DEF Init, Processes, UserPCs, TaskPCs
<1>5. Honest(NoCheckpoint, today, made) /\ checkpoint = NoCheckpoint
  BY <1>1, NoCheckpointHonest DEF CallsOK, Init
<1> QED BY <1>1, <1>2, <1>3, <1>4, <1>5 DEF HInv, ProcessesOK

LEMMA HInvStep == HInv /\ [Next]_vars => HInv'
<1> SUFFICES ASSUME HInv, [Next]_vars PROVE HInv'
  OBVIOUS
<1>1. CASE UNCHANGED vars
  BY <1>1 DEF vars, HInv, ProcessesOK, RuntimesOK, CallsOK, Honest, runtimes, PlacesOK, Processes,
              Users, Runtimes, UserPCs, TaskPCs, Threads, Locals, Checkpoints
<1>2. ASSUME NEW g \in Runtimes, ThreadStep(g) \/ BeginPoll(g) \/ Poll(g) PROVE HInv'
  BY <1>2, ThreadKeeps, BeginPollKeeps, PollKeeps DEF Processes
<1>3. ASSUME NEW u \in Readers, Ask(u, "read") \/ Poll(u) PROVE HInv'
  BY <1>3, Apart, AskKeeps, PollKeeps DEF Processes, UserPCs
<1>4. ASSUME NEW u \in Admins, NEW label \in {"start", "stop", "patch"}, Ask(u, label)
      PROVE  HInv'
  BY <1>4, Apart, AskKeeps DEF UserPCs
<1>5. ASSUME NEW u \in Admins,
             \/ Start(u) \/ Stop(u) \/ Patch(u)
             \/ TakeOut(u) \/ Reload(u) \/ CloseClient(u) \/ Register(u)
      PROVE  HInv'
  BY <1>5, Apart, StartKeeps, StopKeeps, PatchKeeps, ReloadKeeps
<1> QED BY <1>1, <1>2, <1>3, <1>4, <1>5, MidnightKeeps, RestartKeeps DEF Next

\* Every budget, whatever overlaps and whenever midnight or a restart comes:
\* the types (live/mcp.py line 384 keeps the count within the budget) ...
THEOREM GatewayTypeCorrect == Spec => []TypeOK
<1>1. HInv => TypeOK BY TypeParts DEF HInv
<1> QED BY <1>1, HInvInit, HInvStep, PTL DEF Spec

\* ... and a count that never runs ahead of the calls of its day, nor a hold
\* ahead of the budget (live/mcp.py lines 319-392, live/service.py lines 246-285).
THEOREM HoldCorrect == Spec => []HoldIsDeserved
<1>1. HInv => HoldIsDeserved BY DEF HInv, HoldIsDeserved, Honest
<1> QED BY <1>1, HInvInit, HInvStep, PTL DEF Spec

-----------------------------------------------------------------------------
(* One admin: what runs is registered                                      *)

Reloading(a) == \/ pc[a] \in {"reload", "close", "register"}
                \/ pc[a] = "stop" /\ mem[a].then = "close"

\* While the admin reloads, a reader may register a new runtime, but nobody
\* starts it; otherwise the admin is at work on the registered one.
RInv(a) ==
  /\ \A g \in Runtimes : g > created => ~Running(g)
  /\ \A g \in Runtimes : Running(g) /\ ~stopAsked[g] =>
       \/ g = current
       \/ pc[a] \in {"reload", "stop"} /\ mem[a].runtime = g
  /\ Reloading(a) => \A g \in Runtimes : g = current => ~Running(g)
  /\ \/ pc[a] \in {"start", "patch"}
     \/ pc[a] = "stop" /\ mem[a].then # "close"
     => mem[a].runtime = current /\ current \in Runtimes

\* Steps of others: no thread comes to life.
LEMMA OthersKeep ==
  ASSUME HInv, NEW a \in Users, RInv(a), UNCHANGED <<current, created, stopAsked>>,
         pc'[a] = pc[a], mem'[a] = mem[a], \A g \in Runtimes : Running(g)' => Running(g)
  PROVE  RInv(a)'
  BY DEF RInv, Reloading, Runtimes

\* A step of another process leaves the admin where it is.
LEMMA GotoOther ==
  ASSUME HInv, NEW p \in Processes, NEW q \in Processes, p # q, NEW label, NEW m, Goto(p, label, m)
  PROVE  pc'[q] = pc[q] /\ mem'[q] = mem[q]
  BY DEF HInv, ProcessesOK, Goto

LEMMA ThreadKeepsRegistry ==
  ASSUME HInv, NEW a \in Users, RInv(a), NEW g \in Runtimes, ThreadStep(g)
  PROVE  RInv(a)'
<1>1. UNCHANGED <<current, created, stopAsked, mem>>
  BY DEF ThreadStep, EnterLoop, SetUp, SetEvent, EndLoop, CloseLoop, EndThread
<1>2. thread \in [Runtimes -> Threads] BY DEF HInv, RuntimesOK
<1>3. Running(g) /\ \E state : thread' = [thread EXCEPT ![g] = state]
  <2>1. thread = [thread EXCEPT ![g] = thread[g]] BY <1>2
  <2> QED BY <2>1 DEF Running, ThreadStep, EnterLoop, SetUp, SetEvent, EndLoop, CloseLoop, EndThread
<1>4. \A h \in Runtimes : Running(h)' => Running(h)
  BY <1>2, <1>3 DEF Running
<1>5. pc' = pc \/ \E label : pc' = [pc EXCEPT ![g] = label]
  BY DEF ThreadStep, EnterLoop, SetUp, SetEvent, EndLoop, CloseLoop, EndThread
<1>6. a # g /\ a \in Processes BY Apart DEF Processes
<1>7. pc'[a] = pc[a] BY <1>5, <1>6 DEF HInv, ProcessesOK
<1> QED BY <1>1, <1>4, <1>7, OthersKeep

LEMMA PollKeepsRegistry ==
  ASSUME HInv, NEW a \in Users, RInv(a), NEW p \in Processes, p # a,
         BeginPoll(p) \/ Poll(p)
  PROVE  RInv(a)'
<1>1. UNCHANGED runtimes
  BY DEF BeginPoll, Poll, ReadCheckpoint, Hold, Call, Raise, SaveCheckpoint, SaveFails
<1>2. \E label, m : Goto(p, label, m)
  BY DEF BeginPoll, Poll, ReadCheckpoint, Hold, Call, Raise, SaveCheckpoint, SaveFails, Return, Leave
<1>3. a \in Processes BY DEF Processes
<1>4. pc'[a] = pc[a] /\ mem'[a] = mem[a] BY <1>2, <1>3, GotoOther
<1>5. UNCHANGED <<current, created, stopAsked, thread>> BY <1>1 DEF runtimes
<1>6. \A g \in Runtimes : Running(g)' => Running(g) BY <1>5 DEF Running
<1> QED BY <1>4, <1>5, <1>6, OthersKeep

\* A runtime that Get makes is one that does not run.
LEMMA GetKeeps ==
  ASSUME HInv, NEW a \in Users, RInv(a), NEW g \in Runtimes, Get(g), UNCHANGED <<thread, stopAsked>>
  PROVE  /\ g = current' /\ created <= created'
         /\ \A h \in Runtimes : h > created' => ~Running(h)'
         /\ current = 0 => ~Running(g)
         /\ current # 0 => current' = current
  BY GatewayBounds DEF Get, RInv, HInv, RuntimesOK, Running, Runtimes

LEMMA ReaderAskKeepsRegistry ==
  ASSUME HInv, NEW a \in Users, RInv(a), NEW u \in Users, u # a, Ask(u, "read")
  PROVE  RInv(a)'
<1>1. PICK g \in Runtimes : Get(g) /\ Goto(u, "read", [Blank EXCEPT !.runtime = g])
  BY DEF Ask
<1>2. UNCHANGED <<thread, stopAsked>> BY DEF Ask
<1>3. pc'[a] = pc[a] /\ mem'[a] = mem[a] BY <1>1, GotoOther DEF Processes
<1>4. /\ \A h \in Runtimes : h > created' => ~Running(h)'
      /\ g = current' /\ (current = 0 => ~Running(g)) /\ (current # 0 => current' = current)
  BY <1>1, <1>2, GetKeeps
<1>5. CASE current # 0
  BY <1>2, <1>3, <1>4, <1>5 DEF RInv, Reloading, Running, Runtimes
<1>6. CASE current = 0
  BY <1>2, <1>3, <1>4, <1>6 DEF RInv, Reloading, Running, Runtimes
<1> QED BY <1>5, <1>6

\* The admin asks for the registered runtime, or for one that does not run.
LEMMA AdminAskKeepsRegistry ==
  ASSUME HInv, NEW a \in Users, RInv(a), NEW label \in {"start", "stop", "patch"}, Ask(a, label)
  PROVE  RInv(a)'
<1>1. PICK g \in Runtimes : Get(g) /\ Goto(a, label, [Blank EXCEPT !.runtime = g])
  BY DEF Ask
<1>2. UNCHANGED <<thread, stopAsked>> /\ pc[a] = "idle" BY DEF Ask
<1>3. pc'[a] = label /\ mem'[a].runtime = g /\ mem'[a].then = "idle"
  BY <1>1 DEF Goto, HInv, ProcessesOK, Processes, Blank
<1>4. /\ \A h \in Runtimes : h > created' => ~Running(h)'
      /\ g = current' /\ (current = 0 => ~Running(g)) /\ (current # 0 => current' = current)
  BY <1>1, <1>2, GetKeeps
<1>5. \A h \in Runtimes : Running(h)' /\ ~stopAsked'[h] => h = current'
  BY <1>2, <1>4 DEF RInv, Running, Runtimes
<1> QED BY <1>1, <1>2, <1>3, <1>4, <1>5 DEF RInv, Reloading

LEMMA StartKeepsRegistry ==
  ASSUME HInv, NEW a \in Users, RInv(a), Start(a) PROVE RInv(a)'
<1>1. PICK g \in Runtimes : g = mem[a].runtime /\ g = current
  BY DEF Start, RInv
<1>2. pc[a] = "start" /\ pc'[a] = "idle" /\ UNCHANGED <<current, created>>
  BY DEF Start, Leave, Goto, HInv, ProcessesOK, Processes
<1>3. current \in 0..created BY DEF HInv, RuntimesOK
<1>4. \A h \in Runtimes : h # g => Running(h)' = Running(h) /\ stopAsked'[h] = stopAsked[h]
  BY <1>1 DEF Start, Running, HInv, RuntimesOK
<1>5. \A h \in Runtimes : h > created' => ~Running(h)'
  BY <1>1, <1>2, <1>3, <1>4, GatewayBounds DEF RInv, HInv, RuntimesOK, Runtimes
<1>6. \A h \in Runtimes : Running(h)' /\ ~stopAsked'[h] => h = current'
  BY <1>1, <1>2, <1>4 DEF RInv
<1> QED BY <1>2, <1>5, <1>6 DEF RInv, Reloading

LEMMA StopKeepsRegistry ==
  ASSUME HInv, NEW a \in Users, RInv(a), Stop(a) PROVE RInv(a)'
<1> DEFINE g == mem[a].runtime
<1>1. pc[a] = "stop" /\ UNCHANGED <<current, created, thread>>
  BY DEF Stop
<1>2. stopAsked' = [stopAsked EXCEPT ![g] = TRUE] BY DEF Stop
<1>3. \A h \in Runtimes : Running(h)' /\ ~stopAsked'[h] => h # g /\ Running(h) /\ ~stopAsked[h]
  BY <1>1, <1>2 DEF Running, HInv, RuntimesOK
<1>4. \/ pc'[a] = "idle"
      \/ pc'[a] = mem[a].then /\ mem'[a] = mem[a] /\ mem[a].then \in {"idle", "start", "close"}
  BY DEF Stop, Leave, Goto, HInv, ProcessesOK, Processes, Locals
<1>5. \A h \in Runtimes : Running(h)' /\ ~stopAsked'[h] => h = current'
  BY <1>1, <1>3 DEF RInv
<1>6. \A h \in Runtimes : h > created' => ~Running(h)'
  BY <1>1 DEF RInv, Running
<1>7. (\A h \in Runtimes : h = current => ~Running(h)) =>
        \A h \in Runtimes : h = current' => ~Running(h)'
  BY <1>1 DEF Running
<1> QED BY <1>1, <1>4, <1>5, <1>6, <1>7 DEF RInv, Reloading

\* Steps of the admin alone, its place and its variables.
LEMMA AdminGoes ==
  ASSUME HInv, NEW a \in Users, NEW label, NEW m, Goto(a, label, m)
  PROVE  pc'[a] = label /\ mem'[a] = m
  BY DEF HInv, ProcessesOK, Processes, Goto

LEMMA PatchKeepsRegistry ==
  ASSUME HInv, NEW a \in Users, RInv(a), Patch(a) PROVE RInv(a)'
<1>1. UNCHANGED <<current, created, thread, stopAsked>> BY DEF Patch, runtimes
<1>2. \A h \in Runtimes : Running(h)' = Running(h) BY <1>1 DEF Running
<1>3. \/ pc'[a] = "idle"
      \/ /\ pc'[a] = "stop" /\ mem'[a].runtime = mem[a].runtime /\ mem'[a].then = "start"
  <2>1. mem[a] \in Locals BY LocalsMade
  <2> QED BY <2>1, AdminGoes DEF Patch, Leave, Locals
<1> QED BY <1>1, <1>2, <1>3 DEF Patch, RInv, Reloading

LEMMA ReloadKeepsRegistry ==
  ASSUME HInv, NEW a \in Users, RInv(a), TakeOut(a) \/ Reload(a) \/ CloseClient(a) \/ Register(a)
  PROVE  RInv(a)'
<1>0. UNCHANGED <<thread, stopAsked>> /\ mem[a] \in Locals
  BY LocalsMade DEF TakeOut, Reload, CloseClient, Register, runtimes
<1>1. \A h \in Runtimes : Running(h)' = Running(h) BY <1>0 DEF Running
<1>2. CASE TakeOut(a)
  <2>1. current' = 0 /\ created' = created /\ pc[a] = "idle" BY <1>2 DEF TakeOut
  <2>2. mem'[a].runtime = current /\ pc'[a] = IF current = 0 THEN "register" ELSE "reload"
    BY <1>2, AdminGoes DEF TakeOut, Blank
  <2> QED BY <1>0, <1>1, <2>1, <2>2, GatewayBounds DEF RInv, Reloading, Runtimes
<1>3. CASE Reload(a)
  <2>1. UNCHANGED <<current, created>> /\ pc[a] = "reload" BY <1>3 DEF Reload, runtimes
  <2>2. pc'[a] = "stop" /\ mem'[a].runtime = mem[a].runtime /\ mem'[a].then = "close"
    <3> DEFINE m == [mem[a] EXCEPT !.was = Running(mem[a].runtime), !.then = "close"]
    <3>1. m.runtime = mem[a].runtime /\ m.then = "close" BY <1>0 DEF Locals
    <3>2. Goto(a, "stop", m) BY <1>3 DEF Reload
    <3> HIDE DEF m
    <3> QED BY <3>1, <3>2, AdminGoes
  <2> QED BY <1>0, <1>1, <2>1, <2>2 DEF RInv, Reloading
<1>4. CASE CloseClient(a)
  <2>1. UNCHANGED <<current, created>> /\ pc[a] = "close" BY <1>4 DEF CloseClient
  <2>2. pc'[a] = "register" BY <1>4, AdminGoes DEF CloseClient
  <2> QED BY <1>0, <1>1, <2>1, <2>2 DEF RInv, Reloading
<1>5. CASE Register(a)
  <2>1. /\ pc[a] = "register" /\ current' = created + 1 /\ created' = created + 1
        /\ created + 1 \in Runtimes
    BY <1>5, GatewayBounds DEF Register, HInv, RuntimesOK, Runtimes
  <2>2. \/ pc'[a] = "idle"
        \/ pc'[a] = "start" /\ mem'[a].runtime = created + 1
    BY <1>5, AdminGoes DEF Register, Leave, Blank
  <2>3. \A h \in Runtimes : Running(h) => stopAsked[h]
    BY <2>1 DEF RInv, Reloading
  <2>4. created \in Nat BY GatewayBounds DEF HInv, RuntimesOK
  <2> QED BY <1>0, <1>1, <2>1, <2>2, <2>3, <2>4 DEF RInv, Reloading, Runtimes
<1> QED BY <1>2, <1>3, <1>4, <1>5

LEMMA RegistryStep ==
  ASSUME NEW a, Admins = {a}, HInv, RInv(a), [Next]_vars
  PROVE  RInv(a)'
<1>1. a \in Users /\ a \notin Readers /\ a \notin Runtimes
  BY Apart, GatewayUsers DEF Users
<1>2. CASE UNCHANGED vars
  BY <1>1, <1>2, OthersKeep DEF vars, runtimes, Running
<1>3. ASSUME NEW g \in Runtimes, ThreadStep(g) \/ BeginPoll(g) \/ Poll(g) PROVE RInv(a)'
  BY <1>1, <1>3, ThreadKeepsRegistry, PollKeepsRegistry DEF Processes
<1>4. ASSUME NEW u \in Readers, Ask(u, "read") \/ Poll(u) PROVE RInv(a)'
  BY <1>1, <1>4, Apart, ReaderAskKeepsRegistry, PollKeepsRegistry DEF Processes
<1>5. ASSUME NEW u \in Admins, NEW label \in {"start", "stop", "patch"}, Ask(u, label)
      PROVE  RInv(a)'
  BY <1>1, <1>5, AdminAskKeepsRegistry
<1>6. ASSUME NEW u \in Admins,
             \/ Start(u) \/ Stop(u) \/ Patch(u)
             \/ TakeOut(u) \/ Reload(u) \/ CloseClient(u) \/ Register(u)
      PROVE  RInv(a)'
  BY <1>1, <1>6, StartKeepsRegistry, StopKeepsRegistry, PatchKeepsRegistry, ReloadKeepsRegistry
<1>7. CASE Midnight
  BY <1>1, <1>7, OthersKeep DEF Midnight, runtimes, Running
<1>8. CASE Restart
  <2>1. pc'[a] = "idle" /\ \A g \in Runtimes : thread'[g] = "none"
    BY <1>1, <1>8 DEF Restart, Fresh
  <2> QED BY <2>1 DEF RInv, Reloading, Running
<1> QED BY <1>2, <1>3, <1>4, <1>5, <1>6, <1>7, <1>8 DEF Next

\* With one admin, whatever its stops leave behind and whoever else reads, the
\* runtime that runs and was not told to stop is the registered one
\* (live/runtime.py lines 181-247).
THEOREM RegistryCorrect ==
  ASSUME NEW CONSTANT a, Admins = {a}
  PROVE  Spec => []OnlyTheRegisteredRuns
<1>1. Init => RInv(a)
  BY Apart DEF Init, RInv, Reloading, Running
<1>2. RInv(a) => OnlyTheRegisteredRuns
  BY DEF RInv, OnlyTheRegisteredRuns
<1>3. HInv /\ RInv(a) /\ [Next]_vars => RInv(a)'
  BY RegistryStep
<1> QED BY <1>1, <1>2, <1>3, HInvInit, HInvStep, PTL DEF Spec
=============================================================================
