---------------------------- MODULE RunDataProofs ----------------------------
(***************************************************************************)
(* Theorems about the components that keep the data of one run, each for   *)
(* every value of its constants.                                           *)
(***************************************************************************)
EXTENDS Workbench, TLAPS, FiniteSetTheorems, FunctionTheorems, WellFoundedInduction

\* A function on D, whatever its values.
IsOn(f, D) == f = [x \in D |-> f[x]]

LEMMA Update ==
  ASSUME NEW D, NEW f, IsOn(f, D), NEW a \in D, NEW v
  PROVE  /\ IsOn([f EXCEPT ![a] = v], D)
         /\ [f EXCEPT ![a] = v][a] = v
         /\ \A x \in D \ {a} : [f EXCEPT ![a] = v][x] = f[x]
  BY DEF IsOn

-----------------------------------------------------------------------------
(* FinancialFacts: the fact is there before the decision that stands for   *)
(* it is saved, and facts are never removed.                               *)

\* A request that decides on a candidate: an acceptance adds the fact first.
Decides(r, stored) ==
  r.pc \in {"accept", "decided"} =>
    /\ \E pc, c, place, yes :
         r = [pc |-> pc, candidate |-> c, place |-> place, accepted |-> yes]
    /\ r.pc = "decided" /\ r.accepted => Facts!Accepted(r.candidate) \in stored

FactsInv ==
  /\ IsOn(request, Threads)
  /\ \A t \in Threads : Decides(request[t], DOMAIN facts)
  /\ Facts!AcceptedIsFact

LEMMA DecidesMore ==
  ASSUME NEW r, NEW stored, NEW more, stored \subseteq more, Decides(r, stored)
  PROVE  Decides(r, more)
  BY DEF Decides

\* A step of thread t that may add facts.
LEMMA FactsMove ==
  ASSUME FactsInv, NEW t \in Threads, NEW new, Facts!Goto(t, new),
         DOMAIN facts \subseteq DOMAIN facts', Decides(new, DOMAIN facts'),
         Facts!AcceptedIsFact'
  PROVE  FactsInv'
<1>1. /\ IsOn(request', Threads)
      /\ request'[t] = new
      /\ \A u \in Threads \ {t} : request'[u] = request[u]
  BY Update DEF FactsInv, Facts!Goto, IsOn
<1>2. \A u \in Threads : Decides(request'[u], DOMAIN facts')
  <2> SUFFICES ASSUME NEW u \in Threads PROVE Decides(request'[u], DOMAIN facts')
    OBVIOUS
  <2>1. CASE u = t
    BY <1>1, <2>1
  <2>2. CASE u # t
    BY <1>1, <2>2, DecidesMore DEF FactsInv
  <2> QED BY <2>1, <2>2
<1> QED BY <1>1, <1>2 DEF FactsInv, IsOn, Decides, Facts!Accepted

\* One that leaves the candidates and the facts.
LEMMA FactsQuiet ==
  ASSUME FactsInv, NEW t \in Threads, NEW new, Facts!Goto(t, new),
         new.pc \notin {"accept", "decided"}, UNCHANGED <<candidates, facts>>
  PROVE  FactsInv'
<1>1. Facts!AcceptedIsFact'
  BY DEF FactsInv, Facts!AcceptedIsFact, Facts!Accepted
<1> QED BY <1>1, FactsMove DEF Decides

\* Facts are added, never replaced.
LEMMA FactsAdded ==
  ASSUME NEW new, Facts!AddMany(new)
  PROVE  DOMAIN facts' = DOMAIN facts \cup DOMAIN new
  BY DEF Facts!AddMany

LEMMA FactsKept ==
  ASSUME Facts!AcceptedIsFact, candidates' = candidates, DOMAIN facts \subseteq DOMAIN facts'
  PROVE  Facts!AcceptedIsFact'
  BY DEF Facts!AcceptedIsFact, Facts!Accepted

LEMMA SaveCandidateKeeps ==
  ASSUME FactsInv, NEW t \in Threads, NEW c, Facts!SaveCandidate(t, c)
  PROVE  FactsInv'
<1>1. Facts!AcceptedIsFact'
  BY DEF FactsInv, Facts!AcceptedIsFact, Facts!Accepted, Facts!SaveCandidate, Facts!With
<1>2. PICK new : Facts!Goto(t, new) /\ new.pc \in {"idle", "save"}
  BY DEF Facts!SaveCandidate, Facts!Idle
<1>3. facts' = facts
  BY DEF Facts!SaveCandidate
<1> QED BY <1>1, <1>2, <1>3, FactsMove DEF Decides

LEMMA DecideKeeps ==
  ASSUME FactsInv, NEW t \in Threads, NEW c, NEW yes \in BOOLEAN,
         Facts!Decide(t, c, yes)
  PROVE  FactsInv'
<1> DEFINE new == [pc |-> IF yes THEN "accept" ELSE "decided", candidate |-> c,
                   place |-> candidates[c].place, accepted |-> yes]
<1>1. Facts!Goto(t, new) /\ UNCHANGED <<candidates, facts>>
  BY DEF Facts!Decide
<1>2. Decides(new, DOMAIN facts')
  BY DEF Decides
<1>3. Facts!AcceptedIsFact'
  BY <1>1, FactsKept DEF FactsInv
<1> HIDE DEF new
<1> QED BY <1>1, <1>2, <1>3, FactsMove

LEMMA AddFactKeeps ==
  ASSUME FactsInv, NEW t \in Threads, Facts!AddFact(t)
  PROVE  FactsInv'
<1>1. PICK c, place, yes :
        request[t] = [pc |-> "accept", candidate |-> c, place |-> place, accepted |-> yes]
  <2>1. request[t].pc = "accept" /\ Decides(request[t], DOMAIN facts)
    BY DEF FactsInv, Facts!AddFact, Facts!At
  <2> QED BY <2>1 DEF Decides
<1> DEFINE new == [f \in {Facts!Accepted(c)} |-> place]
           next == [pc |-> "decided", candidate |-> c, place |-> place, accepted |-> yes]
<1>2. candidates' = candidates
  BY DEF Facts!AddFact
<1>3. CASE Facts!AddMany(new) /\ Facts!Goto(t, next)
  <2>1. DOMAIN facts' = DOMAIN facts \cup {Facts!Accepted(c)}
    BY <1>3, FactsAdded
  <2>2. Decides(next, DOMAIN facts')
    BY <2>1 DEF Decides
  <2>3. Facts!AcceptedIsFact'
    BY <1>2, <2>1, FactsKept DEF FactsInv
  <2> QED BY <1>3, <2>1, <2>2, <2>3, FactsMove
<1>4. CASE facts' = facts /\ Facts!Goto(t, Facts!Idle)
  BY <1>2, <1>4, FactsQuiet DEF Facts!Idle
<1> QED BY <1>1, <1>3, <1>4 DEF Facts!AddFact

LEMMA SaveDecisionKeeps ==
  ASSUME FactsInv, NEW t \in Threads, Facts!SaveDecision(t)
  PROVE  FactsInv'
<1> DEFINE r == request[t]
<1>1. r.accepted => Facts!Accepted(r.candidate) \in DOMAIN facts
  BY DEF FactsInv, Decides, Facts!SaveDecision, Facts!At
<1>2. /\ facts' = facts
      /\ candidates' = Facts!With(candidates, r.candidate,
           [status |-> IF r.accepted THEN "accepted" ELSE "rejected", place |-> r.place])
      /\ Facts!Goto(t, Facts!Idle)
  BY DEF Facts!SaveDecision
<1> HIDE DEF r
<1>3. Facts!AcceptedIsFact'
  BY <1>1, <1>2 DEF FactsInv, Facts!AcceptedIsFact, Facts!Accepted, Facts!With
<1> QED BY <1>2, <1>3, FactsMove DEF Decides, Facts!Idle

LEMMA AddFactsKeeps ==
  ASSUME FactsInv, NEW t \in Threads, Facts!AddFacts(t)
  PROVE  FactsInv'
<1>1. DOMAIN facts \subseteq DOMAIN facts' /\ candidates' = candidates
  BY FactsAdded DEF Facts!AddFacts
<1>2. PICK new : Facts!Goto(t, new) /\ new.pc = "reload"
  BY DEF Facts!AddFacts, Facts!Work
<1>3. Facts!AcceptedIsFact'
  BY <1>1, FactsKept DEF FactsInv
<1> QED BY <1>1, <1>2, <1>3, FactsMove DEF Decides

LEMMA FactsStep ==
  ASSUME FactsInv, [Facts!FactsNext]_Facts!factVars
  PROVE  FactsInv'
<1>1. CASE UNCHANGED <<candidates, facts, request>>
  BY <1>1 DEF FactsInv, IsOn, Decides, Facts!AcceptedIsFact, Facts!Accepted
<1>2. ASSUME NEW t \in Threads,
             \/ Facts!Preview(t) \/ Facts!Extract(t)
             \/ Facts!LoadRun(t) \/ Facts!Attach(t) \/ Facts!Reload(t) \/ Facts!NameFacts(t)
             \/ Facts!Die(t)
      PROVE  FactsInv'
  <2>1. UNCHANGED <<candidates, facts>>
    BY <1>2 DEF Facts!Preview, Facts!Extract, Facts!LoadRun, Facts!Attach, Facts!Reload,
       Facts!NameFacts, Facts!Die
  <2>2. PICK new : Facts!Goto(t, new) /\ new.pc \notin {"accept", "decided"}
    <3>1. CASE Facts!Preview(t)
      BY <3>1 DEF Facts!Preview
    <3>2. CASE Facts!Extract(t)
      <4>1. PICK pc \in {"load", "reload"}, failed \in BOOLEAN :
              Facts!Goto(t, [pc |-> pc, response |-> served, failed |-> failed])
        BY <3>2 DEF Facts!Extract
      <4> QED BY <4>1
    <3>3. CASE Facts!LoadRun(t)
      BY <3>3 DEF Facts!LoadRun
    <3>4. CASE Facts!Attach(t)
      BY <3>4 DEF Facts!Attach, Facts!Work
    <3>5. CASE Facts!Reload(t)
      BY <3>5 DEF Facts!Reload
    <3>6. CASE Facts!NameFacts(t) \/ Facts!Die(t)
      BY <3>6 DEF Facts!NameFacts, Facts!Die, Facts!Idle
    <3> QED BY <1>2, <3>1, <3>2, <3>3, <3>4, <3>5, <3>6
  <2> QED BY <2>1, <2>2, FactsQuiet
<1>3. CASE Facts!FactRequests
  BY <1>2, <1>3, DecideKeeps DEF Facts!FactRequests
<1>4. CASE Facts!RequestSteps
  BY <1>2, <1>4, SaveCandidateKeeps, AddFactKeeps, SaveDecisionKeeps, AddFactsKeeps
     DEF Facts!RequestSteps
<1>5. CASE (\E text \in Texts : Facts!Capture(text)) \/ Facts!Review \/ Facts!Files
  BY <1>1, <1>5 DEF Facts!Capture, Facts!Review, Facts!Files
<1>6. CASE UNCHANGED Facts!factVars
  BY <1>1, <1>6 DEF Facts!factVars
<1> QED BY <1>3, <1>4, <1>5, <1>6 DEF Facts!FactsNext

\* The workbench moves the facts only as FinancialFacts does.
LEMMA FactsAtWork ==
  ASSUME [Next]_rows
  PROVE  [Facts!FactsNext]_Facts!factVars
<1>1. CASE Only("facts") /\ Facts!FactsNext
  BY <1>1
<1>2. CASE UNCHANGED factsRows
  BY <1>2 DEF factsRows, Facts!factVars
<1> QED BY <1>1, <1>2 DEF Next, Only, rows

\* A candidate that reads as accepted has its fact, wherever a decision died
\* and however two decisions on it raced (extraction.py, decide).
THEOREM FactsBackAcceptance == Spec => []AcceptedIsFact
<1>1. Init => FactsInv
  BY DEF Init, Facts!FactsInit, FactsInv, IsOn, Decides, Facts!Idle, Facts!AcceptedIsFact
<1>2. FactsInv /\ [Next]_rows => FactsInv'
  BY FactsAtWork, FactsStep
<1>3. FactsInv => AcceptedIsFact
  BY DEF FactsInv, AcceptedIsFact
<1> QED BY <1>1, <1>2, <1>3, PTL DEF Spec

-----------------------------------------------------------------------------
(* ModelChoice: from the first call on, as long as no request saves a copy *)
(* that is not what is stored, the run in the store, the task's copies of  *)
(* it and its model all name one provider and one model.                   *)

ChoiceModels == [provider : Providers, model : Models]
ChoiceRuns ==
  [provider : Providers \cup {"none"}, model : Models \cup {"none"}, started : BOOLEAN,
   done : 0..Steps]

\* What a task at each of its points has in hand ...
TaskPlaces == {"idle", "check", "save", "refused", "build", "bind", "execute", "begin", "attempt",
               "handler", "rebind", "call", "completed", "failed", "end"}
TaskRecords ==
  [pc : TaskPlaces, asked : Providers \cup {"none"}, model : ChoiceModels \cup {Choice!NoModel},
   run : ChoiceRuns, stored : ChoiceRuns, tries : Nat]
TaskShape(t) ==
  /\ t \in TaskRecords
  /\ t.pc \in {"check", "save", "build"} => t.asked \in Providers
  /\ t.pc \in {"bind", "rebind", "call"} => t.model # Choice!NoModel
  /\ t.pc \in {"attempt", "handler", "rebind", "call", "failed"} => t.run.done < Steps

\* ... and a request.
AskRecords == [pc : {"idle", "mode", "select", "check", "save"}, asked : Providers \cup {"none"},
               run : ChoiceRuns]
AskShape(a) == a \in AskRecords /\ (a.pc = "save" => Choice!Selected(a.run, a.asked) \in Providers)

ChoiceShape ==
  /\ saved \in ChoiceRuns /\ queued \subseteq Providers /\ TaskShape(task)
  /\ IsOn(asking, Requesters) /\ \A r \in Requesters : AskShape(asking[r])
  /\ answered \subseteq Providers \X Models /\ overtaken \in BOOLEAN

\* The provider and the model of the run are settled, in the store and in a copy of it.
Settled(of) == of.started /\ of.provider \in Providers /\ of.model \in Models
Same(copy, of) == copy.started /\ copy.provider = of.provider /\ copy.model = of.model

\* How a task agrees with the run in the store once that is bound: after the first call,
\* or right before it.
Copies == {"check", "save", "bind", "begin", "attempt", "handler", "rebind", "call", "completed",
           "failed", "end"}
TaskAgrees(t, bound, of) ==
  /\ bound =>
       /\ Settled(of)
       /\ t.pc \in {"save", "build"} => t.asked = of.provider
       /\ t.pc \in Copies => Same(t.run, of)
       /\ t.pc = "rebind" => Same(t.stored, of)
       /\ t.model # Choice!NoModel => t.model.provider = of.provider /\ t.model.model = of.model
  /\ t.pc \in {"handler", "rebind", "call", "completed", "failed"} => of.started /\ t.run.started
  /\ t.pc = "rebind" => t.stored.started

Work(t, of, made) ==
  /\ TaskAgrees(t, made # {} \/ t.pc = "call", of)
  /\ made = {} => of.done = 0 /\ t.run.done = 0 /\ t.stored.done = 0
  /\ \A c \in made : c = <<of.provider, of.model>>

\* A request whose copy is what is stored.
Latest(a, of) ==
  a.pc \in {"mode", "check", "save"} =>
    a.run = of /\ (a.pc = "save" => Choice!Changeable(of, a.asked))

ChoiceAgrees ==
  /\ Work(task, saved, answered)
  /\ \A r \in Requesters : r \in upToDate => Latest(asking[r], saved)

ChoiceInv == ChoiceShape /\ (~overtaken => ChoiceAgrees)

\* A step of the task.
LEMMA TaskMove ==
  ASSUME ChoiceInv, UNCHANGED <<asking, overtaken>>, queued' \subseteq Providers,
         answered' \subseteq Providers \X Models,
         upToDate' = {} \/ UNCHANGED <<saved, upToDate>>,
         saved' \in ChoiceRuns, TaskShape(task'), ~overtaken => Work(task', saved', answered')
  PROVE  ChoiceInv'
<1>1. ChoiceShape'
  BY DEF ChoiceInv, ChoiceShape
<1>2. ASSUME ~overtaken PROVE ChoiceAgrees'
  BY <1>2 DEF ChoiceInv, ChoiceAgrees
<1> QED BY <1>1, <1>2 DEF ChoiceInv

\* The places that stand for no task, and for one that begins.
LEMMA EmptyRecords ==
  /\ Choice!NewRun \in ChoiceRuns /\ Choice!NewRun.done = 0
  /\ Choice!NoTask \in TaskRecords /\ TaskShape(Choice!NoTask) /\ AskShape(Choice!NoRequest)
  /\ \A m \in ChoiceModels : m # Choice!NoModel
<1>1. Choice!NewRun \in ChoiceRuns /\ Choice!NewRun.done = 0
  BY WorkbenchAssumption DEF Choice!ChoiceAssumption, Choice!NewRun, Choice!None, ChoiceRuns
<1>2. Choice!NoTask \in TaskRecords /\ Choice!NoTask.pc = "idle"
  BY <1>1 DEF Choice!NoTask, TaskRecords, TaskPlaces, Choice!None
<1>3. AskShape(Choice!NoRequest)
  BY <1>1 DEF Choice!NoRequest, AskShape, AskRecords, Choice!None
<1>4. \A m \in ChoiceModels : m # Choice!NoModel
  BY WorkbenchAssumption DEF ChoiceModels, Choice!NoModel, Choice!ChoiceAssumption, Choice!None
<1> QED BY <1>1, <1>2, <1>3, <1>4 DEF TaskShape

\* The task is dropped.
LEMMA TaskDropped ==
  ASSUME ChoiceInv, task' = Choice!NoTask, UNCHANGED <<saved, answered, overtaken>>,
         queued' \subseteq Providers,
         \/ UNCHANGED <<asking, upToDate>>
         \/ asking' = [r \in Requesters |-> Choice!NoRequest] /\ upToDate' = {}
  PROVE  ChoiceInv'
<1>1. ChoiceShape'
  BY EmptyRecords DEF ChoiceInv, ChoiceShape, IsOn
<1>2. ASSUME ~overtaken PROVE ChoiceAgrees'
  <2>1. Work(task', saved', answered')
    BY <1>2, EmptyRecords DEF ChoiceInv, ChoiceAgrees, Work, TaskAgrees, Choice!NoTask, Copies
  <2> QED BY <1>2, <2>1 DEF ChoiceInv, ChoiceAgrees
<1> QED BY <1>1, <1>2 DEF ChoiceInv

\* A step of a request.
LEMMA RequestMove ==
  ASSUME ChoiceInv, NEW r \in Requesters, NEW a, asking' = [asking EXCEPT ![r] = a], AskShape(a),
         UNCHANGED <<task, answered>>, queued' \subseteq Providers, saved' \in ChoiceRuns,
         overtaken' \in BOOLEAN, ~overtaken' => ~overtaken,
         ~overtaken' => Work(task, saved', answered),
         ~overtaken' /\ r \in upToDate' => Latest(a, saved'),
         \/ upToDate' = {}
         \/ saved' = saved /\ upToDate' \subseteq upToDate \cup {r}
  PROVE  ChoiceInv'
<1>1. IsOn(asking', Requesters) /\ asking'[r] = a /\ \A q \in Requesters \ {r} : asking'[q] = asking[q]
  <2>1. IsOn(asking, Requesters)
    BY DEF ChoiceInv, ChoiceShape
  <2> QED BY <2>1 DEF IsOn
<1>2. ChoiceShape'
  BY <1>1 DEF ChoiceInv, ChoiceShape
<1>3. ASSUME ~overtaken' PROVE ChoiceAgrees'
  <2>1. ASSUME NEW q \in Requesters, q \in upToDate' PROVE Latest(asking'[q], saved')
    BY <1>1, <1>3, <2>1 DEF ChoiceInv, ChoiceAgrees
  <2> QED BY <1>3, <2>1 DEF ChoiceAgrees
<1> QED BY <1>2, <1>3 DEF ChoiceInv

\* Loads, and the check of the lock.
LEMMA RequestReads ==
  ASSUME ChoiceInv, NEW r \in Requesters, NEW wanted \in Providers \cup {"none"},
         Choice!RequestExecution(r, wanted) \/ Choice!LoadSelection(r) \/ Choice!CheckSelection(r)
  PROVE  ChoiceInv'
<1>1. /\ asking[r] \in AskRecords /\ saved \in ChoiceRuns /\ queued \subseteq Providers
      /\ overtaken \in BOOLEAN /\ AskShape(asking[r])
  BY DEF ChoiceInv, ChoiceShape, AskShape
<1>2. UNCHANGED <<saved, queued, task, answered, overtaken>> /\ upToDate' \subseteq upToDate \cup {r}
  BY DEF Choice!RequestExecution, Choice!LoadSelection, Choice!CheckSelection
<1>3. ASSUME NEW pc \in {"mode", "check"}, NEW p \in Providers \cup {"none"}, Choice!Ask(r, pc, p, saved)
      PROVE  ChoiceInv'
  <2>1. PICK a : a = [pc |-> pc, asked |-> p, run |-> saved]
    OBVIOUS
  <2>2. AskShape(a) /\ Latest(a, saved)
    BY <1>1, <2>1 DEF AskShape, AskRecords, Latest
  <2> QED BY <1>1, <1>2, <1>3, <2>1, <2>2, RequestMove DEF Choice!Ask, ChoiceInv, ChoiceAgrees
<1>4. CASE Choice!RequestExecution(r, wanted)
  BY <1>3, <1>4 DEF Choice!RequestExecution
<1>5. CASE Choice!LoadSelection(r)
  BY <1>1, <1>3, <1>5 DEF Choice!LoadSelection, AskRecords
<1>6. CASE Choice!CheckSelection(r)
  <2> DEFINE chosenP == Choice!Selected(asking[r].run, asking[r].asked)
             fine == Choice!Changeable(saved, asking[r].asked) /\ chosenP # Choice!None
             a == IF fine THEN [asking[r] EXCEPT !.pc = "save"] ELSE Choice!NoRequest
  <2>1. asking' = [asking EXCEPT ![r] = a] /\ upToDate' = upToDate /\ asking[r].pc = "check"
    BY <1>6 DEF Choice!CheckSelection
  <2>2. chosenP \in Providers \cup {"none"}
    BY <1>1 DEF Choice!Selected, AskRecords, ChoiceRuns
  <2>3. /\ fine => a \in AskRecords /\ a.pc = "save" /\ a.asked = asking[r].asked /\ a.run = asking[r].run
        /\ ~fine => a = Choice!NoRequest
    BY <1>1 DEF AskRecords
  <2> HIDE DEF a
  <2>4. AskShape(a)
    BY <2>2, <2>3, EmptyRecords DEF AskShape, Choice!None
  <2>5. ~overtaken /\ r \in upToDate => Latest(a, saved)
    BY <2>1, <2>3 DEF ChoiceInv, ChoiceAgrees, Latest, Choice!NoRequest
  <2> QED BY <1>1, <1>2, <2>1, <2>4, <2>5, RequestMove DEF ChoiceInv, ChoiceAgrees
<1> QED BY <1>4, <1>5, <1>6

\* Saves: of a copy that is what is stored, and then of what the lock allows.
LEMMA RequestSave ==
  ASSUME ChoiceInv, NEW r \in Requesters, Choice!SaveMode(r) \/ Choice!SaveSelection(r)
  PROVE  ChoiceInv'
<1>1. /\ AskShape(asking[r]) /\ saved \in ChoiceRuns /\ queued \subseteq Providers
      /\ overtaken \in BOOLEAN /\ asking[r].run \in ChoiceRuns
      /\ asking[r].asked \in Providers \cup {"none"}
  BY DEF ChoiceInv, ChoiceShape, AskShape, AskRecords
<1>2. CASE Choice!SaveMode(r)
  <2>1. PICK a : a = [pc |-> "select", asked |-> asking[r].asked, run |-> Choice!NewRun]
    OBVIOUS
  <2>2. /\ asking' = [asking EXCEPT ![r] = a] /\ saved' = asking[r].run /\ upToDate' = {}
        /\ overtaken' = (overtaken \/ r \notin upToDate) /\ UNCHANGED <<task, answered, queued>>
        /\ asking[r].pc = "mode"
    BY <1>2, <2>1 DEF Choice!SaveMode, Choice!RequestSaves, Choice!Ask
  <2>3. AskShape(a)
    BY <1>1, <2>1, EmptyRecords DEF AskShape, AskRecords
  <2>4. ~overtaken' => Work(task, saved', answered)
    BY <2>2 DEF ChoiceInv, ChoiceAgrees, Latest
  <2> QED BY <1>1, <2>2, <2>3, <2>4, RequestMove
<1>3. CASE Choice!SaveSelection(r)
  <2>1. PICK p : p = Choice!Selected(asking[r].run, asking[r].asked)
    OBVIOUS
  <2>2. /\ asking' = [asking EXCEPT ![r] = Choice!NoRequest]
        /\ saved' = [asking[r].run EXCEPT !.provider = p] /\ upToDate' = {}
        /\ overtaken' = (overtaken \/ r \notin upToDate) /\ UNCHANGED <<task, answered>>
        /\ queued' = queued \cup {saved'.provider} /\ asking[r].pc = "save"
    BY <1>3, <2>1 DEF Choice!SaveSelection, Choice!RequestSaves, Choice!Locked
  <2>3. p \in Providers
    BY <1>1, <2>1, <2>2 DEF AskShape
  <2>4. /\ saved' \in ChoiceRuns /\ saved'.provider = p /\ saved'.model = asking[r].run.model
        /\ saved'.started = asking[r].run.started /\ saved'.done = asking[r].run.done
    BY <1>1, <2>2, <2>3 DEF ChoiceRuns
  <2>5. ASSUME ~overtaken' PROVE Work(task, saved', answered)
    <3>1. Work(task, saved, answered) /\ asking[r].run = saved /\ Choice!Changeable(saved, asking[r].asked)
      BY <2>2, <2>5 DEF ChoiceInv, ChoiceAgrees, Latest
    <3>2. CASE Settled(saved)
      <4>1. p = saved.provider
        BY <2>1, <3>1, <3>2, WorkbenchAssumption DEF Settled, Choice!Changeable, Choice!Selected,
           Choice!None, Choice!ChoiceAssumption
      <4>2. saved' = saved
        BY <1>1, <2>2, <3>1, <4>1 DEF ChoiceRuns
      <4> QED BY <3>1, <4>2
    <3>3. CASE ~Settled(saved)
      <4>1. ~(answered # {} \/ task.pc = "call")
        BY <3>1, <3>3 DEF Work, TaskAgrees
      <4> QED BY <2>4, <3>1, <4>1 DEF Work, TaskAgrees
    <3> QED BY <3>2, <3>3
  <2> QED BY <1>1, <2>2, <2>3, <2>4, <2>5, EmptyRecords, RequestMove
<1> QED BY <1>2, <1>3

\* What is known of the task.
LEMMA TaskFacts ==
  ASSUME ChoiceInv
  PROVE  /\ TaskShape(task) /\ task \in TaskRecords /\ saved \in ChoiceRuns /\ queued \subseteq Providers
         /\ answered \subseteq Providers \X Models
         /\ task.run \in ChoiceRuns /\ task.stored \in ChoiceRuns /\ task.tries \in Nat
         /\ task.model \in ChoiceModels \cup {Choice!NoModel} /\ task.asked \in Providers \cup {"none"}
         /\ ~overtaken => Work(task, saved, answered)
BY DEF ChoiceInv, ChoiceShape, TaskShape, TaskRecords, ChoiceAgrees

\* The selection, up to its save, and the load of a failure.
LEMMA SelectionKeeps ==
  ASSUME ChoiceInv,
         \/ \E provider \in Providers : Choice!BeginTask(provider)
         \/ Choice!CheckTask \/ Choice!LoadFailure
  PROVE  ChoiceInv'
<1> USE TaskFacts, EmptyRecords
<1>1. UNCHANGED <<saved, asking, answered, upToDate, overtaken>> /\ queued' \subseteq Providers
  BY DEF Choice!BeginTask, Choice!CheckTask, Choice!LoadFailure, Choice!otherRows
<1>2. ASSUME NEW provider \in Providers, Choice!BeginTask(provider) PROVE ChoiceInv'
  <2>1. task' = [Choice!NoTask EXCEPT !.pc = "check", !.asked = provider, !.run = saved]
    BY <1>2 DEF Choice!BeginTask
  <2>2. /\ task' \in TaskRecords /\ task'.pc = "check" /\ task'.asked = provider /\ task'.run = saved
        /\ task'.stored.done = 0 /\ task'.model = Choice!NoModel
    BY <2>1 DEF TaskRecords, TaskPlaces, Choice!NoTask
  <2>3. TaskShape(task')
    BY <2>2 DEF TaskShape
  <2>4. ~overtaken => Work(task', saved', answered')
    BY <1>1, <2>2 DEF Work, TaskAgrees, Same, Settled
  <2> QED BY <1>1, <2>3, <2>4, TaskMove
<1>3. CASE Choice!LoadFailure
  <2>1. task' = [Choice!NoTask EXCEPT !.pc = "end", !.run = saved]
    BY <1>3 DEF Choice!LoadFailure
  <2>2. /\ task' \in TaskRecords /\ task'.pc = "end" /\ task'.run = saved
        /\ task'.stored.done = 0 /\ task'.model = Choice!NoModel
    BY <2>1 DEF TaskRecords, TaskPlaces, Choice!NoTask
  <2>3. TaskShape(task')
    BY <2>2 DEF TaskShape
  <2>4. ~overtaken => Work(task', saved', answered')
    BY <1>1, <2>2 DEF Work, TaskAgrees, Same, Settled
  <2> QED BY <1>1, <2>3, <2>4, TaskMove
<1>4. CASE Choice!CheckTask /\ Choice!Changeable(saved, task.asked)
  <2>1. task.pc = "check" /\ task' = [task EXCEPT !.pc = "save"]
    BY <1>4 DEF Choice!CheckTask
  <2>2. /\ task' \in TaskRecords /\ task'.pc = "save" /\ task'.run = task.run
        /\ task'.stored = task.stored /\ task'.model = task.model /\ task'.asked = task.asked
    BY <2>1 DEF TaskRecords, TaskPlaces
  <2>3. TaskShape(task')
    BY <2>1, <2>2 DEF TaskShape
  <2>4. Settled(saved) => task.asked = saved.provider
    BY <1>4, <2>1, WorkbenchAssumption DEF TaskShape, Settled, Choice!Changeable, Choice!None,
       Choice!ChoiceAssumption
  <2>5. ~overtaken => Work(task', saved', answered')
    BY <1>1, <2>1, <2>2, <2>4 DEF Work, TaskAgrees, Copies
  <2> QED BY <1>1, <2>3, <2>5, TaskMove
<1>5. CASE Choice!CheckTask /\ ~Choice!Changeable(saved, task.asked)
  <2>1. task' = [Choice!NoTask EXCEPT !.pc = "refused"]
    BY <1>5 DEF Choice!CheckTask
  <2>2. /\ task' \in TaskRecords /\ task'.pc = "refused" /\ task'.run.done = 0
        /\ task'.stored.done = 0 /\ task'.model = Choice!NoModel
    BY <2>1 DEF TaskRecords, TaskPlaces, Choice!NoTask
  <2>3. TaskShape(task')
    BY <2>2 DEF TaskShape
  <2>4. ~overtaken => Work(task', saved', answered')
    BY <1>1, <2>2 DEF Work, TaskAgrees, Copies
  <2> QED BY <1>1, <2>3, <2>4, TaskMove
<1> QED BY <1>2, <1>3, <1>4, <1>5

LEMMA SaveTaskKeeps ==
  ASSUME ChoiceInv, Choice!SaveTask
  PROVE  ChoiceInv'
<1> USE TaskFacts, EmptyRecords
<1>1. /\ UNCHANGED <<asking, answered, queued, overtaken>> /\ upToDate' = {} /\ task.pc = "save"
      /\ saved' = [task.run EXCEPT !.provider = Choice!Selected(task.run, task.asked)]
      /\ task' = [Choice!NoTask EXCEPT !.pc = "build", !.asked = task.asked]
  BY DEF Choice!SaveTask, Choice!TaskSaves, Choice!Locked, Choice!otherRows
<1>2. task.asked \in Providers /\ Choice!Selected(task.run, task.asked) = task.asked
  BY <1>1, WorkbenchAssumption DEF TaskShape, Choice!Selected, Choice!None, Choice!ChoiceAssumption
<1>3. /\ saved' \in ChoiceRuns /\ saved'.provider = task.asked /\ saved'.model = task.run.model
      /\ saved'.started = task.run.started /\ saved'.done = task.run.done
  BY <1>1, <1>2 DEF ChoiceRuns
<1>4. /\ task' \in TaskRecords /\ task'.pc = "build" /\ task'.asked = task.asked /\ task'.run.done = 0
      /\ task'.stored.done = 0 /\ task'.model = Choice!NoModel
  BY <1>1 DEF TaskRecords, TaskPlaces, Choice!NoTask
<1>5. TaskShape(task')
  BY <1>2, <1>4 DEF TaskShape
<1>6. ~overtaken => Work(task', saved', answered')
  BY <1>1, <1>2, <1>3, <1>4 DEF Work, TaskAgrees, Same, Settled, Copies
<1> QED BY <1>1, <1>3, <1>5, <1>6, TaskMove

\* The model, built and bound, or none.
LEMMA BuildKeeps ==
  ASSUME ChoiceInv, Choice!SetupFails \/ \E name \in Models : Choice!BuildModel(name)
  PROVE  ChoiceInv'
<1> USE TaskFacts, EmptyRecords
<1>1. UNCHANGED <<saved, asking, queued, answered, upToDate, overtaken>> /\ task.pc = "build"
  BY DEF Choice!SetupFails, Choice!BuildModel, Choice!otherRows
<1>2. CASE task' = Choice!Ready(Choice!NoModel)
  <2>1. /\ task' \in TaskRecords /\ task'.pc = "execute" /\ task'.run.done = 0
        /\ task'.stored.done = 0 /\ task'.model = Choice!NoModel
    BY <1>2 DEF TaskRecords, TaskPlaces, Choice!NoTask, Choice!Ready
  <2>2. TaskShape(task')
    BY <2>1 DEF TaskShape
  <2>3. ~overtaken => Work(task', saved', answered')
    BY <1>1, <2>1 DEF Work, TaskAgrees, Copies
  <2> QED BY <1>1, <2>2, <2>3, TaskMove
<1>3. ASSUME NEW name \in Models, NEW m, m = [provider |-> task.asked, model |-> name],
             Choice!Bindable(saved, m),
             task' = [Choice!NoTask EXCEPT !.pc = "bind", !.model = m, !.run = saved]
      PROVE  ChoiceInv'
  <2>1. m \in ChoiceModels /\ m.provider = task.asked /\ m.model = name
    BY <1>1, <1>3 DEF TaskShape, ChoiceModels
  <2>2. /\ task' \in TaskRecords /\ task'.pc = "bind" /\ task'.run = saved
        /\ task'.stored.done = 0 /\ task'.model = m
    BY <1>3, <2>1 DEF TaskRecords, TaskPlaces, Choice!NoTask
  <2>3. TaskShape(task')
    BY <2>1, <2>2 DEF TaskShape
  <2>4. Settled(saved) => name = saved.model
    BY <1>3, <2>1, WorkbenchAssumption DEF Choice!Bindable, Settled, Choice!None, Choice!ChoiceAssumption
  <2>5. ~overtaken => Work(task', saved', answered')
    BY <1>1, <2>1, <2>2, <2>4 DEF Work, TaskAgrees, Same, Settled
  <2> QED BY <1>1, <2>3, <2>5, TaskMove
<1> QED BY <1>2, <1>3 DEF Choice!SetupFails, Choice!BuildModel

\* Binding, of the run that is loaded for it.
LEMMA BoundFacts ==
  ASSUME NEW r \in ChoiceRuns, NEW m \in ChoiceModels
  PROVE  /\ Choice!Bound(r, m) \in ChoiceRuns
         /\ Choice!Bound(r, m).provider = m.provider /\ Choice!Bound(r, m).model = m.model
         /\ Choice!Bound(r, m).started = r.started /\ Choice!Bound(r, m).done = r.done
         /\ m.provider \in Providers /\ m.model \in Models
BY DEF ChoiceRuns, ChoiceModels, Choice!Bound

LEMMA BindKeeps ==
  ASSUME ChoiceInv, Choice!BindModel
  PROVE  ChoiceInv'
<1> USE TaskFacts, EmptyRecords
<1>1. /\ UNCHANGED <<asking, answered, queued, overtaken>> /\ upToDate' = {} /\ task.pc = "bind"
      /\ saved' = Choice!Bound(task.run, task.model) /\ task' = Choice!Ready(task.model)
  BY DEF Choice!BindModel, Choice!TaskSaves, Choice!otherRows
<1>2. task.model \in ChoiceModels
  BY <1>1 DEF TaskShape
<1>3. /\ saved' \in ChoiceRuns /\ saved'.provider = task.model.provider
      /\ saved'.model = task.model.model /\ saved'.started = task.run.started
      /\ saved'.done = task.run.done
  BY <1>1, <1>2, BoundFacts
<1>4. /\ task' \in TaskRecords /\ task'.pc = "execute" /\ task'.run.done = 0
      /\ task'.stored.done = 0 /\ task'.model = task.model
  BY <1>1 DEF TaskRecords, TaskPlaces, Choice!NoTask, Choice!Ready
<1>5. TaskShape(task')
  BY <1>4 DEF TaskShape
<1>6. ~overtaken => Work(task', saved', answered')
  BY <1>1, <1>2, <1>3, <1>4 DEF Work, TaskAgrees, Same, Settled, Copies
<1> QED BY <1>1, <1>3, <1>5, <1>6, TaskMove

\* The executor loads the run, or a step of it ends without a call.
LEMMA ExecutorReads ==
  ASSUME ChoiceInv, Choice!Execute \/ Choice!LoadIntake \/ Choice!StepFails
  PROVE  ChoiceInv'
<1> USE TaskFacts, EmptyRecords
<1>1. UNCHANGED <<saved, asking, queued, answered, upToDate, overtaken>>
  BY DEF Choice!Execute, Choice!LoadIntake, Choice!StepFails, Choice!otherRows
<1>2. CASE Choice!Execute
  <2>1. task.pc = "execute" /\ task' = [task EXCEPT !.pc = "begin", !.run = saved]
    BY <1>2 DEF Choice!Execute
  <2>2. /\ task' \in TaskRecords /\ task'.pc = "begin" /\ task'.run = saved
        /\ task'.stored = task.stored /\ task'.model = task.model
    BY <2>1 DEF TaskRecords, TaskPlaces
  <2>3. TaskShape(task')
    BY <2>2 DEF TaskShape
  <2>4. ~overtaken => Work(task', saved', answered')
    BY <1>1, <2>1, <2>2 DEF Work, TaskAgrees, Same, Settled
  <2> QED BY <1>1, <2>3, <2>4, TaskMove
<1>3. CASE Choice!LoadIntake
  <2>1. task.pc = "handler" /\ task.model # Choice!NoModel
        /\ task' = [task EXCEPT !.pc = "rebind", !.stored = saved]
    BY <1>3 DEF Choice!LoadIntake
  <2>2. /\ task' \in TaskRecords /\ task'.pc = "rebind" /\ task'.run = task.run
        /\ task'.stored = saved /\ task'.model = task.model
    BY <2>1 DEF TaskRecords, TaskPlaces
  <2>3. TaskShape(task')
    BY <2>1, <2>2 DEF TaskShape
  <2>4. ~overtaken => Work(task', saved', answered')
    BY <1>1, <2>1, <2>2 DEF Work, TaskAgrees, Same, Settled, Copies
  <2> QED BY <1>1, <2>3, <2>4, TaskMove
<1>4. CASE Choice!StepFails
  <2>1. task.pc \in {"handler", "call"} /\ task' = [task EXCEPT !.pc = "failed"]
    BY <1>4 DEF Choice!StepFails
  <2>2. /\ task' \in TaskRecords /\ task'.pc = "failed" /\ task'.run = task.run
        /\ task'.stored = task.stored /\ task'.model = task.model
    BY <2>1 DEF TaskRecords, TaskPlaces
  <2>3. TaskShape(task')
    BY <2>1, <2>2 DEF TaskShape
  <2>4. ~overtaken => Work(task', saved', answered')
    BY <1>1, <2>1, <2>2 DEF Work, TaskAgrees, Same, Settled, Copies
  <2> QED BY <1>1, <2>3, <2>4, TaskMove
<1> QED BY <1>2, <1>3, <1>4

\* It saves its copy, as it has been changed before.
LEMMA CopySaved ==
  ASSUME ChoiceInv, Choice!Persist
  PROVE  ChoiceInv'
<1> USE TaskFacts, EmptyRecords
<1>1. /\ UNCHANGED <<asking, answered, queued, overtaken>> /\ upToDate' = {} /\ saved' = task.run
      /\ task.pc \in {"begin", "completed", "failed", "end"}
  BY DEF Choice!Persist, Choice!TaskSaves, Choice!otherRows
<1>2. ASSUME ~overtaken
      PROVE  /\ answered # {} => Settled(saved') /\ Same(task.run, saved')
             /\ answered = {} => saved'.done = 0
             /\ \A c \in answered : c = <<saved'.provider, saved'.model>>
             /\ answered # {} /\ task.model # Choice!NoModel =>
                  task.model.provider = saved'.provider /\ task.model.model = saved'.model
  BY <1>1, <1>2 DEF Work, TaskAgrees, Same, Settled, Copies
<1>3. CASE task' = Choice!NoTask
  <2>1. /\ task' \in TaskRecords /\ task'.pc = "idle" /\ task'.run.done = 0
        /\ task'.stored.done = 0 /\ task'.model = Choice!NoModel /\ TaskShape(task')
    BY <1>3 DEF Choice!NoTask
  <2>2. ~overtaken => Work(task', saved', answered')
    BY <1>1, <1>2, <2>1 DEF Work, TaskAgrees, Copies
  <2> QED BY <1>1, <2>1, <2>2, TaskMove
<1>4. ASSUME NEW pc \in {"attempt", "end"}, NEW n \in Nat, pc = "attempt" => task.run.done < Steps,
             task' = [task EXCEPT !.pc = pc, !.tries = n]
      PROVE  ChoiceInv'
  <2>1. /\ task' \in TaskRecords /\ task'.pc = pc /\ task'.run = task.run
        /\ task'.stored = task.stored /\ task'.model = task.model
    BY <1>4 DEF TaskRecords, TaskPlaces
  <2>2. TaskShape(task')
    BY <1>4, <2>1 DEF TaskShape
  <2>3. ~overtaken => Work(task', saved', answered')
    BY <1>1, <1>2, <2>1 DEF Work, TaskAgrees
  <2> QED BY <1>1, <2>2, <2>3, TaskMove
<1>5. ASSUME NEW pc \in {"attempt", "end"}, task' = [task EXCEPT !.pc = pc]
      PROVE  task' = [task EXCEPT !.pc = pc, !.tries = task.tries]
  BY <1>5 DEF TaskRecords
<1>6. task.pc = "failed" => task.run.done < Steps
  BY DEF TaskShape
<1> QED BY <1>3, <1>4, <1>5, <1>6 DEF Choice!Persist

LEMMA AttemptKeeps ==
  ASSUME ChoiceInv, Choice!AttemptStep
  PROVE  ChoiceInv'
<1> USE TaskFacts, EmptyRecords
<1>1. PICK copy : copy = [task.run EXCEPT !.started = TRUE]
  OBVIOUS
<1>2. /\ UNCHANGED <<asking, answered, queued, overtaken>> /\ upToDate' = {} /\ saved' = copy
      /\ task.pc = "attempt"
      /\ task' = [task EXCEPT !.pc = "handler", !.run = copy, !.tries = task.tries + 1]
  BY <1>1 DEF Choice!AttemptStep, Choice!TaskSaves, Choice!otherRows
<1>3. /\ copy \in ChoiceRuns /\ copy.started /\ copy.provider = task.run.provider
      /\ copy.model = task.run.model /\ copy.done = task.run.done
  BY <1>1 DEF ChoiceRuns
<1>4. /\ task' \in TaskRecords /\ task'.pc = "handler" /\ task'.run = copy
      /\ task'.stored = task.stored /\ task'.model = task.model
  <2>1. PICK n \in Nat : n = task.tries + 1
    OBVIOUS
  <2> QED BY <1>2, <1>3, <2>1 DEF TaskRecords, TaskPlaces
<1>5. TaskShape(task')
  BY <1>2, <1>3, <1>4 DEF TaskShape
<1>6. ~overtaken => Work(task', saved', answered')
  BY <1>2, <1>3, <1>4 DEF Work, TaskAgrees, Same, Settled, Copies
<1> QED BY <1>2, <1>3, <1>5, <1>6, TaskMove

LEMMA SaveIntakeKeeps ==
  ASSUME ChoiceInv, Choice!SaveIntake
  PROVE  ChoiceInv'
<1> USE TaskFacts, EmptyRecords
<1>1. PICK copy : copy = Choice!Bound(task.run, task.model)
  OBVIOUS
<1>2. /\ UNCHANGED <<asking, answered, queued, overtaken>> /\ upToDate' = {} /\ task.pc = "rebind"
      /\ saved' = Choice!Bound(task.stored, task.model)
      /\ task' = [task EXCEPT !.pc = "call", !.run = copy, !.stored = Choice!NewRun]
  BY <1>1 DEF Choice!SaveIntake, Choice!TaskSaves, Choice!otherRows
<1>3. task.model \in ChoiceModels
  BY <1>2 DEF TaskShape
<1>4. /\ saved' \in ChoiceRuns /\ saved'.provider = task.model.provider
      /\ saved'.model = task.model.model /\ saved'.started = task.stored.started
      /\ saved'.done = task.stored.done
      /\ copy \in ChoiceRuns /\ copy.provider = task.model.provider
      /\ copy.model = task.model.model /\ copy.started = task.run.started
      /\ copy.done = task.run.done
      /\ task.model.provider \in Providers /\ task.model.model \in Models
  BY <1>1, <1>2, <1>3, BoundFacts
<1>5. /\ task' \in TaskRecords /\ task'.pc = "call" /\ task'.run = copy
      /\ task'.stored.done = 0 /\ task'.model = task.model
  BY <1>2, <1>4 DEF TaskRecords, TaskPlaces
<1>6. TaskShape(task')
  BY <1>2, <1>4, <1>5 DEF TaskShape
<1>7. ASSUME ~overtaken PROVE Work(task', saved', answered')
  <2>1. /\ task.stored.started /\ task.run.started
        /\ answered = {} => task.stored.done = 0 /\ task.run.done = 0
        /\ \A c \in answered : c = <<task.model.provider, task.model.model>>
    BY <1>2, <1>3, <1>7 DEF Work, TaskAgrees
  <2>2. TaskAgrees(task', TRUE, saved')
    BY <1>2, <1>4, <1>5, <2>1 DEF TaskAgrees, Same, Settled
  <2> QED BY <1>2, <1>4, <1>5, <2>1, <2>2 DEF Work
<1> QED BY <1>2, <1>4, <1>6, <1>7, TaskMove

\* A call is made with the model the run is bound to.
LEMMA CallKeeps ==
  ASSUME ChoiceInv, Choice!CallModel
  PROVE  ChoiceInv'
<1> USE TaskFacts, EmptyRecords
<1>1. PICK made : made = answered \cup {<<task.model.provider, task.model.model>>}
  OBVIOUS
<1>2. /\ UNCHANGED <<saved, asking, queued, upToDate, overtaken>> /\ answered' = made
      /\ task.pc \in {"call", "handler"} /\ (task.pc = "handler" => task.run.done > 0)
      /\ task.model # Choice!NoModel /\ task.run.done < Steps
      /\ \/ task' = [task EXCEPT !.pc = "completed", !.run.done = task.run.done + 1]
         \/ task' = [task EXCEPT !.pc = "failed"]
  <2>1. task.pc = "call" => task.model # Choice!NoModel
    BY DEF TaskShape
  <2>2. task.pc \in {"call", "handler"} => task.run.done < Steps
    BY DEF TaskShape
  <2>3. task.pc \in {"call", "handler"} /\ (task.pc = "handler" => task.run.done > 0)
        /\ task.model # Choice!NoModel
    BY <2>1 DEF Choice!CallModel
  <2> QED BY <1>1, <2>2, <2>3 DEF Choice!CallModel
<1>3. made \subseteq Providers \X Models
  BY <1>1, <1>2 DEF ChoiceModels
<1>4. ASSUME ~overtaken
      PROVE  /\ Settled(saved) /\ Same(task.run, saved)
             /\ task.model.provider = saved.provider /\ task.model.model = saved.model
             /\ \A c \in made : c = <<saved.provider, saved.model>>
  <2>1. answered # {} \/ task.pc = "call"
    BY <1>2, <1>4 DEF Work
  <2>2. /\ Settled(saved) /\ Same(task.run, saved)
        /\ task.model.provider = saved.provider /\ task.model.model = saved.model
    BY <1>2, <1>4, <2>1 DEF Work, TaskAgrees, Copies
  <2> QED BY <1>1, <1>4, <2>2 DEF Work
<1>5. /\ task' \in TaskRecords /\ task'.pc \in {"completed", "failed"} /\ task'.model = task.model
      /\ task'.run.provider = task.run.provider /\ task'.run.model = task.run.model
      /\ task'.run.started = task.run.started
      /\ task'.pc = "failed" => task'.run = task.run
  <2>1. CASE task' = [task EXCEPT !.pc = "completed", !.run.done = task.run.done + 1]
    <3>1. PICK copy : copy = [task.run EXCEPT !.done = task.run.done + 1]
      OBVIOUS
    <3>2. copy \in ChoiceRuns /\ copy.provider = task.run.provider /\ copy.model = task.run.model
          /\ copy.started = task.run.started
      <4>1. task.run.done + 1 \in 0..Steps
        BY <1>2, WorkbenchAssumption DEF ChoiceRuns, Choice!ChoiceAssumption
      <4> QED BY <3>1, <4>1 DEF ChoiceRuns
    <3>3. task' = [task EXCEPT !.pc = "completed", !.run = copy]
      BY <2>1, <3>1
    <3> QED BY <3>2, <3>3 DEF TaskRecords, TaskPlaces
  <2>2. CASE task' = [task EXCEPT !.pc = "failed"]
    BY <2>2 DEF TaskRecords, TaskPlaces
  <2> QED BY <1>2, <2>1, <2>2
<1>6. TaskShape(task')
  BY <1>2, <1>5 DEF TaskShape
<1>7. made # {}
  BY <1>1
<1>8. ~overtaken => Work(task', saved', answered')
  BY <1>2, <1>4, <1>5, <1>7 DEF Work, TaskAgrees, Same, Settled
<1> QED BY <1>2, <1>3, <1>6, <1>8, TaskMove

LEMMA ChoiceStep ==
  ASSUME ChoiceInv, [Choice!ChoiceNext]_Choice!choiceVars
  PROVE  ChoiceInv'
<1>1. CASE UNCHANGED Choice!choiceVars
  BY <1>1 DEF Choice!choiceVars, ChoiceInv, ChoiceShape, ChoiceAgrees
<1>2. CASE Choice!Crash
  BY <1>2, TaskDropped DEF Choice!Crash
<1>3. CASE Choice!Requests
  BY <1>3, RequestReads, RequestSave DEF Choice!Requests, Choice!None
<1>4. CASE Choice!TaskSteps
  BY <1>4, SelectionKeeps, SaveTaskKeeps, BuildKeeps, BindKeeps, ExecutorReads, CopySaved, AttemptKeeps,
     SaveIntakeKeeps, CallKeeps DEF Choice!TaskSteps
<1> QED BY <1>1, <1>2, <1>3, <1>4 DEF Choice!ChoiceNext

LEMMA ChoiceAtWork ==
  ASSUME [Next]_rows
  PROVE  [Choice!ChoiceNext]_Choice!choiceVars
<1>1. CASE Only("choice") /\ Choice!ChoiceNext
  BY <1>1
<1>2. CASE UNCHANGED choiceRows
  BY <1>2 DEF choiceRows, Choice!choiceVars
<1> QED BY <1>1, <1>2 DEF Next, Only, rows

LEMMA ChoiceStart ==
  ASSUME Init
  PROVE  ChoiceInv
<1>1. ChoiceShape
  BY EmptyRecords DEF Init, Choice!ChoiceInit, ChoiceShape, IsOn
<1>2. Work(task, saved, answered)
  BY EmptyRecords DEF Init, Choice!ChoiceInit, Choice!NoTask, Work, TaskAgrees
<1>3. ChoiceAgrees
  BY <1>2 DEF Init, Choice!ChoiceInit, ChoiceAgrees
<1> QED BY <1>1, <1>3 DEF ChoiceInv

\* As long as no request saves the run over what was saved since it loaded it, every call
\* made for a run went to the provider and the model its manifest names, whatever is
\* requested, checked and saved in between (research/model_runtime.py).
THEOREM CallsLocked == Spec => []CallsMatchManifest
<1>1. Init => ChoiceInv
  BY ChoiceStart
<1>2. ChoiceInv /\ [Next]_rows => ChoiceInv'
  BY ChoiceAtWork, ChoiceStep
<1>3. ChoiceInv => CallsMatchManifest
  BY DEF ChoiceInv, ChoiceAgrees, Work, CallsMatchManifest, Choice!CallsMatchManifest
<1> QED BY <1>1, <1>2, <1>3, PTL DEF Spec

-----------------------------------------------------------------------------
(* EvidenceBootstrap: every Evidence in a review the agent gave, in the    *)
(* run or in the copy the agent holds of it, was approved with its hash.   *)

AgentLabels == {"idle", "plan", "discover", "index", "capture", "download", "read", "review", "apply"}

\* The Evidence of a run and what the agent has accepted.
Vouched(ev, acc) ==
  \A e \in AgentFilings :
    /\ ev[e] = Bootstrap!NoEvidence \/ ev[e].hash \in Downloaded
    /\ ev[e].status = "agent_reviewed" => \E c \in Companies : <<e, ev[e].hash, c>> \in acc

\* What the agent's locals say at each of its points.
AgentKnows(label, m, acc) ==
  /\ Vouched(m.run, acc)
  /\ label # "idle" => m.state.status = "running"
  /\ label # "apply" => m.state.reviews = Bootstrap!NoReviews
  /\ label \in {"download", "read"} => m.filing \in AgentFilings
  /\ label \in {"review", "apply"} => \A e \in m.state.captured : m.company[e] \in Companies
  /\ label = "apply" =>
       \A e \in AgentFilings :
         /\ e \in m.state.captured => m.verdicts[e] # "none" \/ m.state.reviews[e] # "none"
         /\ m.verdicts[e] # "none" => e \in m.state.captured
         /\ m.state.reviews[e] = "approved" =>
              \E h \in Downloaded : <<e, h, m.company[e]>> \in acc

NodesBacked(ns, acc) == \A c \in ns : \E e \in AgentFilings, h \in Downloaded : <<e, h, c>> \in acc

Reviewed(r) == r.status = "completed" => \A e \in r.captured : r.reviews[e] # "none"

BootInv ==
  /\ Bootstrap!BootstrapTypeOK
  /\ Vouched(evidence, accepted) /\ AgentKnows(agent, scratch, accepted)
  /\ NodesBacked(nodes, accepted) /\ Reviewed(result)

LEMMA VouchedMore ==
  ASSUME NEW ev, NEW acc, NEW more, acc \subseteq more, Vouched(ev, acc)
  PROVE  Vouched(ev, more)
  BY DEF Vouched

LEMMA BootNone ==
  /\ "none" \notin Companies /\ "none" \notin AgentFilings /\ "none" \notin Downloaded
  /\ Official \in [AgentFilings -> Companies \cup {"none"}] /\ MaxPasses \in Nat /\ MaxVisits \in Nat
  BY WorkbenchAssumption DEF Bootstrap!BootstrapAssumption

LEMMA BlankLocals ==
  /\ Bootstrap!NoState \in Bootstrap!States /\ Bootstrap!NoState.status = "idle"
  /\ Bootstrap!NoState.reviews = Bootstrap!NoReviews
  /\ Bootstrap!Blank \in Bootstrap!Locals
  /\ Bootstrap!NoEvidences \in [AgentFilings -> Bootstrap!Evidence]
  /\ \A acc : Vouched(Bootstrap!NoEvidences, acc) /\ AgentKnows("idle", Bootstrap!Blank, acc)
<1>1. Bootstrap!NoReviews \in [AgentFilings -> {"none"}]
  BY DEF Bootstrap!NoReviews
<1>2. /\ Bootstrap!NoState \in Bootstrap!States /\ Bootstrap!NoState.status = "idle"
      /\ Bootstrap!NoState.reviews = Bootstrap!NoReviews
  BY <1>1, BootNone DEF Bootstrap!NoState, Bootstrap!States, Bootstrap!Outcomes
<1>3. /\ Bootstrap!NoEvidences \in [AgentFilings -> Bootstrap!Evidence]
      /\ \A acc : Vouched(Bootstrap!NoEvidences, acc)
  BY DEF Bootstrap!NoEvidences, Bootstrap!NoEvidence, Bootstrap!Evidence, Vouched
<1>4. Bootstrap!Blank \in Bootstrap!Locals
  BY <1>1, <1>2, <1>3 DEF Bootstrap!Blank, Bootstrap!Locals, Bootstrap!Outcomes
<1>5. \A acc : AgentKnows("idle", Bootstrap!Blank, acc)
  BY <1>2, <1>3 DEF AgentKnows, Bootstrap!Blank
<1> QED BY <1>2, <1>3, <1>4, <1>5

\* A step of the agent or of a user.
LEMMA BootMove ==
  ASSUME BootInv, accepted \subseteq accepted', agent' \in AgentLabels,
         scratch' \in Bootstrap!Locals, AgentKnows(agent', scratch', accepted'),
         evidence' \in [AgentFilings -> Bootstrap!Evidence], Vouched(evidence', accepted'),
         suggestions' \in [AgentFilings -> Bootstrap!Suggestions],
         texts' \in [AgentFilings -> Downloaded \cup {"none"}],
         nodes' \subseteq Companies, NodesBacked(nodes', accepted'),
         result' \in Bootstrap!States, Reviewed(result'),
         accepted' \subseteq AgentFilings \X Downloaded \X Companies, visits' \in 0..MaxVisits
  PROVE  BootInv'
<1>1. Bootstrap!BootstrapTypeOK'
  BY DEF Bootstrap!BootstrapTypeOK, AgentLabels
<1> QED BY <1>1 DEF BootInv, Vouched, AgentKnows, NodesBacked, Reviewed

Phases == {"idle", "planning_companies", "discovering_official_sources", "capturing_sources",
           "reviewing_evidence", "completed"}

\* What every step may assume.
LEMMA BootFacts ==
  ASSUME BootInv
  PROVE  /\ result \in Bootstrap!States /\ result.attempt \in 0..MaxPasses
         /\ evidence \in [AgentFilings -> Bootstrap!Evidence] /\ Vouched(evidence, accepted)
         /\ nodes \subseteq Companies /\ NodesBacked(nodes, accepted) /\ Reviewed(result)
         /\ suggestions \in [AgentFilings -> Bootstrap!Suggestions]
         /\ texts \in [AgentFilings -> Downloaded \cup {"none"}]
         /\ agent \in AgentLabels /\ scratch \in Bootstrap!Locals
         /\ AgentKnows(agent, scratch, accepted)
         /\ accepted \subseteq AgentFilings \X Downloaded \X Companies /\ visits \in 0..MaxVisits
         /\ scratch.run \in [AgentFilings -> Bootstrap!Evidence] /\ Vouched(scratch.run, accepted)
         /\ scratch.state \in Bootstrap!States
         /\ agent # "idle" => scratch.state.status = "running"
         /\ agent # "apply" => scratch.state.reviews = Bootstrap!NoReviews
  BY DEF BootInv, Bootstrap!BootstrapTypeOK, AgentLabels, Bootstrap!Locals, Bootstrap!States, AgentKnows

\* A step of the agent that approves nothing.
LEMMA AgentMove ==
  ASSUME BootInv, NEW label \in AgentLabels, NEW m \in Bootstrap!Locals, Bootstrap!Goto(label, m),
         AgentKnows(label, m, accepted),
         UNCHANGED <<nodes, accepted, visits>>,
         evidence' \in [AgentFilings -> Bootstrap!Evidence], Vouched(evidence', accepted),
         suggestions' \in [AgentFilings -> Bootstrap!Suggestions],
         texts' \in [AgentFilings -> Downloaded \cup {"none"}],
         result' \in Bootstrap!States, Reviewed(result')
  PROVE  BootInv'
<1>1. agent' = label /\ scratch' = m
  BY DEF Bootstrap!Goto
<1> QED BY <1>1, BootFacts, BootMove

\* One that leaves the run's Evidence, the queue and the files.
LEMMA AgentQuiet ==
  ASSUME BootInv, NEW label \in AgentLabels, NEW m \in Bootstrap!Locals, Bootstrap!Goto(label, m),
         AgentKnows(label, m, accepted),
         UNCHANGED <<evidence, suggestions, texts, nodes, accepted, visits>>,
         result' \in Bootstrap!States, Reviewed(result')
  PROVE  BootInv'
  BY BootFacts, AgentMove

LEMMA PhaseFacts ==
  ASSUME NEW s \in Bootstrap!States, NEW step \in Phases
  PROVE  /\ [s EXCEPT !.phase = step] \in Bootstrap!States
         /\ [s EXCEPT !.phase = step].status = s.status
         /\ [s EXCEPT !.phase = step].reviews = s.reviews
         /\ [s EXCEPT !.phase = step].captured = s.captured
  BY DEF Bootstrap!States, Phases

LEMMA AbortKeeps ==
  ASSUME BootInv, Bootstrap!Abort, UNCHANGED <<evidence, suggestions, texts, nodes, accepted, visits>>
  PROVE  BootInv'
<1>1. result' = [scratch.state EXCEPT !.status = "failed"]
      /\ Bootstrap!Goto("idle", Bootstrap!Blank)
  BY DEF Bootstrap!Abort
<1>2. result' \in Bootstrap!States /\ result'.status = "failed"
  BY <1>1, BootFacts DEF Bootstrap!States
<1>3. Reviewed(result')
  BY <1>2 DEF Reviewed
<1> QED BY <1>1, <1>2, <1>3, BlankLocals, AgentQuiet DEF AgentLabels

\* The agent saves its state, with another phase.
LEMMA PersistKeeps ==
  ASSUME BootInv, NEW label \in {"plan", "discover", "capture"}, NEW m \in Bootstrap!Locals,
         NEW s \in Bootstrap!States, s.status = "running", s.reviews = Bootstrap!NoReviews,
         Vouched(m.run, accepted), Bootstrap!Persist(label, m, s),
         UNCHANGED <<evidence, suggestions, texts, nodes, accepted, visits>>
  PROVE  BootInv'
<1> DEFINE x == [m EXCEPT !.state = s]
<1>1. x \in Bootstrap!Locals /\ x.run = m.run /\ x.state = s
  BY DEF Bootstrap!Locals
<1>2. Bootstrap!Goto(label, x) /\ result' = s
  BY DEF Bootstrap!Persist
<1> HIDE DEF x
<1>3. AgentKnows(label, x, accepted)
  BY <1>1 DEF AgentKnows
<1>4. Reviewed(s)
  BY DEF Reviewed
<1> QED BY <1>1, <1>2, <1>3, <1>4, AgentQuiet DEF AgentLabels

LEMMA StartKeeps ==
  ASSUME BootInv, Bootstrap!Start, visits' = visits
  PROVE  BootInv'
<1> DEFINE s == [Bootstrap!NoState EXCEPT !.status = "running", !.phase = "planning_companies",
                                          !.attempt = result.attempt + 1]
<1>1. Bootstrap!Persist("plan", Bootstrap!Blank, s)
      /\ UNCHANGED <<evidence, suggestions, texts, nodes, accepted>> /\ result.attempt < MaxPasses
  BY DEF Bootstrap!Start
<1>2. result.attempt + 1 \in 0..MaxPasses
  BY <1>1, BootFacts, BootNone
<1>3. s \in Bootstrap!States /\ s.status = "running" /\ s.reviews = Bootstrap!NoReviews
  BY <1>2, BlankLocals DEF Bootstrap!States
<1>4. Vouched(Bootstrap!Blank.run, accepted)
  BY BlankLocals DEF Bootstrap!Blank
<1> HIDE DEF s
<1> QED BY <1>1, <1>3, <1>4, BlankLocals, PersistKeeps DEF AgentLabels

LEMMA PlanKeeps ==
  ASSUME BootInv, NEW candidates_ \in SUBSET Companies, Bootstrap!Plan(candidates_), visits' = visits
  PROVE  BootInv'
<1> DEFINE m == [scratch EXCEPT !.todo = candidates_]
           s == [scratch.state EXCEPT !.phase = "discovering_official_sources"]
<1>1. Bootstrap!Persist("discover", m, s) /\ agent = "plan"
      /\ UNCHANGED <<evidence, suggestions, texts, nodes, accepted>>
  BY DEF Bootstrap!Plan
<1>2. m \in Bootstrap!Locals /\ m.run = scratch.run
  BY BootFacts DEF Bootstrap!Locals
<1>3. s \in Bootstrap!States /\ s.status = "running" /\ s.reviews = Bootstrap!NoReviews
  BY <1>1, BootFacts, PhaseFacts DEF Phases
<1> HIDE DEF m, s
<1> QED BY <1>1, <1>2, <1>3, BootFacts, PersistKeeps DEF AgentLabels

LEMMA SelectKeeps ==
  ASSUME BootInv, NEW selected \in SUBSET AgentFilings, Bootstrap!Select(selected), visits' = visits
  PROVE  BootInv'
<1> DEFINE found == [f \in AgentFilings |-> IF f \in selected THEN scratch.found[f] ELSE "none"]
           m == [scratch EXCEPT !.selected = selected, !.found = found]
           s == [scratch.state EXCEPT !.phase = "capturing_sources"]
<1>1. Bootstrap!Persist("capture", m, s) /\ agent = "discover"
      /\ UNCHANGED <<evidence, suggestions, texts, nodes, accepted>>
  BY DEF Bootstrap!Select
<1>2. m \in Bootstrap!Locals /\ m.run = scratch.run
  BY BootFacts DEF Bootstrap!Locals
<1>3. s \in Bootstrap!States /\ s.status = "running" /\ s.reviews = Bootstrap!NoReviews
  BY <1>1, BootFacts, PhaseFacts DEF Phases
<1> HIDE DEF m, s
<1> QED BY <1>1, <1>2, <1>3, BootFacts, PersistKeeps DEF AgentLabels

-----------------------------------------------------------------------------
LEMMA Put ==
  ASSUME NEW D, NEW R, NEW f \in [D -> R], NEW a, NEW v, a \in D => v \in R
  PROVE  /\ [f EXCEPT ![a] = v] \in [D -> R]
         /\ \A x \in D : [f EXCEPT ![a] = v][x] = IF x = a THEN v ELSE f[x]
  OBVIOUS

LEMMA ReturnedLocals ==
  ASSUME NEW m \in Bootstrap!Locals
  PROVE  /\ Bootstrap!Returned(m) \in Bootstrap!Locals
         /\ Bootstrap!Returned(m).run = Bootstrap!NoEvidences
         /\ Bootstrap!Returned(m).state = m.state
         /\ Bootstrap!Returned(m).found = m.found /\ Bootstrap!Returned(m).text = m.text
         /\ Bootstrap!Returned(m).company = m.company
         /\ \A acc : Vouched(Bootstrap!Returned(m).run, acc)
<1>1. Bootstrap!NoEvidences \in [AgentFilings -> Bootstrap!Evidence]
      /\ \A acc : Vouched(Bootstrap!NoEvidences, acc)
  BY BlankLocals
<1> QED BY <1>1 DEF Bootstrap!Returned, Bootstrap!Locals

\* Between planning and review the locals keep what they say of the state.
LEMMA KnowsOn ==
  ASSUME BootInv, agent \notin {"idle", "apply"}, NEW label \in {"discover", "index", "capture", "download", "read"},
         NEW m, Vouched(m.run, accepted), m.state = scratch.state,
         label \in {"download", "read"} => m.filing \in AgentFilings
  PROVE  AgentKnows(label, m, accepted)
  BY BootFacts DEF AgentKnows

LEMMA AskIndexKeeps ==
  ASSUME BootInv, NEW c \in Companies, Bootstrap!AskIndex(c), visits' = visits
  PROVE  BootInv'
<1> DEFINE m == [scratch EXCEPT !.todo = scratch.todo \ {c}, !.asked = c, !.run = evidence]
<1>1. Bootstrap!Goto("index", m) /\ agent = "discover"
      /\ UNCHANGED <<result, evidence, suggestions, texts, nodes, accepted>>
  BY DEF Bootstrap!AskIndex
<1>2. m \in Bootstrap!Locals /\ m.run = evidence /\ m.state = scratch.state
  BY BootFacts DEF Bootstrap!Locals
<1> HIDE DEF m
<1>3. AgentKnows("index", m, accepted)
  BY <1>1, <1>2, BootFacts, KnowsOn
<1> QED BY <1>1, <1>2, <1>3, BootFacts, AgentQuiet DEF AgentLabels

LEMMA DiscoverKeeps ==
  ASSUME BootInv, NEW named \in SUBSET AgentFilings, Bootstrap!Discover(named), visits' = visits
  PROVE  BootInv'
<1> DEFINE found == [f \in AgentFilings |-> IF f \in named /\ Official[f] = scratch.asked
                                            THEN suggestions'[f].status ELSE scratch.found[f]]
           m == [Bootstrap!Returned(scratch) EXCEPT !.found = found]
<1>1. Bootstrap!Goto("discover", m) /\ agent = "index" /\ evidence' = scratch.run
      /\ UNCHANGED <<result, texts, nodes, accepted>>
  BY DEF Bootstrap!Discover
<1>2. suggestions' \in [AgentFilings -> Bootstrap!Suggestions]
  <2>1. suggestions' = [f \in AgentFilings |->
                          IF f \in named /\ suggestions[f].status = "absent"
                          THEN [suggestions[f] EXCEPT !.status = "suggested"] ELSE suggestions[f]]
    BY DEF Bootstrap!Discover
  <2> QED BY <2>1, BootFacts DEF Bootstrap!Suggestions
<1>3. found \in [AgentFilings -> {"none"} \cup {r.status : r \in Bootstrap!Suggestions}]
  <2>1. \A f \in AgentFilings : suggestions'[f].status \in {r.status : r \in Bootstrap!Suggestions}
    BY <1>2
  <2>2. scratch.found \in [AgentFilings -> {"none"} \cup {r.status : r \in Bootstrap!Suggestions}]
    BY BootFacts DEF Bootstrap!Locals
  <2> QED BY <2>1, <2>2
<1> HIDE DEF found
<1>4. m \in Bootstrap!Locals /\ m.run = Bootstrap!Returned(scratch).run /\ m.state = scratch.state
  BY <1>3, BootFacts, ReturnedLocals DEF Bootstrap!Locals
<1>5. Vouched(m.run, accepted)
  BY <1>4, BootFacts, ReturnedLocals
<1> HIDE DEF m
<1>6. AgentKnows("discover", m, accepted)
  BY <1>1, <1>4, <1>5, KnowsOn
<1> QED BY <1>1, <1>2, <1>4, <1>6, BootFacts, AgentMove DEF AgentLabels

LEMMA DiscoverFailsKeeps ==
  ASSUME BootInv, Bootstrap!DiscoverFails, visits' = visits
  PROVE  BootInv'
<1>1. Bootstrap!Goto("discover", Bootstrap!Returned(scratch)) /\ agent = "index"
      /\ evidence' = scratch.run /\ UNCHANGED <<result, texts, suggestions, nodes, accepted>>
  BY DEF Bootstrap!DiscoverFails
<1>2. AgentKnows("discover", Bootstrap!Returned(scratch), accepted)
  BY <1>1, BootFacts, ReturnedLocals, KnowsOn
<1> QED BY <1>1, <1>2, BootFacts, ReturnedLocals, AgentMove DEF AgentLabels

-----------------------------------------------------------------------------
LEMMA CaptureKeeps ==
  ASSUME BootInv, NEW f \in AgentFilings, Bootstrap!Capture(f), visits' = visits
  PROVE  BootInv'
<1> DEFINE m == [scratch EXCEPT !.selected = scratch.selected \ {f}]
           n == [m EXCEPT !.filing = f, !.run = evidence]
<1>1. agent = "capture" /\ UNCHANGED <<result, evidence, nodes, texts, accepted>>
  BY DEF Bootstrap!Capture
<1>2. m \in Bootstrap!Locals /\ m.run = scratch.run /\ m.state = scratch.state
  BY BootFacts DEF Bootstrap!Locals
<1>3. n \in Bootstrap!Locals /\ n.run = evidence /\ n.state = scratch.state /\ n.filing = f
  BY BootFacts DEF Bootstrap!Locals
<1>4. CASE Bootstrap!Goto("capture", m) /\ UNCHANGED suggestions
  <2> HIDE DEF m, n
  <2>1. AgentKnows("capture", m, accepted)
    BY <1>1, <1>2, BootFacts, KnowsOn
  <2> QED BY <1>1, <1>2, <1>4, <2>1, BootFacts, AgentQuiet DEF AgentLabels
<1>5. CASE /\ Bootstrap!Goto("download", n)
           /\ suggestions' = [suggestions EXCEPT ![f].status = "capture_pending"]
  <2> HIDE DEF m, n
  <2>1. AgentKnows("download", n, accepted)
    BY <1>1, <1>3, BootFacts, KnowsOn
  <2>2. suggestions' \in [AgentFilings -> Bootstrap!Suggestions]
    BY <1>5, BootFacts DEF Bootstrap!Suggestions
  <2> QED BY <1>1, <1>3, <1>5, <2>1, <2>2, BootFacts, AgentMove DEF AgentLabels
<1>6. \/ Bootstrap!Goto("capture", m) /\ UNCHANGED suggestions
      \/ /\ Bootstrap!Goto("download", n)
         /\ suggestions' = [suggestions EXCEPT ![f].status = "capture_pending"]
  BY DEF Bootstrap!Capture
<1> QED BY <1>4, <1>5, <1>6

\* What a capture leaves, the agent's or a user's.
LEMMA CapturesRows ==
  ASSUME NEW f \in AgentFilings, NEW content, NEW seen, NEW r \in Bootstrap!Captures(f, content, seen)
  PROVE  r \in Bootstrap!Suggestions /\ r.evidence \in AgentFilings
<1> DEFINE same == {e \in AgentFilings \ {suggestions[f].evidence} : seen[e].hash = content}
<1>1. r \in IF same = {} THEN {[status |-> "captured", evidence |-> f]}
            ELSE {[status |-> "duplicate", evidence |-> e] : e \in same}
  BY DEF Bootstrap!Captures
<1>2. \E e \in AgentFilings, s \in {"captured", "duplicate"} : r = [status |-> s, evidence |-> e]
  <2> HIDE DEF same
  <2>1. CASE same = {}
    BY <1>1, <2>1
  <2>2. CASE same # {}
    <3>1. PICK e \in same : r = [status |-> "duplicate", evidence |-> e]
      BY <1>1, <2>2
    <3>2. e \in AgentFilings
      BY <3>1 DEF same
    <3> QED BY <3>1, <3>2
  <2> QED BY <2>1, <2>2
<1> QED BY <1>2 DEF Bootstrap!Suggestions

LEMMA AttachKeeps ==
  ASSUME BootInv, NEW f \in AgentFilings, NEW content \in Downloaded, NEW r \in Bootstrap!Suggestions,
         Bootstrap!Attach(f, r, content)
  PROVE  /\ evidence' \in [AgentFilings -> Bootstrap!Evidence] /\ Vouched(evidence', accepted)
         /\ suggestions' \in [AgentFilings -> Bootstrap!Suggestions]
         /\ texts' \in [AgentFilings -> Downloaded \cup {"none"}]
<1>1. suggestions' \in [AgentFilings -> Bootstrap!Suggestions]
      /\ texts' \in [AgentFilings -> Downloaded \cup {"none"}]
  BY BootFacts DEF Bootstrap!Attach
<1> DEFINE new == [Bootstrap!NoEvidence EXCEPT !.status = "captured", !.hash = content]
<1>2. new \in Bootstrap!Evidence /\ new.hash = content /\ new.status = "captured"
  BY DEF Bootstrap!NoEvidence, Bootstrap!Evidence
<1>3. evidence' = evidence \/ evidence' = [evidence EXCEPT ![f] = new]
  BY DEF Bootstrap!Attach
<1> HIDE DEF new
<1>4. CASE evidence' = evidence
  BY <1>1, <1>4, BootFacts
<1>5. CASE evidence' = [evidence EXCEPT ![f] = new]
  <2>1. evidence' \in [AgentFilings -> Bootstrap!Evidence]
        /\ \A e \in AgentFilings : evidence'[e] = IF e = f THEN new ELSE evidence[e]
    BY <1>2, <1>5, BootFacts, Put
  <2>2. Vouched(evidence', accepted)
    BY <1>2, <2>1, BootFacts DEF Vouched
  <2> QED BY <1>1, <2>1, <2>2
<1> QED BY <1>3, <1>4, <1>5

LEMMA FailKeeps ==
  ASSUME BootInv, NEW f \in AgentFilings, NEW status \in {"capture_failed", "capture_pending"},
         Bootstrap!Fail(f, status)
  PROVE  /\ evidence' = evidence
         /\ suggestions' \in [AgentFilings -> Bootstrap!Suggestions]
         /\ texts' \in [AgentFilings -> Downloaded \cup {"none"}]
<1>1. suggestions' \in [AgentFilings -> Bootstrap!Suggestions]
  BY BootFacts DEF Bootstrap!Fail, Bootstrap!Suggestions
<1>2. texts' \in [AgentFilings -> Downloaded \cup {"none"}]
  BY BootFacts DEF Bootstrap!Fail
<1> QED BY <1>1, <1>2 DEF Bootstrap!Fail

LEMMA DownloadKeeps ==
  ASSUME BootInv, NEW content \in Downloaded, Bootstrap!Download(content), visits' = visits
  PROVE  BootInv'
<1>1. agent = "download" /\ scratch.filing \in AgentFilings /\ UNCHANGED <<result, nodes, accepted>>
  BY BootFacts DEF Bootstrap!Download, AgentKnows
<1>2. PICK r \in Bootstrap!Captures(scratch.filing, content, scratch.run) :
        /\ Bootstrap!Attach(scratch.filing, r, content)
        /\ Bootstrap!Goto("read", [scratch EXCEPT !.item = r.evidence])
  BY DEF Bootstrap!Download
<1>3. r \in Bootstrap!Suggestions /\ r.evidence \in AgentFilings
  BY <1>1, CapturesRows
<1>4. /\ evidence' \in [AgentFilings -> Bootstrap!Evidence] /\ Vouched(evidence', accepted)
      /\ suggestions' \in [AgentFilings -> Bootstrap!Suggestions]
      /\ texts' \in [AgentFilings -> Downloaded \cup {"none"}]
  BY <1>1, <1>2, <1>3, AttachKeeps
<1> DEFINE m == [scratch EXCEPT !.item = r.evidence]
<1>5. m \in Bootstrap!Locals /\ m.run = scratch.run /\ m.state = scratch.state
      /\ m.filing = scratch.filing
  BY <1>3, BootFacts DEF Bootstrap!Locals
<1>6. Bootstrap!Goto("read", m)
  BY <1>2
<1> HIDE DEF m
<1>7. AgentKnows("read", m, accepted)
  BY <1>1, <1>5, BootFacts, KnowsOn
<1> QED BY <1>1, <1>4, <1>5, <1>6, <1>7, BootFacts, AgentMove DEF AgentLabels

LEMMA DownloadFailsKeeps ==
  ASSUME BootInv, Bootstrap!DownloadFails, visits' = visits
  PROVE  BootInv'
<1>1. /\ agent = "download" /\ scratch.filing \in AgentFilings /\ UNCHANGED <<result, nodes, accepted>>
      /\ Bootstrap!Fail(scratch.filing, "capture_failed")
      /\ Bootstrap!Goto("capture", Bootstrap!Returned(scratch))
  BY BootFacts DEF Bootstrap!DownloadFails, AgentKnows
<1>2. AgentKnows("capture", Bootstrap!Returned(scratch), accepted)
  BY <1>1, BootFacts, ReturnedLocals, KnowsOn
<1> QED BY <1>1, <1>2, BootFacts, ReturnedLocals, FailKeeps, AgentMove DEF AgentLabels

LEMMA ReadKeeps ==
  ASSUME BootInv, Bootstrap!Read, visits' = visits
  PROVE  BootInv'
<1> DEFINE e == scratch.item
           r == Bootstrap!Returned(scratch)
           m == [r EXCEPT !.text[e] = evidence[e].hash, !.company[e] = Official[scratch.filing]]
<1>1. /\ agent = "read" /\ scratch.filing \in AgentFilings
      /\ UNCHANGED <<evidence, suggestions, texts, nodes, accepted>>
  BY BootFacts DEF Bootstrap!Read, AgentKnows
<1>2. Bootstrap!Abort \/ (Bootstrap!Goto("capture", m) /\ UNCHANGED result)
  BY DEF Bootstrap!Read
<1>3. CASE Bootstrap!Abort
  BY <1>1, <1>3, AbortKeeps
<1>4. CASE Bootstrap!Goto("capture", m) /\ UNCHANGED result
  <2>1. r \in Bootstrap!Locals /\ r.state = scratch.state /\ Vouched(r.run, accepted)
    BY BootFacts, ReturnedLocals
  <2>2. Official[scratch.filing] \in Companies \cup {"none"}
    BY <1>1, BootNone
  <2>3. e \in AgentFilings => evidence[e].hash \in Downloaded \cup {"none"}
    BY BootFacts DEF Bootstrap!Evidence
  <2> DEFINE text == [r.text EXCEPT ![e] = evidence[e].hash]
             company == [r.company EXCEPT ![e] = Official[scratch.filing]]
  <2>4. text \in [AgentFilings -> Downloaded \cup {"none"}]
        /\ company \in [AgentFilings -> Companies \cup {"none"}]
    <3> HIDE DEF e, r
    <3>1. r.text \in [AgentFilings -> Downloaded \cup {"none"}]
          /\ r.company \in [AgentFilings -> Companies \cup {"none"}]
      BY <2>1 DEF Bootstrap!Locals
    <3> QED BY <3>1, <2>2, <2>3
  <2> HIDE DEF r, text, company
  <2>5. m = [r EXCEPT !.text = text, !.company = company]
    BY <2>1 DEF text, company, Bootstrap!Locals
  <2>6. m \in Bootstrap!Locals /\ m.run = r.run /\ m.state = r.state
    BY <2>1, <2>4, <2>5 DEF Bootstrap!Locals
  <2> HIDE DEF m
  <2>7. AgentKnows("capture", m, accepted)
    BY <1>1, <2>1, <2>6, KnowsOn
  <2> QED BY <1>1, <1>4, <2>6, <2>7, BootFacts, AgentQuiet DEF AgentLabels
<1> QED BY <1>2, <1>3, <1>4

LEMMA CapturedKeeps ==
  ASSUME BootInv, Bootstrap!Captured, visits' = visits
  PROVE  BootInv'
<1> DEFINE captured == {e \in AgentFilings : scratch.company[e] # "none"}
           m == [scratch EXCEPT !.found = Bootstrap!NoReviews]
           s == [scratch.state EXCEPT !.phase = "reviewing_evidence", !.captured = captured]
           x == [m EXCEPT !.state = s]
<1>1. agent = "capture" /\ UNCHANGED <<evidence, suggestions, texts, nodes, accepted>>
  BY DEF Bootstrap!Captured
<1>2. Bootstrap!Abort \/ (Bootstrap!Goto("review", x) /\ result' = s)
  BY DEF Bootstrap!Captured, Bootstrap!Persist
<1>3. CASE Bootstrap!Abort
  BY <1>1, <1>3, AbortKeeps
<1>4. CASE Bootstrap!Goto("review", x) /\ result' = s
  <2>1. captured \in SUBSET AgentFilings
    OBVIOUS
  <2>2. \A e \in captured : scratch.company[e] \in Companies
    BY BootFacts DEF Bootstrap!Locals
  <2> HIDE DEF captured
  <2>3. /\ s \in Bootstrap!States /\ s.status = "running" /\ s.captured = captured
        /\ s.reviews = Bootstrap!NoReviews
    BY <1>1, <2>1, BootFacts DEF Bootstrap!States
  <2> HIDE DEF s
  <2>4. Bootstrap!NoReviews \in [AgentFilings -> {"none"} \cup {y.status : y \in Bootstrap!Suggestions}]
    BY DEF Bootstrap!NoReviews
  <2>5. /\ x \in Bootstrap!Locals /\ x.run = scratch.run /\ x.state = s
        /\ x.company = scratch.company
    BY <2>3, <2>4, BootFacts DEF Bootstrap!Locals
  <2> HIDE DEF x
  <2>6. AgentKnows("review", x, accepted)
    BY <2>2, <2>3, <2>5, BootFacts DEF AgentKnows
  <2>7. Reviewed(s)
    BY <2>3 DEF Reviewed
  <2> QED BY <1>1, <1>4, <2>3, <2>5, <2>6, <2>7, BootFacts, AgentQuiet DEF AgentLabels
<1> QED BY <1>2, <1>3, <1>4

-----------------------------------------------------------------------------
LEMMA ReviewKeeps ==
  ASSUME BootInv, NEW back, NEW approved_, Bootstrap!Review(back, approved_), visits' = visits
  PROVE  BootInv'
<1> DEFINE verdicts == [e \in AgentFilings |->
                          IF e \notin scratch.state.captured THEN "none"
                          ELSE IF e \in approved_ THEN "approved" ELSE "refused"]
           m == [scratch EXCEPT !.verdicts = verdicts]
<1>1. /\ agent = "review" /\ Bootstrap!Goto("apply", m)
      /\ UNCHANGED <<result, evidence, suggestions, texts, nodes, accepted>>
  BY DEF Bootstrap!Review
<1>2. /\ verdicts \in [AgentFilings -> Bootstrap!Outcomes]
      /\ \A e \in AgentFilings : verdicts[e] # "none" <=> e \in scratch.state.captured
  BY DEF Bootstrap!Outcomes
<1> HIDE DEF verdicts
<1>3. /\ m \in Bootstrap!Locals /\ m.run = scratch.run /\ m.state = scratch.state
      /\ m.company = scratch.company /\ m.verdicts = verdicts
  BY <1>2, BootFacts DEF Bootstrap!Locals
<1> HIDE DEF m
<1>4. \A e \in AgentFilings : scratch.state.reviews[e] = "none"
  BY <1>1, BootFacts DEF Bootstrap!NoReviews
<1>5. AgentKnows("apply", m, accepted)
  BY <1>1, <1>2, <1>3, <1>4, BootFacts DEF AgentKnows
<1> QED BY <1>1, <1>3, <1>5, BootFacts, AgentQuiet DEF AgentLabels

LEMMA ApplyKeeps ==
  ASSUME BootInv, NEW e \in AgentFilings, Bootstrap!Apply(e), visits' = visits
  PROVE  BootInv'
<1> DEFINE verdict == scratch.verdicts[e]
           hash == evidence[e].hash
           new == [status |-> IF verdict = "approved" THEN "agent_reviewed" ELSE "rejected",
                   hash |-> hash,
                   quoted |-> IF verdict = "approved" THEN scratch.text[e] ELSE "none"]
           m == [scratch EXCEPT !.verdicts[e] = "none", !.text[e] = "none",
                                !.state.reviews[e] = verdict]
<1>1. agent = "apply" /\ verdict # "none" /\ UNCHANGED <<suggestions, texts, nodes>>
  BY DEF Bootstrap!Apply
<1>2. \/ Bootstrap!Abort /\ UNCHANGED <<evidence, accepted>>
      \/ /\ evidence[e] # Bootstrap!NoEvidence /\ evidence' = [evidence EXCEPT ![e] = new]
         /\ accepted' = IF verdict = "approved"
                        THEN accepted \cup {<<e, hash, scratch.company[e]>>} ELSE accepted
         /\ Bootstrap!Goto("apply", m) /\ UNCHANGED result
  BY DEF Bootstrap!Apply
<1>3. CASE Bootstrap!Abort /\ UNCHANGED <<evidence, accepted>>
  BY <1>1, <1>3, AbortKeeps
<1>4. CASE /\ evidence[e] # Bootstrap!NoEvidence /\ evidence' = [evidence EXCEPT ![e] = new]
           /\ accepted' = IF verdict = "approved"
                          THEN accepted \cup {<<e, hash, scratch.company[e]>>} ELSE accepted
           /\ Bootstrap!Goto("apply", m) /\ UNCHANGED result
  <2>1. AgentKnows("apply", scratch, accepted)
    BY <1>1, BootFacts
  <2>2. e \in scratch.state.captured /\ scratch.company[e] \in Companies
    BY <1>1, <2>1 DEF AgentKnows
  <2>3. hash \in Downloaded
    BY <1>4, BootFacts DEF Vouched
  <2>4. verdict \in Bootstrap!Outcomes /\ scratch.text[e] \in Downloaded \cup {"none"}
    BY BootFacts DEF Bootstrap!Locals
  <2>5. /\ accepted \subseteq accepted'
        /\ accepted' \subseteq AgentFilings \X Downloaded \X Companies
        /\ verdict = "approved" => <<e, hash, scratch.company[e]>> \in accepted'
    BY <1>4, <2>2, <2>3, BootFacts
  <2>6. new \in Bootstrap!Evidence /\ new.hash = hash
        /\ (new.status = "agent_reviewed" => verdict = "approved")
    BY <2>3, <2>4 DEF Bootstrap!Evidence
  <2> HIDE DEF new
  <2>7. /\ evidence' \in [AgentFilings -> Bootstrap!Evidence]
        /\ \A x \in AgentFilings : evidence'[x] = IF x = e THEN new ELSE evidence[x]
    BY <1>4, <2>6, BootFacts, Put
  <2>8. Vouched(evidence', accepted')
    <3>1. Vouched(evidence, accepted')
      BY <2>5, BootFacts, VouchedMore
    <3> HIDE DEF hash, verdict
    <3> QED BY <3>1, <2>2, <2>3, <2>5, <2>6, <2>7 DEF Vouched
  <2> DEFINE verdicts == [scratch.verdicts EXCEPT ![e] = "none"]
             text == [scratch.text EXCEPT ![e] = "none"]
             reviews == [scratch.state.reviews EXCEPT ![e] = verdict]
             s == [scratch.state EXCEPT !.reviews = reviews]
  <2>9. /\ verdicts \in [AgentFilings -> Bootstrap!Outcomes]
        /\ text \in [AgentFilings -> Downloaded \cup {"none"}]
        /\ reviews \in [AgentFilings -> Bootstrap!Outcomes]
        /\ \A x \in AgentFilings :
             /\ verdicts[x] = IF x = e THEN "none" ELSE scratch.verdicts[x]
             /\ reviews[x] = IF x = e THEN verdict ELSE scratch.state.reviews[x]
    <3>1. /\ scratch.verdicts \in [AgentFilings -> Bootstrap!Outcomes]
          /\ scratch.text \in [AgentFilings -> Downloaded \cup {"none"}]
          /\ scratch.state.reviews \in [AgentFilings -> Bootstrap!Outcomes]
          /\ "none" \in Bootstrap!Outcomes
      BY BootFacts DEF Bootstrap!Locals, Bootstrap!States, Bootstrap!Outcomes
    <3> HIDE DEF verdict
    <3> QED BY <3>1, <2>4, Put
  <2>10. m = [scratch EXCEPT !.verdicts = verdicts, !.text = text, !.state = s]
    BY BootFacts DEF Bootstrap!Locals, Bootstrap!States
  <2> HIDE DEF verdicts, text, reviews, verdict
  <2>11. /\ s \in Bootstrap!States /\ s.status = scratch.state.status
         /\ s.captured = scratch.state.captured /\ s.reviews = reviews
    BY <2>9, BootFacts DEF Bootstrap!States
  <2> HIDE DEF s
  <2>12. /\ m \in Bootstrap!Locals /\ m.run = scratch.run /\ m.state = s
         /\ m.company = scratch.company /\ m.verdicts = verdicts
    BY <2>9, <2>10, <2>11, BootFacts DEF Bootstrap!Locals
  <2> HIDE DEF m
  <2>13. Vouched(m.run, accepted')
    BY <2>5, <2>12, BootFacts, VouchedMore
  <2>14. \A x \in AgentFilings :
           /\ x \in s.captured => verdicts[x] # "none" \/ reviews[x] # "none"
           /\ verdicts[x] # "none" => x \in s.captured
           /\ reviews[x] = "approved" =>
                \E h \in Downloaded : <<x, h, scratch.company[x]>> \in accepted'
    <3> SUFFICES ASSUME NEW x \in AgentFilings
                 PROVE  /\ x \in s.captured => verdicts[x] # "none" \/ reviews[x] # "none"
                        /\ verdicts[x] # "none" => x \in s.captured
                        /\ reviews[x] = "approved" =>
                             \E h \in Downloaded : <<x, h, scratch.company[x]>> \in accepted'
      OBVIOUS
    <3>1. CASE x = e
      BY <3>1, <1>1, <2>2, <2>3, <2>5, <2>9, <2>11 DEF verdict
    <3>2. CASE x # e
      BY <3>2, <2>1, <2>5, <2>9, <2>11 DEF AgentKnows
    <3> QED BY <3>1, <3>2
  <2>15. AgentKnows("apply", m, accepted')
    BY <1>1, <2>1, <2>11, <2>12, <2>13, <2>14, BootFacts DEF AgentKnows
  <2>16. NodesBacked(nodes, accepted')
    BY <2>5, BootFacts DEF NodesBacked
  <2>17. agent' = "apply" /\ scratch' = m /\ result' = result
    BY <1>4 DEF Bootstrap!Goto
  <2> QED BY <1>1, <2>5, <2>7, <2>8, <2>12, <2>15, <2>16, <2>17, BootFacts, BootMove DEF AgentLabels
<1> QED BY <1>2, <1>3, <1>4

LEMMA CompleteKeeps ==
  ASSUME BootInv, Bootstrap!Complete, visits' = visits
  PROVE  BootInv'
<1> DEFINE state == scratch.state
           verified == Bootstrap!Verified(state)
           r == [state EXCEPT !.status = "completed", !.phase = "completed", !.companies = verified]
<1>1. /\ agent = "apply" /\ scratch.verdicts = Bootstrap!NoReviews
      /\ UNCHANGED <<evidence, suggestions, texts, accepted>>
  BY DEF Bootstrap!Complete
<1>2. \/ Bootstrap!Abort /\ UNCHANGED nodes
      \/ /\ nodes' = nodes \cup verified /\ result' = r
         /\ Bootstrap!Goto("idle", Bootstrap!Blank)
  BY DEF Bootstrap!Complete
<1>3. CASE Bootstrap!Abort /\ UNCHANGED nodes
  BY <1>1, <1>3, AbortKeeps
<1>4. CASE /\ nodes' = nodes \cup verified /\ result' = r
           /\ Bootstrap!Goto("idle", Bootstrap!Blank)
  <2>1. AgentKnows("apply", scratch, accepted)
    BY <1>1, BootFacts
  <2>2. \A c \in verified : \E e \in AgentFilings, h \in Downloaded : <<e, h, c>> \in accepted
    BY <2>1 DEF AgentKnows, Bootstrap!Verified
  <2>3. verified \subseteq Companies
    BY <2>2, BootFacts
  <2> HIDE DEF verified
  <2>4. r \in Bootstrap!States /\ r.captured = state.captured /\ r.reviews = state.reviews
    BY <2>3, BootFacts DEF Bootstrap!States
  <2>5. \A e \in r.captured : r.reviews[e] # "none"
    <3>1. \A e \in AgentFilings : scratch.verdicts[e] = "none"
      BY <1>1 DEF Bootstrap!NoReviews
    <3>2. state.captured \subseteq AgentFilings
      BY BootFacts DEF Bootstrap!States
    <3> QED BY <2>1, <2>4, <3>1, <3>2 DEF AgentKnows
  <2> HIDE DEF r
  <2>6. Reviewed(r)
    BY <2>5 DEF Reviewed
  <2>7. nodes' \subseteq Companies /\ NodesBacked(nodes', accepted)
    BY <1>4, <2>2, <2>3, BootFacts DEF NodesBacked
  <2>8. agent' = "idle" /\ scratch' = Bootstrap!Blank
    BY <1>4 DEF Bootstrap!Goto
  <2> QED BY <1>1, <1>4, <2>4, <2>6, <2>7, <2>8, BootFacts, BlankLocals, BootMove DEF AgentLabels
<1> QED BY <1>2, <1>3, <1>4

LEMMA FailsKeeps ==
  ASSUME BootInv, Bootstrap!ModelFails \/ Bootstrap!Crash, visits' = visits
  PROVE  BootInv'
<1>1. UNCHANGED <<evidence, suggestions, texts, nodes, accepted>>
  BY DEF Bootstrap!ModelFails, Bootstrap!Crash
<1>2. CASE Bootstrap!Abort
  BY <1>1, <1>2, AbortKeeps
<1>3. CASE Bootstrap!Goto("idle", Bootstrap!Blank) /\ UNCHANGED result
  BY <1>1, <1>3, BootFacts, BlankLocals, AgentQuiet DEF AgentLabels
<1> QED BY <1>2, <1>3 DEF Bootstrap!ModelFails, Bootstrap!Crash

-----------------------------------------------------------------------------
LEMMA BootUserKeeps ==
  ASSUME BootInv, Bootstrap!User
  PROVE  BootInv'
<1>1. PICK f \in AgentFilings :
        \/ \E content \in Downloaded : Bootstrap!UserCaptures(f, content)
        \/ Bootstrap!UserCaptureFails(f) \/ Bootstrap!Dismiss(f)
        \/ \E approve \in BOOLEAN : Bootstrap!Decide(f, approve)
  BY DEF Bootstrap!User
<1>2. UNCHANGED <<result, nodes, agent, scratch, accepted>> /\ visits' \in 0..MaxVisits
  BY BootFacts, BootNone DEF Bootstrap!User
<1>3. /\ evidence' \in [AgentFilings -> Bootstrap!Evidence] /\ Vouched(evidence', accepted)
      /\ suggestions' \in [AgentFilings -> Bootstrap!Suggestions]
      /\ texts' \in [AgentFilings -> Downloaded \cup {"none"}]
  <2>1. CASE \E content \in Downloaded : Bootstrap!UserCaptures(f, content)
    <3>1. PICK content \in Downloaded : Bootstrap!UserCaptures(f, content)
      BY <2>1
    <3>2. PICK r \in Bootstrap!Captures(f, content, evidence) : Bootstrap!Attach(f, r, content)
      BY <3>1 DEF Bootstrap!UserCaptures
    <3> QED BY <3>2, CapturesRows, AttachKeeps
  <2>2. CASE Bootstrap!UserCaptureFails(f)
    <3>1. PICK s \in {"capture_failed", "capture_pending"} : Bootstrap!Fail(f, s)
      BY <2>2 DEF Bootstrap!UserCaptureFails
    <3> QED BY <3>1, FailKeeps, BootFacts
  <2>3. CASE Bootstrap!Dismiss(f)
    BY <2>3, BootFacts DEF Bootstrap!Dismiss, Bootstrap!Suggestions
  <2>4. CASE \E approve \in BOOLEAN : Bootstrap!Decide(f, approve)
    <3>1. PICK approve \in BOOLEAN : Bootstrap!Decide(f, approve)
      BY <2>4
    <3> DEFINE new == [evidence[f] EXCEPT !.status = IF approve THEN "reviewed" ELSE "rejected",
                                          !.quoted = "none"]
    <3>2. new \in Bootstrap!Evidence /\ new.hash = evidence[f].hash /\ new.status # "agent_reviewed"
      <4>1. evidence[f] \in Bootstrap!Evidence
        BY BootFacts
      <4> DEFINE status == IF approve THEN "reviewed" ELSE "rejected"
      <4>2. status \in {"reviewed", "rejected"}
        OBVIOUS
      <4> HIDE DEF status
      <4> QED BY <4>1, <4>2 DEF Bootstrap!Evidence
    <3>3. evidence' = [evidence EXCEPT ![f] = new] /\ evidence[f] # Bootstrap!NoEvidence
          /\ UNCHANGED <<suggestions, texts>>
      BY <3>1, BootFacts DEF Bootstrap!Decide, Bootstrap!Evidence
    <3> HIDE DEF new
    <3>4. /\ evidence' \in [AgentFilings -> Bootstrap!Evidence]
          /\ \A x \in AgentFilings : evidence'[x] = IF x = f THEN new ELSE evidence[x]
      BY <3>2, <3>3, BootFacts, Put
    <3>5. Vouched(evidence', accepted)
      BY <3>2, <3>3, <3>4, BootFacts DEF Vouched
    <3> QED BY <3>3, <3>4, <3>5, BootFacts
  <2> QED BY <1>1, <2>1, <2>2, <2>3, <2>4
<1> QED BY <1>2, <1>3, BootFacts, BootMove

LEMMA BootStep ==
  ASSUME BootInv, [Bootstrap!BootstrapNext]_Bootstrap!bootstrapVars
  PROVE  BootInv'
<1>1. CASE UNCHANGED Bootstrap!bootstrapVars
  <2>1. UNCHANGED <<result, evidence, nodes, suggestions, texts, agent, scratch, accepted, visits>>
    BY <1>1 DEF Bootstrap!bootstrapVars
  <2> QED BY <2>1, BootFacts, BootMove
<1>2. CASE Bootstrap!User
  BY <1>2, BootUserKeeps
<1>3. CASE Bootstrap!Agent /\ visits' = visits
  <2>1. ASSUME NEW f \in AgentFilings, Bootstrap!Capture(f) \/ Bootstrap!Apply(f)
        PROVE  BootInv'
    BY <1>3, <2>1, CaptureKeeps, ApplyKeeps
  <2>2. ASSUME NEW content \in Downloaded, Bootstrap!Download(content)
        PROVE  BootInv'
    BY <1>3, <2>2, DownloadKeeps
  <2>3. ASSUME NEW c \in Companies, Bootstrap!AskIndex(c)
        PROVE  BootInv'
    BY <1>3, <2>3, AskIndexKeeps
  <2>4. ASSUME NEW candidates_ \in SUBSET Companies, Bootstrap!Plan(candidates_)
        PROVE  BootInv'
    BY <1>3, <2>4, PlanKeeps
  <2>5. ASSUME NEW named \in SUBSET AgentFilings, Bootstrap!Discover(named) \/ Bootstrap!Select(named)
        PROVE  BootInv'
    BY <1>3, <2>5, DiscoverKeeps, SelectKeeps
  <2>6. ASSUME Bootstrap!Start \/ Bootstrap!DiscoverFails \/ Bootstrap!DownloadFails
        PROVE  BootInv'
    BY <1>3, <2>6, StartKeeps, DiscoverFailsKeeps, DownloadFailsKeeps
  <2>7. ASSUME Bootstrap!Read \/ Bootstrap!Captured
        PROVE  BootInv'
    BY <1>3, <2>7, ReadKeeps, CapturedKeeps
  <2>8. ASSUME NEW back, NEW approved_, Bootstrap!Review(back, approved_)
        PROVE  BootInv'
    BY <1>3, <2>8, ReviewKeeps
  <2>9. ASSUME Bootstrap!Complete \/ Bootstrap!ModelFails \/ Bootstrap!Crash
        PROVE  BootInv'
    BY <1>3, <2>9, CompleteKeeps, FailsKeeps
  <2> QED BY <1>3, <2>1, <2>2, <2>3, <2>4, <2>5, <2>6, <2>7, <2>8, <2>9 DEF Bootstrap!Agent
<1> QED BY <1>1, <1>2, <1>3 DEF Bootstrap!BootstrapNext

LEMMA BootAtWork ==
  ASSUME [Next]_rows
  PROVE  [Bootstrap!BootstrapNext]_Bootstrap!bootstrapVars
<1>1. CASE Only("bootstrap") /\ Bootstrap!BootstrapNext
  BY <1>1
<1>2. CASE UNCHANGED bootstrapRows
  BY <1>2 DEF bootstrapRows, Bootstrap!bootstrapVars
<1> QED BY <1>1, <1>2 DEF Next, Only, rows

LEMMA BootStart ==
  ASSUME Bootstrap!BootstrapInit
  PROVE  BootInv
<1>1. /\ result = Bootstrap!NoState /\ evidence = Bootstrap!NoEvidences /\ nodes = {}
      /\ suggestions = [f \in AgentFilings |-> [status |-> "absent", evidence |-> "none"]]
      /\ texts = Bootstrap!NoReviews /\ agent = "idle" /\ scratch = Bootstrap!Blank
      /\ accepted = {} /\ visits = 0
  BY DEF Bootstrap!BootstrapInit
<1>2. /\ suggestions \in [AgentFilings -> Bootstrap!Suggestions]
      /\ texts \in [AgentFilings -> Downloaded \cup {"none"}] /\ visits \in 0..MaxVisits
  BY <1>1, BootNone DEF Bootstrap!Suggestions, Bootstrap!NoReviews
<1>3. Bootstrap!BootstrapTypeOK
  BY <1>1, <1>2, BlankLocals DEF Bootstrap!BootstrapTypeOK
<1>4. Reviewed(result) /\ NodesBacked(nodes, accepted)
  BY <1>1, BlankLocals DEF Reviewed, NodesBacked
<1> QED BY <1>1, <1>3, <1>4, BlankLocals DEF BootInv

\* BootInv holds of the workbench.
LEMMA Booted == Spec => []BootInv
<1>1. Init => BootInv
  BY BootStart DEF Init
<1>2. BootInv /\ [Next]_rows => BootInv'
  BY BootAtWork, BootStep
<1> QED BY <1>1, <1>2, PTL DEF Spec

\* A completed attempt of the Evidence pass has an outcome for every filing it
\* captured, whatever its model forgets to return
\* (research/evidence_bootstrap.py).
THEOREM CapturesReviewed == Spec => []CapturesAreReviewed
<1>1. BootInv => CapturesAreReviewed
  BY DEF BootInv, Reviewed, CapturesAreReviewed, Bootstrap!CapturesAreReviewed
<1> QED BY <1>1, Booted, PTL

\* What the agent's review is trusted for was approved with exactly this hash
\* for that company, however users capture, decide and dismiss meanwhile, and
\* whatever copy of the run is saved over it
\* (research/evidence_bootstrap.py).
THEOREM ApprovalsBacked == Spec => []ApprovalsBackTrust
<1>1. BootInv => ApprovalsBackTrust
  BY DEF BootInv, Vouched, NodesBacked, ApprovalsBackTrust, Bootstrap!ApprovalsBackTrust
<1> QED BY <1>1, Booted, PTL

-----------------------------------------------------------------------------
(* Tracking: between the snapshot and its events there is always a request *)
(* that still has them to save, or one that died.                          *)

TrackJob(j) ==
  \/ j = Tracked!Idle
  \/ j = [pc |-> "snapshot", date |-> j.date, quote |-> j.quote]
  \/ /\ j = [pc |-> "events", date |-> j.date, quote |-> j.quote, todo |-> j.todo]
     /\ j.todo \in Seq(Triggers)

\* Request job j has trigger g of date d to save.
Due(j, d, g) ==
  j.pc = "events" /\ j.date = d /\ \E i \in 1..Len(j.todo) : j.todo[i] = g

Fires ==
  \A d \in TrackingDates, g \in Triggers :
    snapshots[d] # Tracked!NoSnapshot /\ Tracked!Holds(g, Tracked!Metrics(candidate, snapshots[d]))
      /\ d \notin cutShort
    => \/ <<g, d>> \in DOMAIN triggered
       \/ \E t \in Trackers : Due(tracking[t], d, g)

TrackInv ==
  /\ IsOn(snapshots, TrackingDates) /\ IsOn(tracking, Trackers)
  /\ IsOn(candidate, {"stage", "price", "benchmark"})
  /\ \A t \in Trackers : TrackJob(tracking[t])
  /\ candidate = Tracked!NoCandidate =>
       /\ \A d \in TrackingDates : snapshots[d] = Tracked!NoSnapshot
       /\ \A t \in Trackers : tracking[t] = Tracked!Idle
  /\ Fires

\* A finite set as a sequence has all of its elements.
LEMMA SequenceOfSet ==
  ASSUME NEW S, IsFiniteSet(S)
  PROVE  /\ Tracked!SetToSeq(S) \in Seq(S)
         /\ \A x \in S : \E i \in 1..Len(Tracked!SetToSeq(S)) : Tracked!SetToSeq(S)[i] = x
<1> DEFINE n == Cardinality(S)
<1>1. n \in Nat /\ ExistsBijection(1..n, S)
  BY FS_CardinalityType
<1>2. \E f \in [1..n -> S] : IsInjective(f)
  BY <1>1 DEF ExistsBijection, Bijection, Injection
<1>3. \A f : Tracked!IsInjective(f) <=> IsInjective(f)
  BY DEF Tracked!IsInjective, IsInjective
<1>4. Tracked!Cardinality(S) = n
  BY DEF Tracked!Cardinality, Cardinality
<1> HIDE DEF n
<1>5. PICK f \in [1..n -> S] : f = Tracked!SetToSeq(S) /\ IsInjective(f)
  BY <1>2, <1>3, <1>4 DEF Tracked!SetToSeq
<1>6. f \in Injection(1..n, S)
  BY <1>5 DEF Injection
<1>7. IsFiniteSet(1..n) /\ Cardinality(1..n) = n
  BY <1>1, FS_Interval
<1>8. f \in Surjection(1..n, S)
  BY <1>6, <1>7, FS_Injection DEF n
<1>9. \A x \in S : \E i \in 1..n : f[i] = x
  BY <1>8 DEF Surjection
<1>10. f \in Seq(S) /\ Len(f) = n
  BY <1>1, <1>5
<1> QED BY <1>5, <1>9, <1>10

\* The metrics of a snapshot depend on the baseline alone.
Baseline ==
  /\ IsOn(candidate', {"stage", "price", "benchmark"})
  /\ candidate # Tracked!NoCandidate =>
       /\ candidate' # Tracked!NoCandidate
       /\ candidate'.price = candidate.price /\ candidate'.benchmark = candidate.benchmark

LEMMA SameMetrics ==
  ASSUME NEW b, NEW c, b.price = c.price, b.benchmark = c.benchmark, NEW s
  PROVE  Tracked!Metrics(b, s) = Tracked!Metrics(c, s)
BY DEF Tracked!Metrics

\* A request begins, or ends with nothing left to save.
LEMMA RequestMoves ==
  ASSUME TrackInv, Baseline, UNCHANGED <<snapshots, cutShort>>,
         DOMAIN triggered \subseteq DOMAIN triggered',
         NEW t \in Trackers, NEW j, TrackJob(j),
         tracking' = [tracking EXCEPT ![t] = j],
         j # Tracked!Idle => candidate' # Tracked!NoCandidate,
         \A d \in TrackingDates, g \in Triggers :
           Due(tracking[t], d, g) => <<g, d>> \in DOMAIN triggered' \/ Due(j, d, g)
  PROVE  TrackInv'
<1>1. /\ IsOn(tracking', Trackers) /\ tracking'[t] = j
      /\ \A u \in Trackers \ {t} : tracking'[u] = tracking[u]
  BY DEF TrackInv, IsOn
<1>2. /\ IsOn(snapshots', TrackingDates) /\ IsOn(candidate', {"stage", "price", "benchmark"})
      /\ \A u \in Trackers : TrackJob(tracking'[u])
  BY <1>1 DEF TrackInv, Baseline
<1>3. candidate' = Tracked!NoCandidate =>
        /\ \A d \in TrackingDates : snapshots'[d] = Tracked!NoSnapshot
        /\ \A u \in Trackers : tracking'[u] = Tracked!Idle
  BY <1>1 DEF TrackInv, Baseline
<1>4. ASSUME NEW d \in TrackingDates, NEW g \in Triggers, snapshots'[d] # Tracked!NoSnapshot,
             Tracked!Holds(g, Tracked!Metrics(candidate', snapshots'[d])), d \notin cutShort'
      PROVE  \/ <<g, d>> \in DOMAIN triggered'
             \/ \E u \in Trackers : Due(tracking'[u], d, g)
  <2>1. candidate # Tracked!NoCandidate
    BY <1>4 DEF TrackInv
  <2>2. Tracked!Metrics(candidate', snapshots[d]) = Tracked!Metrics(candidate, snapshots[d])
    BY <2>1, SameMetrics DEF Baseline
  <2>3. \/ <<g, d>> \in DOMAIN triggered
        \/ \E u \in Trackers : Due(tracking[u], d, g)
    BY <1>4, <2>2 DEF TrackInv, Fires
  <2> QED BY <1>1, <2>3
<1>5. Fires'
  BY <1>4 DEF Fires
<1> QED BY <1>1, <1>2, <1>3, <1>5 DEF TrackInv

LEMMA NotDue ==
  /\ \A d, g : ~Due(Tracked!Idle, d, g)
  /\ \A j, d, g : Due(j, d, g) => j # Tracked!Idle
  /\ TrackJob(Tracked!Idle)
  /\ \A d, q : LET j == [pc |-> "snapshot", date |-> d, quote |-> q]
               IN  TrackJob(j) /\ j # Tracked!Idle
BY DEF Due, Tracked!Idle, TrackJob

\* A request begins with or without a snapshot to save.
LEMMA BeginMoves ==
  ASSUME TrackInv, Baseline, UNCHANGED <<snapshots, cutShort, triggered>>,
         NEW t \in Trackers, tracking[t] = Tracked!Idle,
         \/ UNCHANGED tracking
         \/ Tracked!Done(t)
         \/ candidate' # Tracked!NoCandidate /\ \E d, q : Tracked!Snapshot(t, d, q)
  PROVE  TrackInv'
<1>1. CASE UNCHANGED tracking \/ Tracked!Done(t)
  <2>1. tracking' = [tracking EXCEPT ![t] = Tracked!Idle]
    BY <1>1 DEF Tracked!Done, TrackInv, IsOn
  <2> QED BY <2>1, NotDue, RequestMoves
<1>2. ASSUME candidate' # Tracked!NoCandidate, NEW d, NEW q, Tracked!Snapshot(t, d, q)
      PROVE  TrackInv'
  <2> DEFINE j == [pc |-> "snapshot", date |-> d, quote |-> q]
  <2>1. tracking' = [tracking EXCEPT ![t] = j] /\ TrackJob(j)
    BY <1>2, NotDue DEF Tracked!Snapshot
  <2> HIDE DEF j
  <2> QED BY <1>2, <2>1, NotDue, RequestMoves
<1> QED BY <1>1, <1>2

LEMMA RequestsMove ==
  ASSUME TrackInv, Tracked!TrackingRequests
  PROVE  TrackInv'
<1>1. ASSUME UNCHANGED candidate
      PROVE  Baseline
  BY <1>1 DEF Baseline, TrackInv
<1>2. ASSUME NEW t \in Trackers, NEW price, NEW benchmark,
             candidate' = IF candidate = Tracked!NoCandidate
                          THEN [stage |-> "watch", price |-> price, benchmark |-> benchmark]
                          ELSE candidate
      PROVE  Baseline /\ candidate' # Tracked!NoCandidate
  <2>1. CASE candidate = Tracked!NoCandidate
    BY <1>2, <2>1 DEF Baseline, IsOn, Tracked!NoCandidate
  <2> QED BY <1>2, <2>1 DEF Baseline, TrackInv
<1>3. ASSUME NEW t \in Trackers, NEW d \in TrackingDates, NEW q \in Tracked!Quotes,
             Tracked!TrackWithPrices(t, d, q)
      PROVE  TrackInv'
  <2>1. Baseline /\ candidate' # Tracked!NoCandidate
    BY <1>2, <1>3 DEF Tracked!TrackWithPrices, Tracked!AddCandidate
  <2>2. /\ tracking[t] = Tracked!Idle /\ UNCHANGED <<snapshots, cutShort, triggered>>
        /\ Tracked!Done(t) \/ Tracked!Snapshot(t, d, q)
    BY <1>3 DEF Tracked!TrackWithPrices, Tracked!Begin
  <2> QED BY <2>1, <2>2, BeginMoves
<1>4. ASSUME NEW t \in Trackers, Tracked!TrackWithout(t)
      PROVE  TrackInv'
  <2>1. Baseline
    BY <1>2, <1>4 DEF Tracked!TrackWithout, Tracked!AddCandidate
  <2> QED BY <1>4, <2>1, BeginMoves DEF Tracked!TrackWithout, Tracked!Begin
<1>5. ASSUME NEW t \in Trackers,
             \/ \E d \in TrackingDates, q \in Tracked!Quotes : Tracked!AddSnapshot(t, d, q)
             \/ \E f \in Feeds : Tracked!CaptureLive(t, f)
      PROVE  TrackInv'
  <2>1. /\ candidate # Tracked!NoCandidate /\ tracking[t] = Tracked!Idle
        /\ UNCHANGED <<candidate, snapshots, cutShort, triggered>>
        /\ \E d, q : Tracked!Snapshot(t, d, q)
    BY <1>5 DEF Tracked!AddSnapshot, Tracked!CaptureLive, Tracked!Begin
  <2> QED BY <1>1, <2>1, BeginMoves
<1>6. ASSUME NEW s \in Tracked!Stages, Tracked!UpdateStage(s)
      PROVE  TrackInv'
  <2>1. candidate # Tracked!NoCandidate /\ candidate' = [candidate EXCEPT !.stage = s] /\ s # "none"
        /\ UNCHANGED <<snapshots, triggered, tracking, cutShort>>
    BY <1>6 DEF Tracked!UpdateStage, Tracked!Stages
  <2>2. Baseline /\ candidate' # Tracked!NoCandidate
    <3>1. IsOn(candidate, {"stage", "price", "benchmark"})
      BY DEF TrackInv
    <3>2. /\ IsOn(candidate', {"stage", "price", "benchmark"}) /\ candidate'.stage = s
          /\ candidate'.price = candidate.price /\ candidate'.benchmark = candidate.benchmark
      BY <2>1, <3>1 DEF IsOn
    <3> QED BY <2>1, <3>2 DEF Baseline, Tracked!NoCandidate
  <2> QED BY <2>1, <2>2, SameMetrics DEF TrackInv, Fires, Baseline
<1>7. ASSUME NEW k \in DOMAIN triggered, Tracked!AcknowledgeEvent(k)
      PROVE  TrackInv'
  <2>1. DOMAIN triggered' = DOMAIN triggered /\ UNCHANGED <<candidate, snapshots, tracking, cutShort>>
    BY <1>7 DEF Tracked!AcknowledgeEvent
  <2> QED BY <2>1 DEF TrackInv, Fires
<1> QED BY <1>3, <1>4, <1>5, <1>6, <1>7 DEF Tracked!TrackingRequests

LEMMA SaveSnapshotMoves ==
  ASSUME TrackInv, NEW t \in Trackers, Tracked!SaveSnapshot(t)
  PROVE  TrackInv'
<1> DEFINE q == tracking[t].quote
           d == tracking[t].date
           holding == {g \in Triggers : Tracked!Holds(g, Tracked!Metrics(candidate, q))}
           j == [pc |-> "events", date |-> d, quote |-> q, todo |-> Tracked!SetToSeq(holding)]
<1>1. /\ tracking[t].pc = "snapshot" /\ snapshots' = [snapshots EXCEPT ![d] = q]
      /\ cutShort' = cutShort \ {d} /\ tracking' = [tracking EXCEPT ![t] = j]
      /\ UNCHANGED <<candidate, triggered>>
  BY DEF Tracked!SaveSnapshot, Tracked!At
<1>2. IsFiniteSet(Triggers)
  <2>1. Tracked!IsFiniteSet(Triggers)
    BY WorkbenchAssumption DEF Tracked!TrackingAssumption
  <2> QED BY <2>1 DEF Tracked!IsFiniteSet, IsFiniteSet
<1>3. IsFiniteSet(holding)
  BY <1>2, FS_Subset
<1> DEFINE s == Tracked!SetToSeq(holding)
<1>4. s \in Seq(holding) /\ \A x \in holding : \E i \in 1..Len(s) : s[i] = x
  BY <1>3, SequenceOfSet
<1>5. s \in Seq(Triggers)
  <2> HIDE DEF s
  <2>1. holding \subseteq Triggers
    OBVIOUS
  <2> QED BY <1>4, <2>1
<1> HIDE DEF s
<1>6. TrackJob(j) /\ j.pc = "events" /\ j.date = d /\ j.todo = s
  BY <1>5 DEF TrackJob, s
<1> HIDE DEF j
<1>7. /\ IsOn(tracking', Trackers) /\ tracking'[t] = j
      /\ \A u \in Trackers \ {t} : tracking'[u] = tracking[u]
  BY <1>1 DEF TrackInv, IsOn
<1>8. IsOn(snapshots', TrackingDates) /\ \A e \in TrackingDates : snapshots'[e] = IF e = d THEN q ELSE snapshots[e]
  BY <1>1 DEF TrackInv, IsOn
<1>9. tracking[t] # Tracked!Idle /\ candidate # Tracked!NoCandidate
  BY <1>1 DEF Tracked!Idle, TrackInv
<1>10. ASSUME NEW e \in TrackingDates, NEW g \in Triggers, snapshots'[e] # Tracked!NoSnapshot,
              Tracked!Holds(g, Tracked!Metrics(candidate, snapshots'[e])), e \notin cutShort'
       PROVE  \/ <<g, e>> \in DOMAIN triggered
              \/ \E u \in Trackers : Due(tracking'[u], e, g)
  <2>1. CASE e = d
    <3>1. g \in holding
      BY <1>8, <1>10, <2>1
    <3>2. Due(tracking'[t], e, g)
      BY <1>4, <1>6, <1>7, <2>1, <3>1 DEF Due
    <3> QED BY <3>2
  <2>2. CASE e # d
    <3>1. \/ <<g, e>> \in DOMAIN triggered
          \/ \E u \in Trackers : Due(tracking[u], e, g)
      BY <1>1, <1>8, <1>10, <2>2 DEF TrackInv, Fires
    <3>2. ~Due(tracking[t], e, g)
      BY <1>1 DEF Due
    <3> QED BY <1>7, <3>1, <3>2
  <2> QED BY <2>1, <2>2
<1>11. Fires'
  BY <1>1, <1>10 DEF Fires
<1> QED BY <1>1, <1>6, <1>7, <1>8, <1>9, <1>11 DEF TrackInv

\* What is due of a sequence is its head or due of the rest.
LEMMA DueLater ==
  ASSUME NEW s, s \in Seq(Triggers), s # <<>>, NEW g, \E i \in 1..Len(s) : s[i] = g
  PROVE  g = Head(s) \/ \E i \in 1..Len(Tail(s)) : Tail(s)[i] = g
<1>1. PICK i \in 1..Len(s) : s[i] = g
  OBVIOUS
<1>2. CASE i = 1
  BY <1>1, <1>2
<1>3. CASE i # 1
  <2>1. i - 1 \in 1..Len(Tail(s)) /\ Tail(s)[i - 1] = g
    BY <1>1, <1>3
  <2> QED BY <2>1
<1> QED BY <1>2, <1>3

LEMMA EventsShape ==
  ASSUME NEW k, TrackJob(k), k.pc = "events"
  PROVE  /\ k = [pc |-> "events", date |-> k.date, quote |-> k.quote, todo |-> k.todo]
         /\ k.todo \in Seq(Triggers)
         /\ \A s : [k EXCEPT !.todo = s]
                     = [pc |-> "events", date |-> k.date, quote |-> k.quote, todo |-> s]
<1>1. k # Tracked!Idle
  BY DEF Tracked!Idle
<1>2. ~ k = [pc |-> "snapshot", date |-> k.date, quote |-> k.quote]
  OBVIOUS
<1>3. /\ k = [pc |-> "events", date |-> k.date, quote |-> k.quote, todo |-> k.todo]
      /\ k.todo \in Seq(Triggers)
  BY <1>1, <1>2 DEF TrackJob
<1> QED BY <1>3

LEMMA SaveEventMoves ==
  ASSUME TrackInv, NEW t \in Trackers, Tracked!SaveEvent(t)
  PROVE  TrackInv'
<1> DEFINE k == tracking[t]
           j == [k EXCEPT !.todo = Tail(k.todo)]
<1>1. /\ k.pc = "events" /\ k.todo # <<>> /\ UNCHANGED <<candidate, snapshots, cutShort>>
      /\ DOMAIN triggered' = DOMAIN triggered \cup {<<Head(k.todo), k.date>>}
      /\ tracking' = [tracking EXCEPT ![t].todo = Tail(k.todo)]
  BY DEF Tracked!SaveEvent, Tracked!At, Tracked!InsertEvent, Tracked!EventKey
<1>2. /\ k = [pc |-> "events", date |-> k.date, quote |-> k.quote, todo |-> k.todo]
      /\ k.todo \in Seq(Triggers)
  BY <1>1, EventsShape DEF TrackInv
<1>3. j = [pc |-> "events", date |-> k.date, quote |-> k.quote, todo |-> Tail(k.todo)]
  BY <1>1, EventsShape DEF TrackInv
<1>4. tracking' = [tracking EXCEPT ![t] = j]
  BY <1>1 DEF TrackInv, IsOn
<1>5. TrackJob(j) /\ j # Tracked!Idle
  BY <1>1, <1>2, <1>3 DEF TrackJob, Tracked!Idle
<1>6. Baseline /\ candidate # Tracked!NoCandidate
  BY <1>1 DEF Baseline, TrackInv, Tracked!Idle
<1>7. ASSUME NEW d \in TrackingDates, NEW g \in Triggers, Due(k, d, g)
      PROVE  <<g, d>> \in DOMAIN triggered' \/ Due(j, d, g)
  <2>1. d = k.date /\ \E i \in 1..Len(k.todo) : k.todo[i] = g
    BY <1>7 DEF Due
  <2>2. g = Head(k.todo) \/ \E i \in 1..Len(Tail(k.todo)) : Tail(k.todo)[i] = g
    <3> DEFINE s == k.todo
    <3>1. s \in Seq(Triggers) /\ s # <<>> /\ \E i \in 1..Len(s) : s[i] = g
      BY <1>1, <1>2, <2>1
    <3> HIDE DEF s
    <3>2. g = Head(s) \/ \E i \in 1..Len(Tail(s)) : Tail(s)[i] = g
      BY <3>1, DueLater
    <3> QED BY <3>2 DEF s
  <2>3. j.pc = "events" /\ j.date = k.date /\ j.todo = Tail(k.todo)
    BY <1>3
  <2> HIDE DEF j
  <2> QED BY <1>1, <2>1, <2>2, <2>3 DEF Due
<1> HIDE DEF j
<1> QED BY <1>1, <1>4, <1>5, <1>6, <1>7, RequestMoves

LEMMA AnswerMoves ==
  ASSUME TrackInv, NEW t \in Trackers, Tracked!Answer(t)
  PROVE  TrackInv'
<1>1. /\ tracking[t].pc = "events" /\ tracking[t].todo = <<>>
      /\ tracking' = [tracking EXCEPT ![t] = Tracked!Idle]
      /\ UNCHANGED <<candidate, snapshots, triggered, cutShort>>
  BY DEF Tracked!Answer, Tracked!At, Tracked!Done
<1>2. \A d, g : ~Due(tracking[t], d, g)
  BY <1>1 DEF Due
<1>3. Baseline
  BY <1>1 DEF Baseline, TrackInv
<1> QED BY <1>1, <1>2, <1>3, NotDue, RequestMoves

LEMMA DieMoves ==
  ASSUME TrackInv, NEW t \in Trackers, Tracked!Die(t)
  PROVE  TrackInv'
<1>1. /\ tracking[t] # Tracked!Idle /\ tracking' = [tracking EXCEPT ![t] = Tracked!Idle]
      /\ UNCHANGED <<candidate, snapshots, triggered>>
      /\ cutShort \subseteq cutShort'
      /\ tracking[t].pc = "events" /\ tracking[t].todo # <<>> => tracking[t].date \in cutShort'
  BY DEF Tracked!Die, Tracked!At, Tracked!Done
<1>2. /\ IsOn(tracking', Trackers) /\ tracking'[t] = Tracked!Idle
      /\ \A u \in Trackers \ {t} : tracking'[u] = tracking[u]
  BY <1>1 DEF TrackInv, IsOn
<1>3. ASSUME NEW d \in TrackingDates, NEW g \in Triggers, snapshots[d] # Tracked!NoSnapshot,
             Tracked!Holds(g, Tracked!Metrics(candidate, snapshots[d])), d \notin cutShort'
      PROVE  \/ <<g, d>> \in DOMAIN triggered
             \/ \E u \in Trackers : Due(tracking'[u], d, g)
  <2>1. \/ <<g, d>> \in DOMAIN triggered
        \/ \E u \in Trackers : Due(tracking[u], d, g)
    BY <1>1, <1>3 DEF TrackInv, Fires
  <2>2. ~Due(tracking[t], d, g)
    BY <1>1, <1>3 DEF Due
  <2> QED BY <1>2, <2>1, <2>2
<1>4. Fires'
  BY <1>1, <1>3 DEF Fires
<1>5. candidate' # Tracked!NoCandidate
  BY <1>1 DEF TrackInv
<1> QED BY <1>1, <1>2, <1>4, <1>5, NotDue DEF TrackInv

LEMMA TrackStep ==
  ASSUME TrackInv, [Tracked!TrackingNext]_Tracked!trackingVars
  PROVE  TrackInv'
<1>1. CASE UNCHANGED Tracked!trackingVars
  BY <1>1 DEF Tracked!trackingVars, TrackInv, Fires
<1> QED BY <1>1, RequestsMove, SaveSnapshotMoves, SaveEventMoves, AnswerMoves, DieMoves
        DEF Tracked!TrackingNext

LEMMA TrackAtWork ==
  ASSUME [Next]_rows
  PROVE  [Tracked!TrackingNext]_Tracked!trackingVars
<1>1. CASE Only("tracking") /\ Tracked!TrackingNext
  BY <1>1
<1>2. CASE UNCHANGED trackingRows
  BY <1>2 DEF trackingRows, Tracked!trackingVars
<1> QED BY <1>1, <1>2 DEF Next, Only, rows

LEMMA TrackStart ==
  ASSUME Init
  PROVE  TrackInv
BY NotDue DEF Init, Tracked!TrackingInit, TrackInv, Fires, IsOn, Tracked!NoCandidate

\* A trigger that holds of the stored snapshot of a date has its event,
\* unless the request that stored it is still at it or died, whatever other
\* requests did for the same date (tracking/service.py, add_snapshot).
THEOREM TriggersFired == Spec => []TriggersFire
<1>1. Init => TrackInv
  BY TrackStart
<1>2. TrackInv /\ [Next]_rows => TrackInv'
  BY TrackAtWork, TrackStep
<1>3. TrackInv => TriggersFire
  <2> SUFFICES ASSUME TrackInv PROVE Tracked!TriggersFire
    BY DEF TriggersFire
  <2>1. \A d, g : Tracked!EventKey(g, d) = <<g, d>>
    BY DEF Tracked!EventKey
  <2>2. \A t \in Trackers : \A d, g : Due(tracking[t], d, g) =>
          /\ Tracked!At(t, "events") /\ tracking[t].date = d
          /\ Tracked!Contains(tracking[t].todo, g)
    BY DEF Due, Tracked!At, Tracked!Contains
  <2>3. ASSUME NEW d \in TrackingDates, NEW g \in Triggers, snapshots[d] # Tracked!NoSnapshot,
               Tracked!Holds(g, Tracked!Metrics(candidate, snapshots[d])), d \notin cutShort
        PROVE  \/ Tracked!EventKey(g, d) \in DOMAIN triggered
               \/ \E t \in Trackers : /\ Tracked!At(t, "events") /\ tracking[t].date = d
                                      /\ Tracked!Contains(tracking[t].todo, g)
    <3>1. <<g, d>> \in DOMAIN triggered \/ \E t \in Trackers : Due(tracking[t], d, g)
      BY <2>3 DEF TrackInv, Fires
    <3> QED BY <2>1, <2>2, <3>1
  <2> QED BY <2>3 DEF Tracked!TriggersFire
<1> QED BY <1>1, <1>2, <1>3, PTL DEF Spec

-----------------------------------------------------------------------------
LEMMA Least ==
  ASSUME NEW S, S \subseteq Nat, S # {}
  PROVE  \E m \in S : \A n \in S : m <= n
<1> DEFINE R == OpToRel(<, Nat)
<1>1. \A x, y \in Nat : <<x, y>> \in R <=> x < y
  BY DEF OpToRel
<1>2. IsWellFoundedOn(R, Nat)
  BY NatLessThanWellFounded
<1> HIDE DEF R
<1>3. PICK m \in S : \A n \in S : ~ (<<n, m>> \in R)
  BY <1>2, WFMin
<1>4. ASSUME NEW n \in S
      PROVE  m <= n
  <2>1. m \in Nat /\ n \in Nat
    OBVIOUS
  <2>2. ~(n < m)
    BY <1>1, <1>3, <2>1
  <2> QED BY <2>1, <2>2
<1> QED BY <1>4
-----------------------------------------------------------------------------
(* MarketData: what is returned as sound was checked as it was returned,   *)
(* and two bars on different sides of a large split have neighbours        *)
(* between them that are.                                                  *)

\* Of the pairs of such bars, one nearest to each other has nothing between.
LEMMA Neighbours ==
  ASSUME NEW s, DOMAIN s \subseteq Nat, ~Market!Broken(s),
         NEW d \in DOMAIN s, NEW e \in DOMAIN s
  PROVE  Market!OneBasis(s[d], s[e])
<1> DEFINE Apart == {n \in Nat : \E a \in DOMAIN s : /\ n > 0 /\ a + n \in DOMAIN s
                                                     /\ ~Market!OneBasis(s[a], s[a + n])}
<1>1. Apart = {}
  <2> SUFFICES ASSUME Apart # {} PROVE FALSE
    OBVIOUS
  <2>1. PICK n \in Apart : \A m \in Apart : n <= m
    <3>1. Apart \subseteq Nat
      OBVIOUS
    <3> HIDE DEF Apart
    <3> QED BY <3>1, Least
  <2>2. PICK a \in DOMAIN s : n > 0 /\ a + n \in DOMAIN s /\ ~Market!OneBasis(s[a], s[a + n])
    BY <2>1
  <2>3. n \in Nat /\ a \in Nat
    BY <2>1
  <2>4. PICK f \in DOMAIN s : a < f /\ f < a + n
    BY <2>2, <2>3 DEF Market!Broken
  <2>5. f \in Nat
    BY <2>4
  <2>6. CASE ~Market!OneBasis(s[a], s[f])
    <3>1. f - a \in Nat /\ f - a > 0 /\ a + (f - a) = f /\ f - a < n
      BY <2>3, <2>4, <2>5
    <3>2. f - a \in Apart
      BY <2>6, <3>1
    <3> QED BY <2>1, <2>3, <3>1, <3>2
  <2>7. CASE Market!OneBasis(s[a], s[f])
    <3>1. a + n - f \in Nat /\ a + n - f > 0 /\ f + (a + n - f) = a + n /\ a + n - f < n
      BY <2>3, <2>4, <2>5
    <3>2. ~Market!OneBasis(s[f], s[a + n])
      BY <2>2, <2>7 DEF Market!OneBasis
    <3>3. a + n - f \in Apart
      BY <2>2, <3>1, <3>2
    <3> QED BY <2>1, <2>3, <3>1, <3>3
  <2> QED BY <2>6, <2>7
<1>2. \A a, b \in DOMAIN s : a < b => Market!OneBasis(s[a], s[b])
  <2> SUFFICES ASSUME NEW a \in DOMAIN s, NEW b \in DOMAIN s, a < b,
                      ~Market!OneBasis(s[a], s[b])
               PROVE  FALSE
    OBVIOUS
  <2>1. a \in Nat /\ b \in Nat
    OBVIOUS
  <2>2. b - a \in Nat /\ b - a > 0 /\ a + (b - a) = b
    BY <2>1
  <2>3. b - a \in Apart
    BY <2>2
  <2> QED BY <1>1, <2>3
<1>3. d \in Nat /\ e \in Nat
  OBVIOUS
<1>4. d < e \/ e < d \/ d = e
  BY <1>3
<1> QED BY <1>2, <1>4 DEF Market!OneBasis

SaveShape(j) == IsOn(j, {"pc", "end", "target", "batch"}) /\ DOMAIN j.batch \subseteq Market!Dates

\* A save that is over is at another label.
LEMMA Saved ==
  ASSUME NEW j, SaveShape(j)
  PROVE  [j EXCEPT !.pc = "check"].pc = "check"
BY DEF SaveShape, IsOn

MarketInv ==
  /\ IsOn(sync, Syncers)
  /\ DOMAIN bars \subseteq Market!Dates
  /\ \A t \in Syncers : sync[t].pc = "save" => SaveShape(sync[t])
  /\ \A r \in returned :
       DOMAIN r.bars \subseteq Market!Dates /\ (r.quality = "pass" => ~Market!Broken(r.bars))

\* A sync moves and nothing is stored or returned.
LEMMA SyncMoves ==
  ASSUME MarketInv, NEW t \in Syncers, NEW j, sync' = [sync EXCEPT ![t] = j],
         j.pc = "save" => SaveShape(j),
         UNCHANGED <<bars, returned>>
  PROVE  MarketInv'
BY DEF MarketInv, IsOn

LEMMA FetchMoves ==
  ASSUME MarketInv, NEW t \in Syncers, NEW last, NEW warns, Market!Fetch(t, last, warns)
  PROVE  MarketInv'
<1> DEFINE s == sync[t]
           batch == Market!Fetched(s.start, last)
           j == IF Market!Quality(batch, s.end, warns) = "fail" THEN Market!Idle
                ELSE [pc |-> "save", end |-> s.end, target |-> s.target, batch |-> batch]
<1>1. sync' = [sync EXCEPT ![t] = j] /\ UNCHANGED <<bars, returned>>
  BY DEF Market!Fetch
<1>2. DOMAIN batch \subseteq Market!Dates
  BY DEF Market!Fetched
<1> HIDE DEF batch
<1>3. j.pc = "save" => SaveShape(j)
  BY <1>2 DEF Market!Idle, SaveShape, IsOn
<1> HIDE DEF j
<1> QED BY <1>1, <1>3, SyncMoves

LEMMA SaveBarsMoves ==
  ASSUME MarketInv, NEW t \in Syncers, Market!SaveBars(t)
  PROVE  MarketInv'
<1>1. /\ sync[t].pc = "save" /\ DOMAIN bars' = DOMAIN bars \cup DOMAIN sync[t].batch
      /\ sync' = [sync EXCEPT ![t].pc = "check"] /\ returned' = returned
  BY DEF Market!SaveBars, Market!Upserted, Market!At
<1>2. /\ IsOn(sync', Syncers)
      /\ \A u \in Syncers : sync'[u].pc = "save" => sync'[u] = sync[u]
  <2>1. IsOn(sync', Syncers) /\ sync'[t] = [sync[t] EXCEPT !.pc = "check"]
        /\ \A u \in Syncers \ {t} : sync'[u] = sync[u]
    BY <1>1 DEF MarketInv, IsOn
  <2>2. sync'[t].pc # "save"
    BY <1>1, <2>1, Saved DEF MarketInv
  <2> QED BY <2>1, <2>2
<1>3. DOMAIN bars' \subseteq Market!Dates
  BY <1>1 DEF MarketInv, SaveShape
<1> QED BY <1>1, <1>2, <1>3 DEF MarketInv

LEMMA ReturnMergedMoves ==
  ASSUME MarketInv, NEW t \in Syncers, NEW warns, Market!ReturnMerged(t, warns)
  PROVE  MarketInv'
<1> DEFINE s == sync[t]
           series == Market!Listed(bars, s.target, s.end)
<1>1. /\ sync' = [sync EXCEPT ![t] = Market!Idle] /\ bars' = bars
      /\ returned' = {[bars |-> series, quality |-> Market!Quality(series, s.end, warns),
                       target |-> s.target, end |-> s.end]}
  BY DEF Market!ReturnMerged, Market!Checked, Market!Ends
<1>2. DOMAIN series \subseteq Market!Dates
  BY DEF Market!Listed, MarketInv
<1> HIDE DEF series
<1>3. Market!Quality(series, s.end, warns) = "pass" => ~Market!Broken(series)
  BY DEF Market!Quality
<1>4. \A r \in returned' :
        DOMAIN r.bars \subseteq Market!Dates /\ (r.quality = "pass" => ~Market!Broken(r.bars))
  BY <1>1, <1>2, <1>3
<1>5. /\ IsOn(sync', Syncers)
      /\ \A u \in Syncers : sync'[u].pc = "save" => sync'[u] = sync[u]
  BY <1>1 DEF MarketInv, IsOn, Market!Idle
<1> QED BY <1>1, <1>4, <1>5 DEF MarketInv

LEMMA MarketStep ==
  ASSUME MarketInv, [Market!MarketNext]_Market!marketVars
  PROVE  MarketInv'
<1>1. ASSUME UNCHANGED <<bars, sync, returned>>
      PROVE  MarketInv'
  BY <1>1 DEF MarketInv
<1>2. CASE UNCHANGED Market!marketVars \/ Market!NextDay \/ Market!Adjust
  BY <1>1, <1>2 DEF Market!marketVars, Market!NextDay, Market!Adjust
<1>3. ASSUME NEW t \in Syncers, NEW w \in Windows, Market!BeginSync(t, w)
      PROVE  MarketInv'
  <2>1. PICK j : sync' = [sync EXCEPT ![t] = j] /\ j.pc = "fetch" /\ UNCHANGED <<bars, returned>>
    BY <1>3 DEF Market!BeginSync
  <2> QED BY <2>1, SyncMoves
<1>4. ASSUME NEW t \in Syncers, Market!FetchRefused(t) \/ Market!Die(t)
      PROVE  MarketInv'
  BY <1>4, SyncMoves DEF Market!FetchRefused, Market!Die, Market!Ends, Market!Idle
<1> QED BY <1>2, <1>3, <1>4, FetchMoves, SaveBarsMoves, ReturnMergedMoves
        DEF Market!MarketNext, Market!MarketRequests, Market!SyncSteps

LEMMA MarketAtWork ==
  ASSUME [Next]_rows
  PROVE  [Market!MarketNext]_Market!marketVars
<1>1. CASE Only("market") /\ Market!MarketNext
  BY <1>1
<1>2. CASE UNCHANGED marketRows
  BY <1>2 DEF marketRows, Market!marketVars
<1> QED BY <1>1, <1>2 DEF Next, Only, rows

\* No large split lies between any two bars of a series returned as sound,
\* however far apart, however syncs overlap and whatever an incremental sync
\* leaves as it was (market/service.py, sync; market/quality.py,
\* extreme_adjusted_return).
THEOREM SoundSeriesSeesSplits == Spec => []SoundSeesLargeSplits
<1>1. Init => MarketInv
  BY DEF Init, Market!MarketInit, MarketInv, IsOn, Market!Idle
<1>2. MarketInv /\ [Next]_rows => MarketInv'
  BY MarketAtWork, MarketStep
<1>3. MarketInv => SoundSeesLargeSplits
  <2>1. Market!Dates \subseteq Nat
    BY WorkbenchAssumption DEF Market!MarketAssumption, Market!Dates
  <2>2. ASSUME MarketInv, NEW r \in returned, r.quality = "pass",
               NEW d \in DOMAIN r.bars, NEW e \in DOMAIN r.bars
        PROVE  Market!OneBasis(r.bars[d], r.bars[e])
    <3>1. DOMAIN r.bars \subseteq Nat /\ ~Market!Broken(r.bars)
      BY <2>1, <2>2 DEF MarketInv
    <3> QED BY <3>1, Neighbours
  <2> QED BY <2>2 DEF SoundSeesLargeSplits, Market!SoundSeesLargeSplits
<1> QED BY <1>1, <1>2, <1>3, PTL DEF Spec

-----------------------------------------------------------------------------
(* EventCalendar: the numbers of an event's versions are 1 up to some n,   *)
(* and a version about to be saved has all lower numbers before it.        *)

FilingRows == [evidence : EventFilings \cup {"none"}, content : Downloads \cup {"none"},
               captured : 0..LastEventDay, updated : 0..LastEventDay]
Ingested == [of : EventFilings, row : FilingRows]

Numbers(k) == {v.version : v \in Calendar!OfKey(k)}
Dated(v) == v.known \in Nat /\ v.observed \in Nat /\ v.known <= v.observed

\* What a request at work holds.
Reads(j) ==
  \/ j \in {Calendar!Away, [pc |-> "propose"], [pc |-> "artifact"]}
  \/ j = [pc |-> "write", versions |-> j.versions] /\ j.versions \subseteq versions
  \/ /\ j = [pc |-> "find", todo |-> j.todo, events |-> j.events, refresh |-> j.refresh]
     /\ j.todo \in Seq(Ingested) /\ j.todo # <<>>
  \/ /\ j = [pc |-> "save", todo |-> j.todo, events |-> j.events, refresh |-> j.refresh,
             draft |-> j.draft]
     /\ j.todo \in Seq(Ingested) /\ j.todo # <<>>
     /\ Dated(j.draft) /\ j.draft.version \in Nat \ {0}
     /\ 1..(j.draft.version - 1) \subseteq Numbers(j.draft.key)

Ordered ==
  /\ \A v \in versions : v.version \in Nat /\ Dated(v)
  /\ \A k : \E n \in Nat : Numbers(k) = 1..n
  /\ \A v, w \in versions :
       v.key = w.key /\ (v.version = w.version \/ v.hash = w.hash) => v = w

CalendarInv ==
  /\ today \in 1..LastEventDay /\ filings \in [EventFilings -> FilingRows]
  /\ portable \subseteq versions /\ ingests \in 0..MaxIngests
  /\ IsOn(reader, Readers) /\ \A t \in Readers : Reads(reader[t])
  /\ Ordered

\* Versions are never removed: what a request knows of them stays true.
LEMMA ReadsStill ==
  ASSUME NEW j, Reads(j), versions \subseteq versions'
  PROVE  Reads(j)'
<1>1. \A k : Numbers(k) \subseteq Numbers(k)'
  BY DEF Numbers, Calendar!OfKey
<1> QED BY <1>1 DEF Reads

\* ... by its place in the code.
LEMMA ReadsAt ==
  ASSUME NEW j, Reads(j)
  PROVE  /\ j.pc \in {"find", "save"} => j.todo \in Seq(Ingested) /\ j.todo # <<>>
         /\ j.pc = "save" => /\ Dated(j.draft) /\ j.draft.version \in Nat \ {0}
                             /\ 1..(j.draft.version - 1) \subseteq Numbers(j.draft.key)
         /\ j.pc = "write" => j.versions \subseteq versions
<1>1. \/ j.pc \in {"away", "propose", "artifact"}
      \/ j.pc = "write" /\ j.versions \subseteq versions
      \/ j.pc = "find" /\ j.todo \in Seq(Ingested) /\ j.todo # <<>>
      \/ /\ j.pc = "save" /\ j.todo \in Seq(Ingested) /\ j.todo # <<>>
         /\ Dated(j.draft) /\ j.draft.version \in Nat \ {0}
         /\ 1..(j.draft.version - 1) \subseteq Numbers(j.draft.key)
  <2>1. CASE j \in {Calendar!Away, [pc |-> "propose"], [pc |-> "artifact"]}
    BY <2>1 DEF Calendar!Away
  <2>2. CASE j = [pc |-> "write", versions |-> j.versions] /\ j.versions \subseteq versions
    <3>1. PICK x : x = j.versions
      OBVIOUS
    <3>2. j = [pc |-> "write", versions |-> x]
      BY <2>2, <3>1
    <3> QED BY <2>2, <3>2
  <2>3. CASE j = [pc |-> "find", todo |-> j.todo, events |-> j.events, refresh |-> j.refresh]
             /\ j.todo \in Seq(Ingested) /\ j.todo # <<>>
    <3>1. PICK x, y, z : x = j.todo /\ y = j.events /\ z = j.refresh
      OBVIOUS
    <3>2. j = [pc |-> "find", todo |-> x, events |-> y, refresh |-> z]
      BY <2>3, <3>1
    <3> QED BY <2>3, <3>2
  <2>4. CASE /\ j = [pc |-> "save", todo |-> j.todo, events |-> j.events,
                     refresh |-> j.refresh, draft |-> j.draft]
             /\ j.todo \in Seq(Ingested) /\ j.todo # <<>>
             /\ Dated(j.draft) /\ j.draft.version \in Nat \ {0}
             /\ 1..(j.draft.version - 1) \subseteq Numbers(j.draft.key)
    <3>1. PICK x, y, z, d : x = j.todo /\ y = j.events /\ z = j.refresh /\ d = j.draft
      OBVIOUS
    <3>2. j = [pc |-> "save", todo |-> x, events |-> y, refresh |-> z, draft |-> d]
      BY <2>4, <3>1
    <3>3. j.pc = "save"
      BY <3>2
    <3> QED BY <2>4, <3>3
  <2> QED BY <2>1, <2>2, <2>3, <2>4 DEF Reads
<1> QED BY <1>1

LEMMA ReaderMoves ==
  ASSUME CalendarInv, NEW t \in Readers, NEW j, Calendar!Step(t, j), Reads(j),
         filings' \in [EventFilings -> FilingRows], portable' \subseteq versions,
         ingests' \in 0..MaxIngests, UNCHANGED <<today, versions>>
  PROVE  CalendarInv'
<1>1. IsOn(reader', Readers) /\ reader'[t] = j /\ \A u \in Readers \ {t} : reader'[u] = reader[u]
  BY Update DEF CalendarInv, Calendar!Step, IsOn
<1>2. \A u \in Readers : Reads(reader'[u])
  BY <1>1 DEF CalendarInv
<1>3. Ordered'
  BY DEF CalendarInv, Ordered, Numbers, Calendar!OfKey, Dated
<1>4. \A u \in Readers : Reads(reader[u])'
  BY <1>2 DEF Reads, Numbers, Calendar!OfKey, Dated, Calendar!Away
<1> QED BY <1>1, <1>3, <1>4 DEF CalendarInv

LEMMA TheLatest ==
  ASSUME Ordered, NEW k, NEW vs, vs \subseteq Calendar!OfKey(k), vs # {}
  PROVE  /\ Calendar!LatestOf(vs) \in vs
         /\ \A w \in vs : w.version <= Calendar!LatestOf(vs).version
<1>1. PICK n \in Nat : Numbers(k) = 1..n
  BY DEF Ordered
<1>2. \A v \in vs : v.version \in 1..n
  BY <1>1 DEF Numbers
<1> DEFINE below == {n - v.version : v \in vs}
<1>3. below \subseteq Nat /\ below # {}
  BY <1>2
<1>4. PICK m \in below : \A i \in below : m <= i
  <2> HIDE DEF below
  <2> QED BY <1>3, Least
<1>5. PICK v \in vs : m = n - v.version
  BY <1>4
<1>6. \A w \in vs : w.version <= v.version
  <2> SUFFICES ASSUME NEW w \in vs PROVE w.version <= v.version
    OBVIOUS
  <2>1. n - v.version <= n - w.version
    BY <1>4, <1>5
  <2> QED BY <1>2, <2>1
<1>7. \E x \in vs : \A w \in vs : w.version <= x.version
  BY <1>6
<1> QED BY <1>7 DEF Calendar!LatestOf

LEMMA LastNumber ==
  ASSUME Ordered, NEW k,
         NEW last, last = IF Calendar!OfKey(k) = {} THEN 0
                          ELSE Calendar!LatestOf(Calendar!OfKey(k)).version
  PROVE  last \in Nat /\ Numbers(k) = 1..last
<1>1. PICK n \in Nat : Numbers(k) = 1..n
  BY DEF Ordered
<1>2. CASE Calendar!OfKey(k) = {}
  BY <1>1, <1>2 DEF Numbers
<1>3. CASE Calendar!OfKey(k) # {}
  <2> DEFINE v == Calendar!LatestOf(Calendar!OfKey(k))
  <2>1. v \in Calendar!OfKey(k) /\ \A w \in Calendar!OfKey(k) : w.version <= v.version
    BY <1>3, TheLatest
  <2>2. v.version \in 1..n /\ \A i \in 1..n : i <= v.version
    <3> HIDE DEF v
    <3> QED BY <1>1, <2>1 DEF Numbers
  <2>3. n \in 1..n
    BY <2>2, <1>1
  <2>4. v.version = n
    BY <2>2, <2>3
  <2> QED BY <1>1, <1>3, <2>4
<1> QED BY <1>2, <1>3

LEMMA OnwardReads ==
  ASSUME NEW j, j.todo \in Seq(Ingested), j.todo # <<>>, NEW event
  PROVE  Reads(Calendar!Onward(j, event))
<1>1. Tail(j.todo) \in Seq(Ingested)
  OBVIOUS
<1> QED BY <1>1 DEF Calendar!Onward, Reads, Calendar!Away

LEMMA DraftDated ==
  ASSUME NEW s \in EventFilings, NEW r \in FilingRows, Calendar!Valid(Calendar!Draft(s, r))
  PROVE  Dated(Calendar!Draft(s, r))
<1> DEFINE seen == Calendar!ObservedAt(r)
<1>1. seen \in Nat /\ Published[s] \in Nat
  BY WorkbenchAssumption DEF Calendar!CalendarAssumption, FilingRows, Calendar!ObservedAt
<1> HIDE DEF seen
<1>2. Calendar!Max({seen, Published[s]}) \in Nat
  <2>1. \E x \in {seen, Published[s]} : \A y \in {seen, Published[s]} : x >= y
    BY <1>1
  <2> QED BY <1>1, <2>1 DEF Calendar!Max
<1>3. Calendar!Draft(s, r).known \in Nat /\ Calendar!Draft(s, r).observed \in Nat
  BY <1>1, <1>2 DEF Calendar!Draft, Calendar!SecDraft, Calendar!DisclosureDraft, seen
<1> QED BY <1>3 DEF Calendar!Valid, Dated

LEMMA FindVersionMoves ==
  ASSUME CalendarInv, NEW t \in Readers, Calendar!FindVersion(t)
  PROVE  CalendarInv'
<1> DEFINE todo == reader[t].todo
           s == Head(todo).of
           draft == Calendar!Draft(s, Head(todo).row)
           last == IF Calendar!OfKey(draft.key) = {} THEN 0
                   ELSE Calendar!LatestOf(Calendar!OfKey(draft.key)).version
           new == [pc |-> "save", todo |-> todo, events |-> reader[t].events,
                   refresh |-> reader[t].refresh, draft |-> Calendar!Numbered(last + 1, draft)]
<1>1. todo \in Seq(Ingested) /\ todo # <<>>
  BY ReadsAt DEF CalendarInv, Calendar!FindVersion
<1>2. s \in EventFilings /\ Head(todo).row \in FilingRows
  <2>1. Head(todo) \in Ingested
    BY <1>1
  <2> QED BY <2>1 DEF Ingested
<1>3. \/ \E event : Calendar!Step(t, Calendar!Onward(reader[t], event))
      \/ Calendar!Step(t, Calendar!Away)
      \/ Calendar!Valid(draft) /\ Calendar!Step(t, new)
  BY DEF Calendar!FindVersion
<1>4. /\ filings' \in [EventFilings -> FilingRows] /\ portable' \subseteq versions
      /\ ingests' \in 0..MaxIngests /\ UNCHANGED <<today, versions>>
  BY DEF Calendar!FindVersion, CalendarInv
<1>5. CASE \E event : Calendar!Step(t, Calendar!Onward(reader[t], event))
  <2> PICK event : Calendar!Step(t, Calendar!Onward(reader[t], event))
    BY <1>5
  <2>1. Reads(Calendar!Onward(reader[t], event))
    BY <1>1, OnwardReads
  <2> QED BY <1>4, <2>1, ReaderMoves
<1>6. CASE Calendar!Step(t, Calendar!Away)
  BY <1>4, <1>6, ReaderMoves DEF Reads
<1>7. CASE Calendar!Valid(draft) /\ Calendar!Step(t, new)
  <2>1. last \in Nat /\ Numbers(draft.key) = 1..last
    BY LastNumber DEF CalendarInv
  <2>2. Dated(draft)
    BY <1>2, <1>7, DraftDated
  <2> HIDE DEF last, draft, todo
  <2>3. Reads(new)
    BY <1>1, <2>1, <2>2 DEF Reads, Calendar!Numbered, Dated
  <2> HIDE DEF new
  <2> QED BY <1>4, <1>7, <2>3, ReaderMoves
<1> QED BY <1>3, <1>5, <1>6, <1>7

\* A version without a clash takes the next number of its event.
LEMMA SaveVersionMoves ==
  ASSUME CalendarInv, NEW t \in Readers, Calendar!SaveVersion(t)
  PROVE  CalendarInv'
<1>1. PICK d : d = reader[t].draft
  OBVIOUS
<1>2. /\ reader[t].todo \in Seq(Ingested) /\ reader[t].todo # <<>>
      /\ Dated(d) /\ d.version \in Nat \ {0} /\ 1..(d.version - 1) \subseteq Numbers(d.key)
  BY <1>1, ReadsAt DEF CalendarInv, Calendar!SaveVersion
<1>3. /\ UNCHANGED <<filings, portable, today, ingests>>
      /\ filings' \in [EventFilings -> FilingRows] /\ portable' \subseteq versions
      /\ ingests' \in 0..MaxIngests
  BY DEF Calendar!SaveVersion, CalendarInv
<1>4. CASE Calendar!Clashes(d)
  BY <1>1, <1>3, <1>4, ReaderMoves DEF Calendar!SaveVersion, Reads
<1>5. CASE ~Calendar!Clashes(d)
  <2>1. versions' = versions \cup {d} /\ Calendar!Step(t, Calendar!Onward(reader[t], {d}))
    BY <1>1, <1>5 DEF Calendar!SaveVersion
  <2>2. \A v \in versions : v.key = d.key => v.version # d.version /\ v.hash # d.hash
    BY <1>5 DEF Calendar!Clashes, Calendar!OfKey
  <2>3. \A k : Numbers(k)' = Numbers(k) \cup (IF k = d.key THEN {d.version} ELSE {})
    BY <2>1 DEF Numbers, Calendar!OfKey
  <2>4. \A k : \E n \in Nat : Numbers(k)' = 1..n
    <3> SUFFICES ASSUME NEW k PROVE \E n \in Nat : Numbers(k)' = 1..n
      OBVIOUS
    <3>1. PICK n \in Nat : Numbers(k) = 1..n
      BY DEF CalendarInv, Ordered
    <3>2. CASE k # d.key
      BY <2>3, <3>1, <3>2
    <3>3. CASE k = d.key
      <4>1. d.version \notin 1..n
        BY <2>2, <3>1, <3>3 DEF Numbers, Calendar!OfKey
      <4>2. 1..(d.version - 1) \subseteq 1..n
        BY <1>2, <3>1, <3>3
      <4>3. d.version = n + 1
        <5>1. d.version > n
          BY <1>2, <4>1
        <5>2. CASE d.version - 1 \in 1..(d.version - 1)
          <6>1. d.version - 1 \in 1..n
            BY <4>2, <5>2
          <6> QED BY <1>2, <5>1, <6>1
        <5>3. CASE d.version - 1 \notin 1..(d.version - 1)
          BY <1>2, <5>1, <5>3
        <5> QED BY <5>2, <5>3
      <4>4. Numbers(k)' = 1..(n + 1)
        <5>1. Numbers(k)' = (1..n) \cup {n + 1}
          BY <2>3, <3>1, <3>3, <4>3
        <5>2. (1..n) \cup {n + 1} = 1..(n + 1)
          OBVIOUS
        <5> QED BY <5>1, <5>2
      <4> QED BY <4>4
    <3> QED BY <3>2, <3>3
  <2>5. Ordered'
    <3>1. \A v \in versions' : v.version \in Nat /\ Dated(v)
      BY <1>2, <2>1 DEF CalendarInv, Ordered
    <3>2. \A v, w \in versions' :
            v.key = w.key /\ (v.version = w.version \/ v.hash = w.hash) => v = w
      BY <2>1, <2>2 DEF CalendarInv, Ordered
    <3> QED BY <2>4, <3>1, <3>2 DEF Ordered, Dated
  <2>6. Reads(Calendar!Onward(reader[t], {d}))
    BY <1>2, OnwardReads
  <2>7. /\ IsOn(reader', Readers) /\ reader'[t] = Calendar!Onward(reader[t], {d})
        /\ \A u \in Readers \ {t} : reader'[u] = reader[u]
    BY <2>1, Update DEF CalendarInv, Calendar!Step, IsOn
  <2>8. ASSUME NEW u \in Readers
        PROVE  Reads(reader[u])'
    <3> PICK j : j = reader'[u]
      OBVIOUS
    <3>1. Reads(j)
      BY <2>6, <2>7 DEF CalendarInv
    <3>2. Reads(j)'
      BY <2>1, <3>1, ReadsStill
    <3> QED BY <3>2
  <2> QED BY <1>3, <2>1, <2>5, <2>7, <2>8 DEF CalendarInv
<1> QED BY <1>4, <1>5

LEMMA IngestMoves ==
  ASSUME CalendarInv, NEW t \in Readers, NEW todo \in Seq(Ingested), NEW refresh,
         Calendar!Ingest(t, todo, refresh),
         filings' \in [EventFilings -> FilingRows], ingests' \in 0..MaxIngests,
         UNCHANGED <<today, versions, portable>>
  PROVE  CalendarInv'
<1> DEFINE j == IF todo # <<>>
                THEN [pc |-> "find", todo |-> todo, events |-> {}, refresh |-> refresh]
                ELSE IF refresh THEN [pc |-> "artifact"] ELSE Calendar!Away
<1>1. Reads(j)
  BY DEF Reads
<1>2. Calendar!Step(t, j)
  BY DEF Calendar!Ingest
<1> HIDE DEF j
<1>3. portable' \subseteq versions
  BY DEF CalendarInv
<1> QED BY <1>1, <1>2, <1>3, ReaderMoves

\* The suggestions of a list, each with its row.
LEMMA ListIngested ==
  ASSUME NEW S, S \subseteq EventFilings, NEW f \in Calendar!SetToSeqs(S),
         NEW g \in [EventFilings -> FilingRows]
  PROVE  [i \in DOMAIN f |-> [of |-> f[i], row |-> g[f[i]]]] \in Seq(Ingested)
<1>1. Calendar!IsFiniteSet(EventFilings)
  BY WorkbenchAssumption DEF Calendar!CalendarAssumption
<1>2. IsFiniteSet(EventFilings)
  BY <1>1 DEF Calendar!IsFiniteSet, IsFiniteSet
<1>3. Cardinality(S) \in Nat
  BY <1>2, FS_Subset, FS_CardinalityType
<1>4. Calendar!Cardinality(S) = Cardinality(S)
  BY DEF Calendar!Cardinality, Cardinality, Calendar!IsFiniteSet, IsFiniteSet
<1>5. PICK n \in Nat : f \in [1..n -> S]
  BY <1>3, <1>4 DEF Calendar!SetToSeqs
<1>6. \A i \in 1..n : [of |-> f[i], row |-> g[f[i]]] \in Ingested
  BY <1>5 DEF Ingested
<1>7. [i \in 1..n |-> [of |-> f[i], row |-> g[f[i]]]] \in [1..n -> Ingested]
  BY <1>6
<1>8. DOMAIN f = 1..n
  BY <1>5
<1> QED BY <1>7, <1>8

LEMMA FreeReader ==
  ASSUME CalendarInv, NEW t, Calendar!Free(t)
  PROVE  ingests' \in 0..MaxIngests
BY WorkbenchAssumption DEF CalendarInv, Calendar!Free, Calendar!CalendarAssumption

LEMMA DiscoverMoves ==
  ASSUME CalendarInv, NEW t \in Readers, NEW S, S \subseteq EventFilings,
         NEW f \in Calendar!SetToSeqs(S), NEW ingest \in BOOLEAN, Calendar!Discover(t, f, ingest)
  PROVE  CalendarInv'
<1> PICK g : g = [s \in EventFilings |-> [filings[s] EXCEPT !.updated = today]]
  OBVIOUS
<1>1. g \in [EventFilings -> FilingRows]
  <2>1. \A r \in FilingRows, d \in 0..LastEventDay : [r EXCEPT !.updated = d] \in FilingRows
    BY DEF FilingRows
  <2>2. today \in 0..LastEventDay
    BY WorkbenchAssumption DEF CalendarInv, Calendar!CalendarAssumption
  <2> QED BY <2>1, <2>2 DEF CalendarInv
<1>2. \A i \in DOMAIN f : f[i] \in EventFilings
  BY DEF Calendar!SetToSeqs
<1>3. filings' \in [EventFilings -> FilingRows]
  <2>1. filings' = [s \in EventFilings |-> IF s \in Calendar!Range(f) THEN g[s] ELSE filings[s]]
    BY DEF Calendar!Discover
  <2> QED BY <1>1, <2>1 DEF CalendarInv
<1>4. ingests' \in 0..MaxIngests /\ UNCHANGED <<today, versions, portable>>
  BY FreeReader DEF Calendar!Discover
<1> DEFINE list == [i \in DOMAIN f |-> [of |-> f[i], row |-> g[f[i]]]]
<1>5. list \in Seq(Ingested)
  BY <1>1, ListIngested
<1>6. [i \in DOMAIN f |-> [of |-> f[i], row |-> [filings[f[i]] EXCEPT !.updated = today]]] = list
  BY <1>2
<1>7. Calendar!Ingest(t, IF ingest THEN list ELSE <<>>, FALSE)
  BY <1>6 DEF Calendar!Discover
<1>8. (IF ingest THEN list ELSE <<>>) \in Seq(Ingested)
  BY <1>5
<1> HIDE DEF list
<1> QED BY <1>3, <1>4, <1>7, <1>8, IngestMoves

LEMMA CaptureMoves ==
  ASSUME CalendarInv, NEW t \in Readers, NEW s \in EventFilings, NEW e \in EventFilings,
         NEW c \in Downloads, Calendar!Capture(t, s, c, e)
  PROVE  CalendarInv'
<1> PICK r : r = [evidence |-> e, content |-> c, updated |-> today,
                  captured |-> IF e = s THEN today ELSE filings[s].captured]
  OBVIOUS
<1>1. today \in 0..LastEventDay
  BY WorkbenchAssumption DEF CalendarInv, Calendar!CalendarAssumption
<1>2. r \in FilingRows
  BY <1>1 DEF CalendarInv, FilingRows
<1>3. filings' = [filings EXCEPT ![s] = r] /\ Calendar!Ingest(t, <<[of |-> s, row |-> r]>>, FALSE)
  BY DEF Calendar!Capture
<1>4. filings' \in [EventFilings -> FilingRows]
  BY <1>2, <1>3 DEF CalendarInv
<1>5. ingests' \in 0..MaxIngests /\ UNCHANGED <<today, versions, portable>>
  BY FreeReader DEF Calendar!Capture
<1>6. <<[of |-> s, row |-> r]>> \in Seq(Ingested)
  <2>1. [of |-> s, row |-> r] \in Ingested
    BY <1>2 DEF Ingested
  <2> QED BY <2>1
<1> QED BY <1>3, <1>4, <1>5, <1>6, IngestMoves

LEMMA RefreshMoves ==
  ASSUME CalendarInv, NEW t \in Readers, Calendar!Refresh(t)
  PROVE  CalendarInv'
<1> DEFINE known == {s \in EventFilings : filings[s] # Calendar!Unknown}
<1>1. PICK f \in Calendar!SetToSeqs(known) :
        Calendar!Ingest(t, [i \in DOMAIN f |-> [of |-> f[i], row |-> filings[f[i]]]], TRUE)
  BY DEF Calendar!Refresh
<1> DEFINE list == [i \in DOMAIN f |-> [of |-> f[i], row |-> filings[f[i]]]]
<1>2. PICK g \in [EventFilings -> FilingRows] : g = filings
  BY DEF CalendarInv
<1>3. list \in Seq(Ingested)
  BY <1>2, ListIngested
<1>4. /\ filings' \in [EventFilings -> FilingRows] /\ ingests' \in 0..MaxIngests
      /\ UNCHANGED <<today, versions, portable>>
  BY FreeReader DEF Calendar!Refresh, CalendarInv
<1>5. PICK l \in Seq(Ingested) : Calendar!Ingest(t, l, TRUE)
  BY <1>1, <1>3
<1> QED BY <1>4, <1>5, IngestMoves

\* The clock, or a row of the queue.
LEMMA ReadersRest ==
  ASSUME CalendarInv, today' \in 1..LastEventDay, filings' \in [EventFilings -> FilingRows],
         UNCHANGED <<versions, portable, reader, ingests>>
  PROVE  CalendarInv'
<1>1. Ordered'
  BY DEF CalendarInv, Ordered, Numbers, Calendar!OfKey, Dated
<1>2. \A u \in Readers : Reads(reader[u])'
  BY DEF CalendarInv, Reads, Numbers, Calendar!OfKey, Dated, Calendar!Away
<1> QED BY <1>1, <1>2 DEF CalendarInv

LEMMA CalendarStep ==
  ASSUME CalendarInv, [Calendar!CalendarNext]_Calendar!calendarVars
  PROVE  CalendarInv'
<1>1. CASE UNCHANGED Calendar!calendarVars
  BY <1>1, ReadersRest DEF Calendar!calendarVars, CalendarInv
<1>2. CASE \E t \in Readers : Calendar!CalendarRequests(t)
  BY <1>2, DiscoverMoves, CaptureMoves, RefreshMoves DEF Calendar!CalendarRequests
<1>3. ASSUME NEW s \in EventFilings, Calendar!TouchFiling(s)
      PROVE  CalendarInv'
  <2>1. today \in 0..LastEventDay
    BY WorkbenchAssumption DEF CalendarInv, Calendar!CalendarAssumption
  <2>2. \A r \in FilingRows, d \in 0..LastEventDay : [r EXCEPT !.updated = d] \in FilingRows
    BY DEF FilingRows
  <2>3. filings' = [filings EXCEPT ![s] = [filings[s] EXCEPT !.updated = today]]
    BY <1>3 DEF Calendar!TouchFiling, CalendarInv
  <2>4. filings' \in [EventFilings -> FilingRows]
    BY <2>1, <2>2, <2>3 DEF CalendarInv
  <2> QED BY <1>3, <2>4, ReadersRest DEF Calendar!TouchFiling, CalendarInv
<1>4. ASSUME NEW t \in Readers, NEW raises \in BOOLEAN, Calendar!ProposeLinked(t, raises)
      PROVE  CalendarInv'
  BY <1>4, ReaderMoves DEF Calendar!ProposeLinked, Reads, CalendarInv
<1>5. ASSUME NEW t \in Readers, Calendar!ReadCalendar(t)
      PROVE  CalendarInv'
  <2>1. PICK vs : vs = versions
    OBVIOUS
  <2>2. Calendar!Step(t, [pc |-> "write", versions |-> vs])
    BY <1>5, <2>1 DEF Calendar!ReadCalendar
  <2>3. Reads([pc |-> "write", versions |-> vs])
    BY <2>1 DEF Reads
  <2> QED BY <1>5, <2>2, <2>3, ReaderMoves DEF Calendar!ReadCalendar, CalendarInv
<1>6. ASSUME NEW t \in Readers, Calendar!WriteArtifact(t)
      PROVE  CalendarInv'
  <2>1. reader[t].versions \subseteq versions
    BY <1>6, ReadsAt DEF Calendar!WriteArtifact, CalendarInv
  <2> QED BY <1>6, <2>1, ReaderMoves DEF Calendar!WriteArtifact, Reads, CalendarInv
<1>7. CASE Calendar!NextDay
  <2>1. today' \in 1..LastEventDay
    BY <1>7, WorkbenchAssumption DEF Calendar!NextDay, CalendarInv, Calendar!CalendarAssumption
  <2> QED BY <1>7, <2>1, ReadersRest DEF Calendar!NextDay, CalendarInv
<1> QED BY <1>1, <1>2, <1>3, <1>4, <1>5, <1>6, <1>7, FindVersionMoves, SaveVersionMoves
        DEF Calendar!CalendarNext

LEMMA CalendarAtWork ==
  ASSUME [Next]_rows
  PROVE  [Calendar!CalendarNext]_Calendar!calendarVars
<1>1. CASE Only("calendar") /\ Calendar!CalendarNext
  BY <1>1
<1>2. CASE UNCHANGED calendarRows
  BY <1>2 DEF calendarRows, Calendar!calendarVars
<1> QED BY <1>1, <1>2 DEF Next, Only, rows

LEMMA CalendarStart ==
  ASSUME Init
  PROVE  CalendarInv
<1>1. /\ today = 1 /\ filings = [s \in EventFilings |-> Calendar!Unknown] /\ versions = {}
      /\ portable = {} /\ reader = [t \in Readers |-> Calendar!Away] /\ ingests = 0
  BY DEF Init, Calendar!CalendarInit
<1>2. Calendar!Unknown \in FilingRows /\ 1 \in 1..LastEventDay /\ 0 \in 0..MaxIngests
  BY WorkbenchAssumption DEF Calendar!Unknown, FilingRows, Calendar!CalendarAssumption
<1>3. \A k : Numbers(k) = 1..0
  BY <1>1 DEF Numbers, Calendar!OfKey
<1>4. Ordered
  BY <1>1, <1>3 DEF Ordered
<1>5. IsOn(reader, Readers) /\ \A t \in Readers : Reads(reader[t])
  BY <1>1 DEF IsOn, Reads
<1> QED BY <1>1, <1>2, <1>4, <1>5 DEF CalendarInv
\* What the versions of an event are numbered by is their number.
LEMMA NumbersCount ==
  ASSUME Ordered, NEW k
  PROVE  Numbers(k) = 1..Calendar!Cardinality(Calendar!OfKey(k))
<1> PICK n \in Nat : Numbers(k) = 1..n
  BY DEF Ordered
<1> PICK S : S = Calendar!OfKey(k)
  OBVIOUS
<1> DEFINE f == [v \in S |-> v.version]
<1>1. f \in Bijection(S, 1..n)
  <2>1. \A v \in S : v.version \in 1..n
    BY DEF Numbers
  <2>2. f \in [S -> 1..n]
    BY <2>1
  <2>3. \A v, w \in S : v.version = w.version => v = w
    BY DEF Calendar!OfKey, Ordered
  <2>4. \A i \in 1..n : \E v \in S : f[v] = i
    BY DEF Numbers
  <2> HIDE DEF f
  <2>5. \A v \in S : f[v] = v.version
    BY DEF f
  <2> QED BY <2>2, <2>3, <2>4, <2>5 DEF Bijection, Injection, Surjection, IsInjective
<1>2. ExistsBijection(1..n, S)
  <2>1. ExistsBijection(S, 1..n)
    BY <1>1 DEF ExistsBijection
  <2> QED BY <2>1, Fun_ExistsBijSymmetric
<1>3. IsFiniteSet(1..n) /\ Cardinality(1..n) = n
  BY FS_Interval
<1>4. Cardinality(S) = n
  BY <1>2, <1>3, FS_Bijection
<1>5. Calendar!Cardinality(S) = Cardinality(S)
  BY DEF Calendar!Cardinality, Cardinality, Calendar!IsFiniteSet, IsFiniteSet
<1> QED BY <1>4, <1>5

\* The versions of an event are numbered without a gap, none twice, and no view shows
\* one whose source was published later, whatever requests look up and save at the same
\* time (events/service.py, _persist_draft; events/store.py, list).
THEOREM VersionsOrdered == Spec => []HistoryIsOrdered
<1>1. Init => CalendarInv
  BY CalendarStart
<1>2. CalendarInv /\ [Next]_rows => CalendarInv'
  BY CalendarAtWork, CalendarStep
<1>3. CalendarInv => HistoryIsOrdered
  <2> SUFFICES ASSUME CalendarInv PROVE Calendar!HistoryIsOrdered
    BY DEF HistoryIsOrdered
  <2>1. Ordered
    BY DEF CalendarInv
  <2>2. \A k \in Calendar!Range(KeyOf) :
          {v.version : v \in Calendar!OfKey(k)} = 1..Calendar!Cardinality(Calendar!OfKey(k))
    BY <2>1, NumbersCount DEF Numbers
  <2>3. \A v, w \in versions : v.key = w.key /\ v.hash = w.hash => v = w
    BY <2>1 DEF Ordered
  <2>4. ASSUME NEW d \in 1..LastEventDay, NEW v \in Calendar!View(d)
        PROVE  v.known <= d
    <3>1. PICK k : Calendar!Seen(k, d) # {} /\ v = Calendar!LatestOf(Calendar!Seen(k, d))
      BY <2>4 DEF Calendar!View
    <3>2. Calendar!Seen(k, d) \subseteq Calendar!OfKey(k)
      BY DEF Calendar!Seen
    <3>3. v \in Calendar!Seen(k, d)
      BY <2>1, <3>1, <3>2, TheLatest
    <3>4. v \in versions /\ v.observed <= d
      BY <3>3 DEF Calendar!Seen, Calendar!OfKey
    <3>5. v.known \in Nat /\ v.observed \in Nat /\ v.known <= v.observed
      BY <2>1, <3>4 DEF Ordered, Dated
    <3> QED BY <3>4, <3>5
  <2> QED BY <2>2, <2>3, <2>4 DEF Calendar!HistoryIsOrdered
<1> QED BY <1>1, <1>2, <1>3, PTL DEF Spec

-----------------------------------------------------------------------------
(* ThemeRegistry: as long as a snapshot is fresh, what it has read is what *)
(* the three queries give now.                                             *)

\* An import at work on a document.
Imports(j) ==
  /\ j = [pc |-> j.pc, doc |-> j.doc, next |-> j.next]
  /\ j.pc \in {"sources", "members"} /\ j.doc \in Documents /\ j.next \in 1..Len(j.doc.sources)

Saves(j) ==
  /\ j = [pc |-> "define", definition |-> j.definition, then |-> j.then]
  /\ j.definition.known \in Nat
  /\ j.then = Themes!AtRest \/ Imports(j.then)

\* What a snapshot has read so far.
AtDefinition(j) ==
  /\ j = [pc |-> "memberships", day |-> j.day, cutoff |-> j.cutoff, definition |-> j.definition]
  /\ j.cutoff \in ThemeDays
AtRows(j) ==
  /\ j = [pc |-> "save", day |-> j.day, cutoff |-> j.cutoff, definition |-> j.definition,
          rows |-> j.rows]
  /\ j.cutoff \in ThemeDays

DeskTypes(j) == j = Themes!AtRest \/ Imports(j) \/ Saves(j) \/ AtDefinition(j) \/ AtRows(j)

SourcesTyped == \A i \in DOMAIN sources : sources[i].payload.observed \in Nat
MembersTyped == \A i \in DOMAIN memberships : memberships[i].column.known \in Nat

ThemeTypes ==
  /\ IsOn(desk, Desks) /\ \A t \in Desks : DeskTypes(desk[t])
  /\ SourcesTyped /\ MembersTyped

\* The definition and the rows the queries give now.
Defined(s) == s.definition = Themes!LatestDefinition(s.day, s.cutoff).id
Reading(j) ==
  /\ Defined(j)
  /\ j.pc = "save" => j.rows = Themes!ListMemberships(j.day, j.cutoff)

Reproduced(s) ==
  /\ Defined(s)
  /\ \E rs : rs = Themes!ListMemberships(s.day, s.cutoff) /\ s.universe = Themes!Universe(rs, s.cutoff)

Begun(t, j) == [desk |-> t, cutoff |-> j.cutoff]
Kept(s) == [row |-> s, cutoff |-> s.cutoff]

Entry(e) ==
  /\ e.cutoff \in ThemeDays
  /\ \/ \E t \in Desks : e = [desk |-> t, cutoff |-> e.cutoff]
     \/ \E s \in universes : e = Kept(s)

ThemeInv ==
  /\ ThemeTypes
  /\ \A e \in fresh : Entry(e)
  /\ \A t \in Desks : desk[t].pc \in {"memberships", "save"} /\ Begun(t, desk[t]) \in fresh
       => Reading(desk[t])
  /\ \A s \in universes : Kept(s) \in fresh => Reproduced(s)

-----------------------------------------------------------------------------
LEMMA EntriesDiffer ==
  \A t, s, c, d : [desk |-> t, cutoff |-> c] # [row |-> s, cutoff |-> d]
<1> SUFFICES ASSUME NEW t, NEW s, NEW c, NEW d,
                    [desk |-> t, cutoff |-> c] = [row |-> s, cutoff |-> d]
             PROVE  FALSE
  OBVIOUS
<1>1. "desk" \in DOMAIN [desk |-> t, cutoff |-> c] /\ "desk" \notin DOMAIN [row |-> s, cutoff |-> d]
  OBVIOUS
<1> QED BY <1>1

LEMMA JobPlaces ==
  ASSUME NEW j, DeskTypes(j)
  PROVE  /\ j.pc \in {"sources", "members"} => Imports(j)
         /\ j.pc = "define" => Saves(j)
         /\ j.pc = "memberships" => AtDefinition(j)
         /\ j.pc = "save" => AtRows(j)
<1>1. PICK a, b, c, d, e, f, g, h :
        /\ a = j.definition /\ b = j.then /\ c = j.day /\ d = j.cutoff /\ e = j.rows
        /\ f = j.pc /\ g = j.doc /\ h = j.next
  OBVIOUS
<1>2. CASE j = Themes!AtRest
  BY <1>2 DEF Themes!AtRest
<1>3. CASE Imports(j)
  BY <1>3 DEF Imports
<1>4. CASE Saves(j)
  <2>1. j = [pc |-> "define", definition |-> a, then |-> b]
    BY <1>1, <1>4 DEF Saves
  <2> QED BY <1>4, <2>1
<1>5. CASE AtDefinition(j)
  <2>1. j = [pc |-> "memberships", day |-> c, cutoff |-> d, definition |-> a]
    BY <1>1, <1>5 DEF AtDefinition
  <2> QED BY <1>5, <2>1
<1>6. CASE AtRows(j)
  <2>1. j = [pc |-> "save", day |-> c, cutoff |-> d, definition |-> a, rows |-> e]
    BY <1>1, <1>6 DEF AtRows
  <2> QED BY <1>6, <2>1
<1> QED BY <1>2, <1>3, <1>4, <1>5, <1>6 DEF DeskTypes

\* A request goes on to other work than a snapshot; what is still fresh is as it was.
LEMMA ImportMoves ==
  ASSUME ThemeInv, NEW t \in Desks, NEW j, Themes!Goto(t, j), DeskTypes(j),
         j.pc \notin {"memberships", "save"},
         SourcesTyped', MembersTyped',
         universes' = universes, fresh' \subseteq fresh,
         \A e \in fresh' : \A d, rs :
           /\ Themes!LatestDefinition(d, e.cutoff)' = Themes!LatestDefinition(d, e.cutoff)
           /\ Themes!ListMemberships(d, e.cutoff)' = Themes!ListMemberships(d, e.cutoff)
           /\ Themes!Universe(rs, e.cutoff)' = Themes!Universe(rs, e.cutoff)
  PROVE  ThemeInv'
<1>1. IsOn(desk', Desks) /\ desk'[t] = j /\ \A u \in Desks \ {t} : desk'[u] = desk[u]
  BY Update DEF ThemeInv, ThemeTypes, Themes!Goto, IsOn
<1>2. ThemeTypes'
  BY <1>1 DEF ThemeInv, ThemeTypes
<1>3. \A e \in fresh' : Entry(e)'
  BY DEF ThemeInv, Entry, Kept
<1>4. ASSUME NEW u \in Desks, desk'[u].pc \in {"memberships", "save"}, Begun(u, desk[u])' \in fresh'
      PROVE  Reading(desk[u])'
  <2>1. PICK k : k = desk[u] /\ k = desk'[u] /\ Begun(u, k) \in fresh'
    BY <1>1, <1>4 DEF Begun
  <2>2. Reading(k)
    BY <1>1, <1>4, <2>1 DEF ThemeInv
  <2>3. Begun(u, k).cutoff = k.cutoff
    BY DEF Begun
  <2>4. Reading(k)'
    BY <2>1, <2>2, <2>3 DEF Reading, Defined
  <2> QED BY <2>1, <2>4
<1>5. ASSUME NEW s \in universes', Kept(s) \in fresh'
      PROVE  Reproduced(s)'
  <2>1. Reproduced(s)
    BY <1>5 DEF ThemeInv
  <2>2. Kept(s).cutoff = s.cutoff
    BY DEF Kept
  <2> QED BY <1>5, <2>1, <2>2 DEF Reproduced, Defined
<1> QED BY <1>2, <1>3, <1>4, <1>5 DEF ThemeInv, Kept

LEMMA ThemeMin ==
  ASSUME NEW S, S \subseteq Nat, S # {}
  PROVE  Themes!Min(S) \in S /\ \A x \in S : Themes!Min(S) <= x
<1>1. PICK m \in S : \A x \in S : m <= x
  BY Least
<1> QED BY <1>1 DEF Themes!Min

LEMMA DocumentFacts ==
  ASSUME NEW doc \in Documents
  PROVE  /\ Len(doc.sources) \in Nat /\ DOMAIN doc.sources = 1..Len(doc.sources)
         /\ 1 \in 1..Len(doc.sources)
         /\ Themes!DefinitionRow(doc.definition).known \in Nat
         /\ \A i, n : [doc.definition EXCEPT !.id = i, !.version = n].known \in Nat
         /\ \A i \in DOMAIN doc.sources :
              /\ doc.sources[i].observed \in Nat
              /\ \A m \in doc.sources[i].members : Themes!KnownAt(doc.sources[i], m) \in Nat
<1>1. doc.sources \in Seq({doc.sources[i] : i \in DOMAIN doc.sources}) /\ doc.sources # <<>>
  BY WorkbenchAssumption DEF Themes!ThemeAssumption
<1>2. /\ Len(doc.sources) \in Nat /\ DOMAIN doc.sources = 1..Len(doc.sources)
      /\ 1 \in 1..Len(doc.sources)
  <2>1. PICK S : doc.sources \in Seq(S) /\ doc.sources # <<>>
    BY <1>1
  <2> QED BY <2>1
<1>3. PICK I, D : doc.definition \in [id : I, hash : D, version : Nat, from : Nat, to : Nat,
                                       known : Nat]
  BY WorkbenchAssumption DEF Themes!ThemeAssumption
<1>4. /\ Themes!DefinitionRow(doc.definition).known \in Nat
      /\ \A i, n : [doc.definition EXCEPT !.id = i, !.version = n].known \in Nat
  BY <1>3 DEF Themes!DefinitionRow
<1>5. \A i \in DOMAIN doc.sources :
        /\ doc.sources[i].observed \in Nat
        /\ \A m \in doc.sources[i].members : Themes!KnownAt(doc.sources[i], m) \in Nat
  BY WorkbenchAssumption DEF Themes!ThemeAssumption, Themes!KnownAt, Themes!Unsaid
<1> QED BY <1>2, <1>4, <1>5

LEMMA CutoffsAreDays ==
  ASSUME ThemeInv
  PROVE  \A e \in fresh : e.cutoff \in Nat
BY WorkbenchAssumption DEF ThemeInv, Entry, Themes!ThemeAssumption

\* A step that leaves the three tables.
LEMMA DeskMoves ==
  ASSUME ThemeInv, NEW t \in Desks, NEW j, Themes!Goto(t, j), DeskTypes(j),
         j.pc \notin {"memberships", "save"}, fresh' \subseteq fresh,
         UNCHANGED <<definitions, sources, memberships, universes>>
  PROVE  ThemeInv'
<1>1. \A e \in fresh' : \A d, rs :
        /\ Themes!LatestDefinition(d, e.cutoff)' = Themes!LatestDefinition(d, e.cutoff)
        /\ Themes!ListMemberships(d, e.cutoff)' = Themes!ListMemberships(d, e.cutoff)
        /\ Themes!Universe(rs, e.cutoff)' = Themes!Universe(rs, e.cutoff)
  <2>1. ASSUME NEW c, NEW d, NEW rs
        PROVE  /\ Themes!LatestDefinition(d, c)' = Themes!LatestDefinition(d, c)
               /\ Themes!ListMemberships(d, c)' = Themes!ListMemberships(d, c)
               /\ Themes!Universe(rs, c)' = Themes!Universe(rs, c)
    <3>1. Themes!LatestDefinition(d, c)' = Themes!LatestDefinition(d, c)
      BY DEF Themes!LatestDefinition, Themes!Knowable
    <3>2. Themes!ListMemberships(d, c)' = Themes!ListMemberships(d, c)
      BY DEF Themes!ListMemberships
    <3>3. Themes!Universe(rs, c)' = Themes!Universe(rs, c)
      BY DEF Themes!Universe, Themes!Observed, Themes!Member
    <3> QED BY <3>1, <3>2, <3>3
  <2> QED BY <2>1
<1> QED BY <1>1, ImportMoves DEF ThemeInv, ThemeTypes, SourcesTyped, MembersTyped

LEMMA ImportDefinitionMoves ==
  ASSUME ThemeInv, NEW t \in Desks, NEW doc \in Documents, Themes!ImportDefinition(t, doc)
  PROVE  ThemeInv'
<1> PICK then : then = [pc |-> "sources", doc |-> doc, next |-> 1]
  OBVIOUS
<1> PICK define : define = [pc |-> "define", definition |-> Themes!DefinitionRow(doc.definition),
                            then |-> then]
  OBVIOUS
<1>1. Imports(then)
  BY DocumentFacts DEF Imports
<1>2. Saves(define)
  BY <1>1, DocumentFacts DEF Saves
<1>3. PICK j \in {then, define} : Themes!Goto(t, j)
  BY DEF Themes!ImportDefinition
<1>4. DeskTypes(j) /\ j.pc \notin {"memberships", "save"}
  BY <1>1, <1>2 DEF DeskTypes
<1> QED BY <1>3, <1>4, DeskMoves DEF Themes!ImportDefinition

LEMMA RegisterMoves ==
  ASSUME ThemeInv, NEW t \in Desks, NEW doc \in Documents, Themes!Register(t, doc.definition)
  PROVE  ThemeInv'
<1> PICK i, n : Themes!Goto(t, [pc |-> "define", then |-> Themes!AtRest,
                                definition |-> [doc.definition EXCEPT !.id = i, !.version = n]])
  BY DEF Themes!Register
<1> PICK j : j = [pc |-> "define", then |-> Themes!AtRest,
                  definition |-> [doc.definition EXCEPT !.id = i, !.version = n]]
  OBVIOUS
<1>1. Saves(j)
  BY DocumentFacts DEF Saves
<1>2. DeskTypes(j) /\ j.pc \notin {"memberships", "save"}
  BY <1>1 DEF DeskTypes
<1> QED BY <1>2, DeskMoves DEF Themes!Register

\* A definition known later is in no query as of an earlier day.
LEMMA SaveDefinitionMoves ==
  ASSUME ThemeInv, NEW t \in Desks, Themes!SaveDefinition(t)
  PROVE  ThemeInv'
<1> PICK k : k = desk[t]
  OBVIOUS
<1> PICK d : d = k.definition
  OBVIOUS
<1>1. Saves(k) /\ k.pc = "define"
  BY JobPlaces DEF ThemeInv, ThemeTypes, Themes!SaveDefinition, Themes!Busy
<1>2. UNCHANGED <<sources, memberships, universes>>
  BY DEF Themes!SaveDefinition
<1>3. CASE UNCHANGED <<definitions, fresh>> /\ Themes!Goto(t, Themes!AtRest)
  BY <1>2, <1>3, DeskMoves DEF DeskTypes, Themes!AtRest
<1>4. CASE definitions' = definitions \cup {d} /\ Themes!Outdates(d.known)
           /\ Themes!Goto(t, k.then)
  <2>1. DeskTypes(k.then) /\ k.then.pc \notin {"memberships", "save"}
    BY <1>1 DEF Saves, DeskTypes, Imports, Themes!AtRest
  <2>2. \A e \in fresh' : e \in fresh /\ e.cutoff < d.known
    BY <1>4 DEF Themes!Outdates
  <2>3. ASSUME NEW e \in fresh', NEW day_, NEW rs
        PROVE  /\ Themes!LatestDefinition(day_, e.cutoff)' = Themes!LatestDefinition(day_, e.cutoff)
               /\ Themes!ListMemberships(day_, e.cutoff)' = Themes!ListMemberships(day_, e.cutoff)
               /\ Themes!Universe(rs, e.cutoff)' = Themes!Universe(rs, e.cutoff)
    <3>1. ~(d.known <= e.cutoff)
      BY <1>1, <2>2, CutoffsAreDays DEF Saves
    <3>2. Themes!Knowable(day_, e.cutoff)' = Themes!Knowable(day_, e.cutoff)
      BY <1>4, <3>1 DEF Themes!Knowable
    <3>3. Themes!LatestDefinition(day_, e.cutoff)' = Themes!LatestDefinition(day_, e.cutoff)
      BY <3>2 DEF Themes!LatestDefinition
    <3>4. Themes!ListMemberships(day_, e.cutoff)' = Themes!ListMemberships(day_, e.cutoff)
      BY <1>2 DEF Themes!ListMemberships
    <3>5. Themes!Universe(rs, e.cutoff)' = Themes!Universe(rs, e.cutoff)
      BY <1>2 DEF Themes!Universe, Themes!Observed, Themes!Member
    <3> QED BY <3>3, <3>4, <3>5
  <2> QED BY <1>2, <1>4, <2>1, <2>2, <2>3, ImportMoves DEF ThemeInv, ThemeTypes, SourcesTyped, MembersTyped
<1> QED BY <1>3, <1>4 DEF Themes!SaveDefinition

\* A universe depends on the sources observed by its cutoff.
LEMMA SameUniverse ==
  ASSUME NEW c, NEW rs, Themes!Observed(c)' = Themes!Observed(c),
         \A i \in Themes!Observed(c) : sources'[i] = sources[i]
  PROVE  Themes!Universe(rs, c)' = Themes!Universe(rs, c)
<1>1. PICK seen : seen = Themes!Observed(c) /\ seen = Themes!Observed(c)'
  OBVIOUS
<1>2. PICK used : used = {r \in Themes!LatestPerKey(rs) : r.source \in seen}
  OBVIOUS
<1>3. \A k : Themes!Member(k, used)' = Themes!Member(k, used)
  BY <1>1, <1>2 DEF Themes!Member
<1>4. Themes!Universe(rs, c) =
        [members |-> {Themes!Member(k, used) : k \in {r.ticker : r \in used}},
         missing |-> {i \in seen : sources[i].payload.coverage \in {"blocked", "unsupported"}},
         partial |-> \E i \in seen : sources[i].payload.coverage # "complete"]
  BY <1>1, <1>2 DEF Themes!Universe
<1>5. Themes!Universe(rs, c)' =
        [members |-> {Themes!Member(k, used)' : k \in {r.ticker : r \in used}},
         missing |-> {i \in seen : sources'[i].payload.coverage \in {"blocked", "unsupported"}},
         partial |-> \E i \in seen : sources'[i].payload.coverage # "complete"]
  BY <1>1, <1>2 DEF Themes!Universe
<1>6. \A i \in seen : sources'[i] = sources[i]
  BY <1>1
<1> QED BY <1>3, <1>4, <1>5, <1>6

LEMMA ImportSourceMoves ==
  ASSUME ThemeInv, NEW t \in Desks, Themes!ImportSource(t)
  PROVE  ThemeInv'
<1>a. PICK k : k = desk[t]
  OBVIOUS
<1>b. PICK s : s = k.doc.sources[k.next]
  OBVIOUS
<1>c. PICK old : old = IF s.id \in DOMAIN sources
                     THEN Themes!Min({s.observed, sources[s.id].payload.observed})
                     ELSE s.observed
  OBVIOUS
<1>1. Imports(k) /\ k.pc = "sources" /\ SourcesTyped /\ MembersTyped
  BY <1>a, JobPlaces DEF ThemeInv, ThemeTypes, Themes!ImportSource, Themes!Busy
<1>2. s.observed \in Nat /\ Len(k.doc.sources) \in Nat
  BY <1>1, <1>b, DocumentFacts DEF Imports
<1>3. UNCHANGED <<definitions, memberships, universes>>
  BY DEF Themes!ImportSource
<1>4. CASE Themes!Goto(t, Themes!AtRest) /\ UNCHANGED <<sources, fresh>>
  BY <1>3, <1>4, DeskMoves DEF DeskTypes, Themes!AtRest
<1>5. CASE /\ sources' = Themes!Upsert(sources, s.id, s) /\ Themes!Outdates(old)
           /\ Themes!Goto(t, IF k.next < Len(k.doc.sources) THEN [k EXCEPT !.next = k.next + 1]
                                                            ELSE [k EXCEPT !.pc = "members"])
  <2>0. PICK j : j = IF k.next < Len(k.doc.sources) THEN [k EXCEPT !.next = k.next + 1]
                                                  ELSE [k EXCEPT !.pc = "members"]
    OBVIOUS
  <2>1. Imports(j)
    <3>1. PICK a, b, c : k = [pc |-> a, doc |-> b, next |-> c]
      BY <1>1 DEF Imports
    <3>2. /\ [k EXCEPT !.next = k.next + 1] = [pc |-> a, doc |-> b, next |-> c + 1]
          /\ [k EXCEPT !.pc = "members"] = [pc |-> "members", doc |-> b, next |-> c]
      BY <3>1
    <3>3. k.next < Len(k.doc.sources) => k.next + 1 \in 1..Len(k.doc.sources)
      <4>1. PICK n \in Nat : n = Len(k.doc.sources)
        BY <1>2
      <4>2. k.next \in 1..n
        BY <1>1, <4>1 DEF Imports
      <4> QED BY <4>1, <4>2
    <3> QED BY <1>1, <2>0, <3>1, <3>2, <3>3 DEF Imports
  <2>2. DeskTypes(j) /\ j.pc \notin {"memberships", "save"}
    BY <2>1 DEF DeskTypes, Imports
  <2>3. /\ DOMAIN sources' = DOMAIN sources \cup {s.id}
        /\ \A i \in DOMAIN sources \ {s.id} : sources'[i] = sources[i]
        /\ sources'[s.id].payload = s
    BY <1>5 DEF Themes!Upsert
  <2>4. SourcesTyped'
    BY <1>1, <1>2, <2>3 DEF SourcesTyped
  <2>5. /\ old <= s.observed /\ old \in Nat
        /\ s.id \in DOMAIN sources => old <= sources[s.id].payload.observed
    <3>1. CASE s.id \in DOMAIN sources
      <4> PICK S : S = {s.observed, sources[s.id].payload.observed}
        OBVIOUS
      <4>1. S \subseteq Nat /\ S # {}
        BY <1>1, <1>2, <3>1 DEF SourcesTyped
      <4> QED BY <1>c, <3>1, <4>1, ThemeMin
    <3>2. CASE s.id \notin DOMAIN sources
      BY <1>2, <1>c, <3>2
    <3> QED BY <3>1, <3>2
  <2>6. \A e \in fresh' : e \in fresh /\ e.cutoff < old
    BY <1>5 DEF Themes!Outdates
  <2>7. ASSUME NEW e \in fresh', NEW d, NEW rs
        PROVE  /\ Themes!LatestDefinition(d, e.cutoff)' = Themes!LatestDefinition(d, e.cutoff)
               /\ Themes!ListMemberships(d, e.cutoff)' = Themes!ListMemberships(d, e.cutoff)
               /\ Themes!Universe(rs, e.cutoff)' = Themes!Universe(rs, e.cutoff)
    <3>1. Themes!LatestDefinition(d, e.cutoff)' = Themes!LatestDefinition(d, e.cutoff)
      BY <1>3 DEF Themes!LatestDefinition, Themes!Knowable
    <3>2. Themes!ListMemberships(d, e.cutoff)' = Themes!ListMemberships(d, e.cutoff)
      BY <1>3 DEF Themes!ListMemberships
    <3>3. PICK c \in Nat : c = e.cutoff /\ c < old
      BY <2>6, CutoffsAreDays
    <3>4. s.id \notin Themes!Observed(c) /\ s.id \notin Themes!Observed(c)'
      <4>1. s.id \in DOMAIN sources' /\ sources'[s.id].payload.observed = s.observed
        BY <2>3
      <4>2. ~(s.observed <= c)
        BY <1>2, <2>5, <3>3
      <4>3. s.id \in DOMAIN sources => ~(sources[s.id].payload.observed <= c)
        BY <1>1, <2>5, <3>3 DEF SourcesTyped
      <4> QED BY <4>1, <4>2, <4>3 DEF Themes!Observed
    <3>5. Themes!Observed(c)' = Themes!Observed(c)
      BY <2>3, <3>4 DEF Themes!Observed
    <3>6. \A i \in Themes!Observed(c) : sources'[i] = sources[i]
      BY <2>3, <3>4 DEF Themes!Observed
    <3>7. Themes!Universe(rs, c)' = Themes!Universe(rs, c)
      BY <3>5, <3>6, SameUniverse
    <3>8. Themes!Universe(rs, e.cutoff)' = Themes!Universe(rs, e.cutoff)
      BY <3>3, <3>7
    <3> QED BY <3>1, <3>2, <3>8
  <2>8. MembersTyped'
    BY <1>1, <1>3 DEF MembersTyped
  <2> QED BY <1>3, <1>5, <2>0, <2>2, <2>4, <2>6, <2>7, <2>8, ImportMoves
<1> QED BY <1>4, <1>5, <1>a, <1>b, <1>c DEF Themes!ImportSource

\* What an import of members changes was not, and is not, known at an earlier cutoff.
LEMMA ImportMembersMoves ==
  ASSUME ThemeInv, NEW t \in Desks, Themes!ImportMembers(t)
  PROVE  ThemeInv'
<1>a. PICK k : k = desk[t]
  OBVIOUS
<1>b. PICK new : new = Themes!DocumentMembers(k.doc)
  OBVIOUS
<1>c. PICK ids : ids = {p[1] : p \in new}
  OBVIOUS
<1> DEFINE chosenRow(i) == (CHOOSE p \in new : p[1] = i)[2]
           columnOf(i) == IF i \in DOMAIN memberships THEN memberships[i].column ELSE chosenRow(i)
<1>d. PICK S : S = {columnOf(i).known : i \in ids}
  OBVIOUS
<1>1. Imports(k) /\ SourcesTyped /\ MembersTyped
  BY <1>a, JobPlaces DEF ThemeInv, ThemeTypes, Themes!ImportMembers, Themes!Busy
<1>2. \A p \in new : p[2].known \in Nat
  BY <1>1, <1>b, DocumentFacts DEF Imports, Themes!DocumentMembers, Themes!MemberRow
<1>3. UNCHANGED <<definitions, sources, universes>> /\ Themes!Goto(t, Themes!AtRest)
  BY DEF Themes!ImportMembers
<1>4. DeskTypes(Themes!AtRest) /\ Themes!AtRest.pc \notin {"memberships", "save"}
  BY DEF DeskTypes, Themes!AtRest
<1>5. CASE UNCHANGED <<memberships, fresh>>
  BY <1>3, <1>4, <1>5, DeskMoves
<1>6. CASE /\ new # {}
           /\ memberships' = [i \in DOMAIN memberships \cup ids |->
                IF i \notin ids THEN memberships[i]
                ELSE [column |-> columnOf(i), payload |-> chosenRow(i)]]
           /\ Themes!Outdates(Themes!Min(S))
  <2>1. PICK old : old = Themes!Min(S)
    OBVIOUS
  <2>2. S \subseteq Nat /\ S # {}
    <3>1. \A i \in ids : (CHOOSE p \in new : p[1] = i) \in new
      BY <1>c
    <3>2. \A i \in ids : columnOf(i).known \in Nat
      BY <1>1, <1>2, <3>1 DEF MembersTyped
    <3>3. ids # {}
      BY <1>6, <1>c
    <3> HIDE DEF columnOf
    <3> QED BY <1>d, <3>2, <3>3
  <2>3. old \in Nat /\ \A x \in S : old <= x
    BY <2>1, <2>2, ThemeMin
  <2>4. /\ DOMAIN memberships' = DOMAIN memberships \cup ids
        /\ \A i \in DOMAIN memberships \ ids : memberships'[i] = memberships[i]
        /\ \A i \in ids : memberships'[i].column.known \in S
        /\ \A i \in ids \cap DOMAIN memberships : memberships[i].column.known \in S
    <3>1. \A i \in ids : columnOf(i).known \in S
      <4> HIDE DEF columnOf
      <4> QED BY <1>d
    <3>2. \A i \in ids : memberships'[i].column = columnOf(i)
      BY <1>6
    <3>3. \A i \in ids \cap DOMAIN memberships : memberships[i].column = columnOf(i)
      OBVIOUS
    <3>4. /\ DOMAIN memberships' = DOMAIN memberships \cup ids
          /\ \A i \in DOMAIN memberships \ ids : memberships'[i] = memberships[i]
      BY <1>6
    <3> HIDE DEF columnOf
    <3> QED BY <3>1, <3>2, <3>3, <3>4
  <2>5. MembersTyped'
    BY <1>1, <2>2, <2>4 DEF MembersTyped
  <2>6. SourcesTyped'
    BY <1>1, <1>3 DEF SourcesTyped
  <2>7. \A e \in fresh' : e \in fresh /\ e.cutoff < old
    BY <1>6, <2>1 DEF Themes!Outdates
  <2>8. ASSUME NEW e \in fresh', NEW d, NEW rs
        PROVE  /\ Themes!LatestDefinition(d, e.cutoff)' = Themes!LatestDefinition(d, e.cutoff)
               /\ Themes!ListMemberships(d, e.cutoff)' = Themes!ListMemberships(d, e.cutoff)
               /\ Themes!Universe(rs, e.cutoff)' = Themes!Universe(rs, e.cutoff)
    <3>1. Themes!LatestDefinition(d, e.cutoff)' = Themes!LatestDefinition(d, e.cutoff)
      BY <1>3 DEF Themes!LatestDefinition, Themes!Knowable
    <3>2. Themes!Universe(rs, e.cutoff)' = Themes!Universe(rs, e.cutoff)
      BY <1>3 DEF Themes!Universe, Themes!Observed, Themes!Member
    <3>3. PICK c \in Nat : c = e.cutoff /\ c < old
      BY <2>7, CutoffsAreDays
    <3>4. \A x \in S : ~(x <= c)
      BY <2>2, <2>3, <3>3
    <3>5. PICK here : here = {i \in DOMAIN memberships :
                               /\ Themes!ValidOn(memberships[i].column, d)
                               /\ memberships[i].column.known <= c}
      OBVIOUS
    <3>6. here = {i \in DOMAIN memberships' : /\ Themes!ValidOn(memberships'[i].column, d)
                                              /\ memberships'[i].column.known <= c}
      BY <2>4, <3>4, <3>5
    <3>7. \A i \in here : memberships'[i] = memberships[i]
      BY <2>4, <3>4, <3>5
    <3>8. Themes!ListMemberships(d, c) = {memberships[i].payload : i \in here}
      BY <3>5 DEF Themes!ListMemberships
    <3>9. Themes!ListMemberships(d, c)' = {memberships'[i].payload : i \in here}
      BY <3>6 DEF Themes!ListMemberships
    <3>10. Themes!ListMemberships(d, c)' = Themes!ListMemberships(d, c)
      BY <3>7, <3>8, <3>9
    <3>11. Themes!ListMemberships(d, e.cutoff)' = Themes!ListMemberships(d, e.cutoff)
      BY <3>3, <3>10
    <3> QED BY <3>1, <3>2, <3>11
  <2> QED BY <1>3, <1>4, <2>5, <2>6, <2>7, <2>8, ImportMoves
<1> QED BY <1>5, <1>6, <1>a, <1>b, <1>c, <1>d DEF Themes!ImportMembers

LEMMA SameTables ==
  ASSUME UNCHANGED <<definitions, sources, memberships>>, NEW s
  PROVE  /\ Defined(s) => Defined(s)'
         /\ Reading(s) => Reading(s)'
         /\ Reproduced(s) => Reproduced(s)'
<1>1. Themes!LatestDefinition(s.day, s.cutoff)' = Themes!LatestDefinition(s.day, s.cutoff)
  BY DEF Themes!LatestDefinition, Themes!Knowable
<1>2. Themes!ListMemberships(s.day, s.cutoff)' = Themes!ListMemberships(s.day, s.cutoff)
  BY DEF Themes!ListMemberships
<1>3. \A rs : Themes!Universe(rs, s.cutoff)' = Themes!Universe(rs, s.cutoff)
  BY DEF Themes!Universe, Themes!Observed, Themes!Member
<1> QED BY <1>1, <1>2, <1>3 DEF Defined, Reading, Reproduced

\* A step of a snapshot: it is as good as what it has read.
LEMMA SnapshotMoves ==
  ASSUME ThemeInv, NEW t \in Desks, NEW j, Themes!Goto(t, j), DeskTypes(j),
         UNCHANGED <<definitions, sources, memberships>>,
         universes \subseteq universes',
         \A e \in fresh' : Entry(e)',
         \A u \in Desks \ {t}, c \in ThemeDays :
           [desk |-> u, cutoff |-> c] \in fresh' => [desk |-> u, cutoff |-> c] \in fresh,
         j.pc \in {"memberships", "save"} /\ Begun(t, j) \in fresh' => Reading(j),
         \A s \in universes' : Kept(s) \in fresh' => Reproduced(s)
  PROVE  ThemeInv'
<1>1. IsOn(desk', Desks) /\ desk'[t] = j /\ \A u \in Desks \ {t} : desk'[u] = desk[u]
  BY Update DEF ThemeInv, ThemeTypes, Themes!Goto, IsOn
<1>2. ThemeTypes'
  BY <1>1 DEF ThemeInv, ThemeTypes, SourcesTyped, MembersTyped
<1>3. ASSUME NEW u \in Desks, desk'[u].pc \in {"memberships", "save"}, Begun(u, desk[u])' \in fresh'
      PROVE  Reading(desk[u])'
  <2>1. PICK k : k = desk'[u] /\ Begun(u, k) \in fresh'
    BY <1>3 DEF Begun
  <2>2. Reading(k)
    <3>1. CASE u = t
      BY <1>1, <1>3, <2>1, <3>1
    <3>2. CASE u # t
      <4>1. k = desk[u] /\ k.cutoff \in ThemeDays
        <5>1. k = desk[u] /\ DeskTypes(k)
          BY <1>1, <2>1, <3>2 DEF ThemeInv, ThemeTypes
        <5> QED BY <1>3, <2>1, <5>1, JobPlaces DEF AtDefinition, AtRows
      <4>2. Begun(u, k) \in fresh
        BY <2>1, <3>2, <4>1 DEF Begun
      <4> QED BY <1>3, <2>1, <4>1, <4>2 DEF ThemeInv
    <3> QED BY <3>1, <3>2
  <2> QED BY <2>1, <2>2, SameTables
<1>4. ASSUME NEW s \in universes', Kept(s) \in fresh'
      PROVE  Reproduced(s)'
  BY <1>4, SameTables
<1> QED BY <1>2, <1>3, <1>4 DEF ThemeInv, Kept

LEMMA BeginSnapshotMoves ==
  ASSUME ThemeInv, NEW t \in Desks, NEW d \in ThemeDays, NEW c \in ThemeDays,
         Themes!BeginSnapshot(t, d, c)
  PROVE  ThemeInv'
<1>1. PICK x : x = Themes!LatestDefinition(d, c).id
  OBVIOUS
<1>2. PICK j : j = [pc |-> "memberships", day |-> d, cutoff |-> c, definition |-> x]
  OBVIOUS
<1>3. /\ Themes!Goto(t, j) /\ fresh' = fresh \cup {[desk |-> t, cutoff |-> c]}
      /\ UNCHANGED <<definitions, sources, memberships, universes>>
  BY <1>1, <1>2 DEF Themes!BeginSnapshot
<1>4. DeskTypes(j) /\ Reading(j)
  BY <1>1, <1>2 DEF DeskTypes, AtDefinition, Reading, Defined
<1>5. \A e \in fresh' : Entry(e)'
  <2>1. \A e \in fresh : Entry(e)'
    BY <1>3 DEF ThemeInv, Entry
  <2>2. Entry([desk |-> t, cutoff |-> c])'
    BY DEF Entry
  <2> QED BY <1>3, <2>1, <2>2
<1>6. \A u \in Desks \ {t}, b \in ThemeDays :
        [desk |-> u, cutoff |-> b] \in fresh' => [desk |-> u, cutoff |-> b] \in fresh
  BY <1>3
<1>7. \A s \in universes' : Kept(s) \in fresh' => Reproduced(s)
  BY <1>3, EntriesDiffer DEF ThemeInv, Kept
<1> QED BY <1>3, <1>4, <1>5, <1>6, <1>7, SnapshotMoves

LEMMA ReadMembershipsMoves ==
  ASSUME ThemeInv, NEW t \in Desks, Themes!ReadMemberships(t)
  PROVE  ThemeInv'
<1>1. PICK k : k = desk[t]
  OBVIOUS
<1>2. AtDefinition(k) /\ k.pc = "memberships"
  BY <1>1, JobPlaces DEF ThemeInv, ThemeTypes, Themes!ReadMemberships, Themes!Busy
<1>3. PICK rs : rs = Themes!ListMemberships(k.day, k.cutoff)
  OBVIOUS
<1>4. PICK j : j = [pc |-> "save", day |-> k.day, cutoff |-> k.cutoff,
                    definition |-> k.definition, rows |-> rs]
  OBVIOUS
<1>5. /\ Themes!Goto(t, j)
      /\ UNCHANGED <<definitions, sources, memberships, universes, fresh>>
  BY <1>1, <1>3, <1>4 DEF Themes!ReadMemberships
<1>6. DeskTypes(j)
  BY <1>2, <1>4 DEF DeskTypes, AtDefinition, AtRows
<1>7. Begun(t, j) \in fresh => Reading(j)
  <2>1. /\ j.day = k.day /\ j.cutoff = k.cutoff /\ j.definition = k.definition /\ j.rows = rs
        /\ Begun(t, j) = Begun(t, k)
    BY <1>4 DEF Begun
  <2>2. Begun(t, k) \in fresh => Defined(k)
    BY <1>1, <1>2 DEF ThemeInv, Reading
  <2> QED BY <1>3, <2>1, <2>2 DEF Reading, Defined
<1>8. \A e \in fresh' : Entry(e)'
  BY <1>5 DEF ThemeInv, Entry
<1> QED BY <1>5, <1>6, <1>7, <1>8, SnapshotMoves DEF ThemeInv

LEMMA SaveSnapshotRowMoves ==
  ASSUME ThemeInv, NEW t \in Desks, Themes!SaveSnapshotRow(t)
  PROVE  ThemeInv'
<1>1. PICK k : k = desk[t]
  OBVIOUS
<1>2. AtRows(k) /\ k.pc = "save"
  BY <1>1, JobPlaces DEF ThemeInv, ThemeTypes, Themes!SaveSnapshotRow, Themes!Busy
<1>3. PICK u : u = Themes!Universe(k.rows, k.cutoff)
  OBVIOUS
<1>4. PICK new : new = [day |-> k.day, cutoff |-> k.cutoff, definition |-> k.definition, universe |-> u]
  OBVIOUS
<1>5. /\ Themes!Goto(t, Themes!AtRest)
      /\ UNCHANGED <<definitions, sources, memberships>>
      /\ universes' = universes \cup {new}
      /\ fresh' = (fresh \ {Begun(t, k)})
                  \cup (IF Begun(t, k) \in fresh THEN {[row |-> new, cutoff |-> k.cutoff]} ELSE {})
  BY <1>1, <1>3, <1>4 DEF Themes!SaveSnapshotRow, Begun
<1>6. /\ new.day = k.day /\ new.cutoff = k.cutoff /\ new.definition = k.definition /\ new.universe = u
      /\ [row |-> new, cutoff |-> k.cutoff] = Kept(new)
  BY <1>4 DEF Kept
<1>7. Begun(t, k) \in fresh => Reproduced(new)
  BY <1>1, <1>2, <1>3, <1>6 DEF ThemeInv, Reading, Reproduced, Defined
<1>8. \A e \in fresh' : Entry(e)'
  <2>1. \A e \in fresh : Entry(e)'
    BY <1>5 DEF ThemeInv, Entry
  <2>2. Entry(Kept(new))'
    <3>1. Kept(new).cutoff \in ThemeDays
      BY <1>2, <1>6 DEF AtRows, Kept
    <3> QED BY <1>5, <3>1 DEF Entry
  <2> QED BY <1>5, <1>6, <2>1, <2>2
<1>9. ASSUME NEW v \in Desks \ {t}, NEW b \in ThemeDays, [desk |-> v, cutoff |-> b] \in fresh'
      PROVE  [desk |-> v, cutoff |-> b] \in fresh
  BY <1>5, <1>9, EntriesDiffer
<1>10. ASSUME NEW s \in universes', Kept(s) \in fresh'
       PROVE  Reproduced(s)
  <2>1. CASE Kept(s) \in fresh
    <3>1. s \in universes
      <4>1. PICK w : w \in universes /\ Kept(s) = Kept(w)
        BY <2>1, EntriesDiffer DEF ThemeInv, Entry, Kept
      <4>2. Kept(s).row = s /\ Kept(w).row = w
        BY DEF Kept
      <4> QED BY <4>1, <4>2
    <3> QED BY <2>1, <3>1 DEF ThemeInv
  <2>2. CASE Kept(s) = Kept(new) /\ Begun(t, k) \in fresh
    <3>1. Kept(s).row = s /\ Kept(new).row = new
      BY DEF Kept
    <3> QED BY <1>7, <2>2, <3>1
  <2> QED BY <1>5, <1>6, <1>10, <2>1, <2>2
<1>11. DeskTypes(Themes!AtRest) /\ Themes!AtRest.pc \notin {"memberships", "save"}
  BY DEF DeskTypes, Themes!AtRest
<1>12. universes \subseteq universes'
  BY <1>5
<1> QED BY <1>5, <1>8, <1>9, <1>10, <1>11, <1>12, SnapshotMoves

LEMMA ThemeStep ==
  ASSUME ThemeInv, [Themes!ThemeNext]_Themes!themeVars
  PROVE  ThemeInv'
<1>1. CASE UNCHANGED Themes!themeVars
  <2>1. UNCHANGED <<definitions, sources, memberships, universes, desk, fresh>>
    BY <1>1 DEF Themes!themeVars
  <2>2. ThemeTypes'
    BY <2>1 DEF ThemeInv, ThemeTypes, SourcesTyped, MembersTyped
  <2>3. \A e \in fresh' : Entry(e)'
    BY <2>1 DEF ThemeInv, Entry
  <2>4. ASSUME NEW u \in Desks, desk'[u].pc \in {"memberships", "save"}, Begun(u, desk[u])' \in fresh'
        PROVE  Reading(desk[u])'
    <3>1. PICK k : k = desk[u] /\ k = desk'[u] /\ Begun(u, k) \in fresh
      BY <2>1, <2>4 DEF Begun
    <3> QED BY <2>1, <2>4, <3>1, SameTables DEF ThemeInv
  <2>5. \A s \in universes' : Kept(s) \in fresh' => Reproduced(s)'
    BY <2>1, SameTables DEF ThemeInv
  <2> QED BY <2>2, <2>3, <2>4, <2>5 DEF ThemeInv, Kept
<1>2. CASE Themes!ThemeRequests
  BY <1>2, ImportDefinitionMoves, RegisterMoves, BeginSnapshotMoves DEF Themes!ThemeRequests
<1>3. CASE Themes!ThemeSteps
  BY <1>3, ImportSourceMoves, ImportMembersMoves, SaveDefinitionMoves, ReadMembershipsMoves,
     SaveSnapshotRowMoves DEF Themes!ThemeSteps
<1> QED BY <1>1, <1>2, <1>3 DEF Themes!ThemeNext

LEMMA ThemeAtWork ==
  ASSUME [Next]_rows
  PROVE  [Themes!ThemeNext]_Themes!themeVars
<1>1. CASE Only("themes") /\ Themes!ThemeNext
  BY <1>1
<1>2. CASE UNCHANGED themesRows
  BY <1>2 DEF themesRows, Themes!themeVars
<1> QED BY <1>1, <1>2 DEF Next, Only, rows

\* As long as nothing that could be known at the cutoff of a snapshot is imported
\* after it was begun, its three reads and its date and cutoff asked again give one
\* definition and one universe, whatever is imported in between (themes/service.py:93).
THEOREM SnapshotsRemade == Spec => []SnapshotsReproducible
<1>1. Init => ThemeInv
  <2> SUFFICES ASSUME Init PROVE ThemeInv
    OBVIOUS
  <2>1. ThemeTypes
    BY DEF Init, Themes!ThemeInit, ThemeTypes, SourcesTyped, MembersTyped, DeskTypes, IsOn
  <2>2. fresh = {} /\ universes = {} /\ \A t \in Desks : desk[t].pc = "idle"
    BY DEF Init, Themes!ThemeInit, Themes!AtRest
  <2> QED BY <2>1, <2>2 DEF ThemeInv
<1>2. ThemeInv /\ [Next]_rows => ThemeInv'
  BY ThemeAtWork, ThemeStep
<1>3. ThemeInv => SnapshotsReproducible
  <2> SUFFICES ASSUME ThemeInv, NEW s \in universes, Kept(s) \in fresh
               PROVE  /\ s.universe = Themes!Universe(Themes!ListMemberships(s.day, s.cutoff), s.cutoff)
                      /\ s.definition = Themes!LatestDefinition(s.day, s.cutoff).id
    BY DEF SnapshotsReproducible, Themes!SnapshotsReproducible, Kept
  <2> QED BY DEF ThemeInv, Reproduced, Defined
<1> QED BY <1>1, <1>2, <1>3, PTL DEF Spec

-----------------------------------------------------------------------------
(* SourceQueue: SourceQueueProofs has the argument; its instance for the   *)
(* analysts of the workbench has the same actions.                         *)

Analysis == INSTANCE SourceQueueProofs WITH
  Users <- Analysts, MaxRequests <- MaxAsked, pc <- user, mem <- local, requests <- asked

LEMMA SameAssumptions ==
  Analysis!NamesAssumption /\ Analysis!SourcesAssumption /\ Analysis!QueueBounds
BY WorkbenchAssumption DEF Queue!NamesAssumption, Queue!SourcesAssumption, Queue!QueueBounds,
   Analysis!NamesAssumption, Analysis!SourcesAssumption, Analysis!QueueBounds

LEMMA SameValues ==
  /\ Queue!Absent = Analysis!Absent /\ Queue!NoEvidence = Analysis!NoEvidence
  /\ Queue!EmptyLedger = Analysis!EmptyLedger /\ Queue!Blank = Analysis!Blank
BY DEF Queue!Absent, Analysis!Absent, Queue!NoEvidence, Analysis!NoEvidence, Queue!EmptyLedger,
   Analysis!EmptyLedger, Queue!Blank, Analysis!Blank

LEMMA SameMoves ==
  ASSUME NEW t, NEW label, NEW m, NEW r, NEW out
  PROVE  /\ Queue!Goto(t, label, m) <=> Analysis!Goto(t, label, m)
         /\ Queue!Request(t, label, m) <=> Analysis!Request(t, label, m)
         /\ Queue!Return(t, out) <=> Analysis!Return(t, out)
         /\ Queue!Saves(t, r, label, m) <=> Analysis!Saves(t, r, label, m)
<1>1. Queue!Goto(t, label, m) <=> Analysis!Goto(t, label, m)
  BY DEF Queue!Goto, Analysis!Goto
<1>2. Queue!Request(t, label, m) <=> Analysis!Request(t, label, m)
  BY <1>1 DEF Queue!Request, Analysis!Request
<1>3. Queue!Return(t, out) <=> Analysis!Return(t, out)
  BY SameValues DEF Queue!Return, Analysis!Return, Queue!Goto, Analysis!Goto
<1>4. Queue!Saves(t, r, label, m) <=> Analysis!Saves(t, r, label, m)
  <2>1. Queue!Return(t, "raised") <=> Analysis!Return(t, "raised")
    BY SameValues DEF Queue!Return, Analysis!Return, Queue!Goto, Analysis!Goto
  <2> QED BY <1>1, <2>1 DEF Queue!Saves, Analysis!Saves, Queue!ByUrl, Analysis!ByUrl
<1> QED BY <1>1, <1>2, <1>3, <1>4

LEMMA SameSuggesting ==
  ASSUME NEW t, NEW s
  PROVE  /\ Queue!Suggest(t, s) => Analysis!Suggest(t, s)
         /\ Queue!Discover(t) => Analysis!Discover(t)
         /\ Queue!DiscoverFails(t) => Analysis!DiscoverFails(t)
         /\ Queue!FindByUrl(t) => Analysis!FindByUrl(t)
         /\ Queue!Add(t) => Analysis!Add(t)
         /\ Queue!Record(t) => Analysis!Record(t)
<1>1. Queue!Suggest(t, s) => Analysis!Suggest(t, s)
  BY SameMoves, SameValues DEF Queue!Suggest, Analysis!Suggest
<1>2. Queue!Discover(t) => Analysis!Discover(t)
  BY SameMoves DEF Queue!Discover, Analysis!Discover
<1>3. Queue!DiscoverFails(t) => Analysis!DiscoverFails(t)
  BY SameMoves DEF Queue!DiscoverFails, Analysis!DiscoverFails
<1>4. Queue!FindByUrl(t) => Analysis!FindByUrl(t)
  BY SameMoves DEF Queue!FindByUrl, Analysis!FindByUrl, Queue!ByUrl, Analysis!ByUrl
<1>5. Queue!Add(t) => Analysis!Add(t)
  BY SameMoves, SameValues DEF Queue!Add, Analysis!Add
<1>6. Queue!Record(t) => Analysis!Record(t)
  BY SameMoves DEF Queue!Record, Analysis!Record
<1> QED BY <1>1, <1>2, <1>3, <1>4, <1>5, <1>6

LEMMA SameCapturing ==
  ASSUME NEW t, NEW s, NEW retry, NEW content, NEW final
  PROVE  /\ Queue!Capture(t, s, retry) => Analysis!Capture(t, s, retry)
         /\ Queue!Select(t) => Analysis!Select(t)
         /\ Queue!Pend(t) => Analysis!Pend(t)
         /\ Queue!Collect(t, content) => Analysis!Collect(t, content)
         /\ Queue!Match(t, final) => Analysis!Match(t, final)
         /\ Queue!CaptureFails(t) => Analysis!CaptureFails(t)
         /\ Queue!Fail(t) => Analysis!Fail(t)
<1>1. Queue!Capture(t, s, retry) => Analysis!Capture(t, s, retry)
  BY SameMoves, SameValues DEF Queue!Capture, Analysis!Capture, Queue!Capturable, Analysis!Capturable
<1>2. Queue!Select(t) => Analysis!Select(t)
  BY SameMoves DEF Queue!Select, Analysis!Select
<1>3. Queue!Pend(t) => Analysis!Pend(t)
  BY SameMoves DEF Queue!Pend, Analysis!Pend
<1>4. Queue!Collect(t, content) => Analysis!Collect(t, content)
  BY SameMoves DEF Queue!Collect, Analysis!Collect
<1>5. Queue!Match(t, final) => Analysis!Match(t, final)
  BY SameMoves, SameValues DEF Queue!Match, Analysis!Match, Queue!ByUrl, Analysis!ByUrl,
     Queue!SameBytes, Analysis!SameBytes, Queue!Outcome, Analysis!Outcome
<1>6. Queue!CaptureFails(t) => Analysis!CaptureFails(t)
  BY SameMoves DEF Queue!CaptureFails, Analysis!CaptureFails
<1>7. Queue!Fail(t) => Analysis!Fail(t)
  BY SameMoves, SameValues DEF Queue!Fail, Analysis!Fail
<1> QED BY <1>1, <1>2, <1>3, <1>4, <1>5, <1>6, <1>7

LEMMA SameAttaching ==
  ASSUME NEW t
  PROVE  /\ Queue!AttachLoad(t) => Analysis!AttachLoad(t)
         /\ Queue!AttachSave(t) => Analysis!AttachSave(t)
         /\ Queue!Finish(t) => Analysis!Finish(t)
         /\ Queue!Events(t) => Analysis!Events(t)
         /\ Queue!EventsFail(t) => Analysis!EventsFail(t)
         /\ Queue!SaveNote(t) => Analysis!SaveNote(t)
<1>1. Queue!AttachLoad(t) => Analysis!AttachLoad(t)
  BY SameMoves DEF Queue!AttachLoad, Analysis!AttachLoad
<1>2. Queue!AttachSave(t) => Analysis!AttachSave(t)
  BY SameMoves DEF Queue!AttachSave, Analysis!AttachSave, Queue!Outcome, Analysis!Outcome
<1>3. Queue!Finish(t) => Analysis!Finish(t)
  BY SameMoves DEF Queue!Finish, Analysis!Finish
<1>4. Queue!Events(t) => Analysis!Events(t)
  BY SameMoves DEF Queue!Events, Analysis!Events
<1>5. Queue!EventsFail(t) => Analysis!EventsFail(t)
  BY SameMoves DEF Queue!EventsFail, Analysis!EventsFail
<1>6. Queue!SaveNote(t) => Analysis!SaveNote(t)
  BY SameMoves DEF Queue!SaveNote, Analysis!SaveNote
<1> QED BY <1>1, <1>2, <1>3, <1>4, <1>5, <1>6

LEMMA SameDeciding ==
  ASSUME NEW t, NEW s, NEW approve
  PROVE  /\ Queue!Dismiss(t, s) => Analysis!Dismiss(t, s)
         /\ Queue!SaveDismissed(t) => Analysis!SaveDismissed(t)
         /\ Queue!Review(t, s, approve) => Analysis!Review(t, s, approve)
         /\ Queue!SaveReview(t) => Analysis!SaveReview(t)
         /\ Queue!Crash(t) => Analysis!Crash(t)
<1>1. Queue!Dismiss(t, s) => Analysis!Dismiss(t, s)
  BY SameMoves, SameValues DEF Queue!Dismiss, Analysis!Dismiss, Queue!Dismissal, Analysis!Dismissal
<1>2. Queue!SaveDismissed(t) => Analysis!SaveDismissed(t)
  BY SameMoves, SameValues DEF Queue!SaveDismissed, Analysis!SaveDismissed
<1>3. Queue!Review(t, s, approve) => Analysis!Review(t, s, approve)
  BY SameMoves, SameValues DEF Queue!Review, Analysis!Review
<1>4. Queue!SaveReview(t) => Analysis!SaveReview(t)
  BY SameMoves DEF Queue!SaveReview, Analysis!SaveReview
<1>5. Queue!Crash(t) => Analysis!Crash(t)
  BY SameMoves, SameValues DEF Queue!Crash, Analysis!Crash
<1> QED BY <1>1, <1>2, <1>3, <1>4, <1>5

LEMMA QueueAtWork ==
  ASSUME [Next]_rows
  PROVE  [Analysis!QueueNext]_Analysis!queueVars
<1>1. CASE Queue!QueueNext
  <2>1. PICK t \in Analysts : \/ (Queue!Proceed(t) \/ Queue!Crash(t)) /\ UNCHANGED asked
                              \/ Queue!Ask(t) /\ Queue!Counted
    BY <1>1 DEF Queue!QueueNext
  <2>2. CASE Queue!Proceed(t) /\ UNCHANGED asked
    <3>1. Analysis!Proceed(t)
      BY <2>2, SameSuggesting, SameCapturing, SameAttaching, SameDeciding
         DEF Queue!Proceed, Analysis!Proceed
    <3> QED BY <2>2, <3>1 DEF Analysis!QueueNext
  <2>3. CASE Queue!Crash(t) /\ UNCHANGED asked
    BY <2>3, SameDeciding DEF Analysis!QueueNext
  <2>4. CASE Queue!Ask(t) /\ Queue!Counted
    <3>1. Analysis!Ask(t)
      BY <2>4, SameSuggesting, SameCapturing, SameDeciding DEF Queue!Ask, Analysis!Ask
    <3>2. Analysis!Counted
      BY <2>4 DEF Queue!Counted, Analysis!Counted
    <3> QED BY <3>1, <3>2 DEF Analysis!QueueNext
  <2> QED BY <2>1, <2>2, <2>3, <2>4
<1>2. CASE UNCHANGED queueRows
  BY <1>2 DEF queueRows, Analysis!queueVars
<1> QED BY <1>1, <1>2 DEF Next, Only, rows

\* A user at a time: a captured suggestion, or a duplicate of one, names Evidence the
\* run has, because the run is saved before the row (sources/service.py:206); two users
\* may save stale copies of the run over each other's Evidence.
THEOREM CapturesFound ==
  ASSUME \A t, u \in Analysts : t = u
  PROVE  Spec => []CapturedHasEvidence
<1>1. Analysis!Lone
  BY DEF Analysis!Lone
<1>2. Init => Analysis!LoneInv
  <2> SUFFICES ASSUME Init PROVE Analysis!LoneInv
    OBVIOUS
  <2>1. Analysis!QueueInit
    BY SameValues DEF Init, Queue!QueueInit, Analysis!QueueInit
  <2> QED BY <2>1, SameAssumptions, Analysis!LoneInitial
<1>3. Analysis!LoneInv /\ [Next]_rows => Analysis!LoneInv'
  BY <1>1, QueueAtWork, SameAssumptions, Analysis!LoneInductive
<1>4. Analysis!LoneInv => CapturedHasEvidence
  <2> SUFFICES ASSUME Analysis!LoneInv PROVE Queue!CapturedHasEvidence
    BY DEF CapturedHasEvidence
  <2>1. Analysis!CapturedHasEvidence
    BY SameAssumptions, Analysis!LoneCaptured
  <2> QED BY <2>1, SameValues DEF Queue!CapturedHasEvidence, Analysis!CapturedHasEvidence
<1> QED BY <1>2, <1>3, <1>4, PTL DEF Spec
=============================================================================
