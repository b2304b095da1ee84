------------------------ MODULE ResearchBridgeProofs -----------------------
(***************************************************************************)
(* Theorems about ResearchBridge, for every set of users, sources, URLs,   *)
(* contents, signals and tasks, whatever requests overlap or crash: what   *)
(* is linked, a human approved; and, alone, what a task and a link mean.   *)
(***************************************************************************)
EXTENDS MCResearchBridge, SourceQueueProofs

\* Where the queue is while an operation of the bridge waits for it.
Suggesting == {"discover", "find", "add", "record", "idle"}
Capturing == (Holding \ {"dismiss"}) \cup {"idle"}

Linking(j, made) == \E l \in made : l.signal = j.row.signal

\* What a thread's local variables say at each point of its bridge operation.
Suits(label, queueLabel, m, j, agreed, made) ==
  /\ label = "suggested" => queueLabel \in Suggesting /\ m.source \in Sources
  /\ label = "outcome" => /\ queueLabel \in Capturing
                          /\ (queueLabel = "idle" /\ m.out = "ok") =>
                               m.row.status \in {"captured", "duplicate"}
  /\ label \in {"approved", "rejected"} => queueLabel \in {"review", "idle"}
  /\ label \in {"bind", "create", "append", "pend", "capture", "remaining", "link", "linked"}
       => queueLabel = "idle"
  /\ label \notin {"idle", "create"} => j.task \in Tasks
  /\ label # "idle" => j.row.signal \in Signals
  /\ label \in {"pend", "capture", "outcome"} => j.row.source \in Sources /\ j.row.bound
  /\ label \in {"approved", "rejected", "link", "linked"} => j.row.evidence \in Sources
  /\ label \in {"link", "linked"} => j.hash \in Contents /\ <<j.row.evidence, j.hash>> \in agreed
  /\ label = "create" => j.state # "evidence_linked"
  /\ (label = "linked" \/ (label = "append" /\ j.state = "evidence_linked")) => Linking(j, made)

\* A task without a status is no task.
RealTask(row) == row.status = "absent" => row = NoTask

BInv == /\ QInv /\ TypeOK /\ LinkIsApproved /\ LinkedSignalHasLink
        /\ \A k \in Tasks : RealTask(tasks[k])
        /\ \A t \in Users : Suits(at[t], pc[t], mem[t], job[t], approved, links)

\* Thread t goes on with its bridge operation, as its variables should say.
Went(t) == \E label \in Labels, j \in Jobs :
             Resume(t, label, j) /\ Suits(label, pc'[t], mem'[t], j, approved', links')

LEMMA SignalNames == "none" \notin Signals /\ "none" \notin Tasks
  BY BridgeNames

-----------------------------------------------------------------------------
(* The bridge                                                              *)

LEMMA GotoApart ==
  ASSUME QInv, NEW t \in Users, NEW label, NEW m, Goto(t, label, m), approved \subseteq approved'
  PROVE  Apart(t) /\ pc'[t] = label /\ mem'[t] = m
  BY DEF Apart, Goto, QInv, QueueTypeOK

LEMMA ReturnGoes ==
  ASSUME QInv, NEW t \in Users, NEW out, Return(t, out)
  PROVE  /\ \A u \in Users \ {t} : pc'[u] = pc[u] /\ mem'[u] = mem[u]
         /\ pc'[t] = "idle" /\ mem'[t].out = out
         /\ mem'[t].source = mem[t].source /\ mem'[t].row = mem[t].row
  BY DEF Return, Goto, Blank, QInv, QueueTypeOK

\* A row is saved, or the request ends with a store error.
LEMMA SavesGoes ==
  ASSUME QInv, NEW t \in Users, NEW row, NEW label, NEW m, Saves(t, row, label, m)
  PROVE  /\ \A u \in Users \ {t} : pc'[u] = pc[u] /\ mem'[u] = mem[u]
         /\ \/ pc'[t] = label /\ mem'[t] = m
            \/ pc'[t] = "idle" /\ mem'[t].out = "raised" /\ mem'[t].source = mem[t].source
<1>1. CASE Goto(t, label, m)
  BY <1>1 DEF Goto, QInv, QueueTypeOK
<1>2. CASE Return(t, "raised")
  BY <1>2, ReturnGoes
<1> QED BY <1>1, <1>2 DEF Saves

\* How a step of the queue moves its thread: on the way of a suggestion the
\* source stays one, a capture ends with an outcome or without success, and a
\* decision ends.
LEMMA ProceedGoes ==
  ASSUME QInv, NEW t \in Users, Proceed(t)
  PROVE  /\ Apart(t) /\ pc[t] # "idle"
         /\ pc[t] \in Suggesting => pc'[t] \in Suggesting /\ mem'[t].source \in Sources
         /\ pc[t] \in Capturing => /\ pc'[t] \in Capturing
                                   /\ (pc'[t] = "idle" /\ mem'[t].out = "ok") =>
                                        mem'[t].row.status \in {"captured", "duplicate"}
         /\ pc[t] = "review" => pc'[t] = "idle"
<1> PICK m \in Locals, label \in PCs : m = mem[t] /\ label = pc[t] /\ Fits(label, m, approved)
  BY Typed
<1> USE DEF Suggesting, Capturing, Holding, Apart
<1>1. CASE Discover(t)
  BY <1>1, GotoApart DEF Discover, Fits
<1>2. CASE DiscoverFails(t)
  BY <1>2, ReturnGoes DEF DiscoverFails, Fits
<1>3. CASE FindByUrl(t)
  <2>1. Goto(t, "add", m) \/ \E s \in Sources : Goto(t, "add", [m EXCEPT !.source = s, !.row = queue[s]])
    BY <1>3 DEF FindByUrl, ByUrl
  <2>2. pc'[t] = "add" /\ mem'[t].source \in Sources
    <3>1. CASE Goto(t, "add", m)
      BY <1>3, <3>1 DEF Fits, Goto, QInv, QueueTypeOK, FindByUrl
    <3>2. CASE \E s \in Sources : Goto(t, "add", [m EXCEPT !.source = s, !.row = queue[s]])
      <4> PICK s \in Sources : Goto(t, "add", [m EXCEPT !.source = s, !.row = queue[s]])
        BY <3>2
      <4> PICK n : n = [m EXCEPT !.source = s, !.row = queue[s]] /\ Goto(t, "add", n)
        OBVIOUS
      <4>1. n.source = s
        BY DEF Locals
      <4> QED BY <4>1 DEF Goto, QInv, QueueTypeOK
    <3> QED BY <2>1, <3>1, <3>2
  <2>3. Apart(t)
    BY <1>3, <2>1 DEF Goto, QInv, QueueTypeOK, FindByUrl
  <2> QED BY <1>3, <2>2, <2>3 DEF FindByUrl
<1>4. CASE Add(t)
  <2> DEFINE new == [Absent EXCEPT !.status = "suggested", !.url = UrlOf[m.source]]
  <2> PICK n : n = [m EXCEPT !.row = new]
    OBVIOUS
  <2>1. m.source \in Sources /\ n.source = m.source
    BY <1>4 DEF Fits, Locals, Add
  <2>2. \/ Saves(t, m.row, "record", m) \/ Saves(t, new, "record", n)
        \/ Return(t, "raised")
    BY <1>4 DEF Add
  <2> HIDE DEF new
  <2>3. /\ \A u \in Users \ {t} : pc'[u] = pc[u] /\ mem'[u] = mem[u]
        /\ pc'[t] \in {"record", "idle"} /\ mem'[t].source = m.source
    <3>1. CASE Saves(t, m.row, "record", m)
      BY <3>1, SavesGoes
    <3>2. CASE Saves(t, new, "record", n)
      <4>1. CASE Goto(t, "record", n)
        BY <2>1, <4>1 DEF Goto, QInv, QueueTypeOK
      <4>2. CASE Return(t, "raised")
        BY <4>2, ReturnGoes
      <4> QED BY <3>2, <4>1, <4>2 DEF Saves
    <3>3. CASE Return(t, "raised")
      BY <3>3, ReturnGoes
    <3> QED BY <2>2, <3>1, <3>2, <3>3
  <2> QED BY <1>4, <2>1, <2>3 DEF Add
<1>5. CASE Record(t)
  BY <1>5, ReturnGoes DEF Record, Fits
<1>6. CASE Select(t)
  BY <1>6, SavesGoes DEF Select
<1>7. CASE Pend(t)
  BY <1>7, SavesGoes DEF Pend
<1>8. CASE \E content \in Contents : Collect(t, content)
  BY <1>8, GotoApart DEF Collect
<1>9. CASE \E final \in Urls : Match(t, final)
  BY <1>9 DEF Match, Goto, QInv, QueueTypeOK
<1>10. CASE AttachLoad(t)
  BY <1>10, GotoApart DEF AttachLoad
<1>11. CASE AttachSave(t)
  BY <1>11, GotoApart DEF AttachSave
<1>12. CASE Finish(t)
  BY <1>12, SavesGoes DEF Finish
<1>13. CASE Events(t)
  BY <1>13, ReturnGoes DEF Events, Fits, Settled
<1>14. CASE EventsFail(t)
  BY <1>14, GotoApart DEF EventsFail
<1>15. CASE SaveNote(t)
  BY <1>15, ReturnGoes DEF SaveNote, Fits, Settled
<1>16. CASE CaptureFails(t)
  BY <1>16, GotoApart DEF CaptureFails
<1>17. CASE Fail(t)
  <2> PICK n : n = [Blank EXCEPT !.out = "error", !.source = m.source, !.row = m.row]
    OBVIOUS
  <2>1. n.out = "error" /\ Saves(t, m.row, "idle", n)
    BY <1>17 DEF Fail, Blank
  <2>2. /\ \A u \in Users \ {t} : pc'[u] = pc[u] /\ mem'[u] = mem[u]
        /\ pc'[t] = "idle" /\ mem'[t].out # "ok"
    <3>1. CASE Goto(t, "idle", n)
      BY <2>1, <3>1 DEF Goto, QInv, QueueTypeOK
    <3>2. CASE Return(t, "raised")
      BY <3>2, ReturnGoes
    <3> QED BY <2>1, <3>1, <3>2 DEF Saves
  <2> QED BY <1>17, <2>2 DEF Fail
<1>18. CASE SaveDismissed(t)
  <2> PICK n : n = [Blank EXCEPT !.out = "ok", !.source = m.source, !.row = m.row]
    OBVIOUS
  <2>1. Saves(t, m.row, "idle", n)
    BY <1>18 DEF SaveDismissed
  <2> QED BY <1>18, <2>1, SavesGoes DEF SaveDismissed
<1>19. CASE SaveReview(t)
  BY <1>19, ReturnGoes DEF SaveReview
<1> QED BY <1>1, <1>2, <1>3, <1>4, <1>5, <1>6, <1>7, <1>8, <1>9, <1>10, <1>11, <1>12, <1>13,
           <1>14, <1>15, <1>16, <1>17, <1>18, <1>19 DEF Proceed

\* What thread t is in, between two steps.
LEMMA BridgeTyped ==
  ASSUME BInv, NEW t \in Users
  PROVE  /\ QInv /\ at[t] \in Labels /\ job[t] \in Jobs
         /\ Suits(at[t], pc[t], mem[t], job[t], approved, links)
  BY DEF BInv, TypeOK

\* The tasks, the links and the states of the signals, as BInv has them.
TasksOK == tasks \in [Tasks -> TaskRows] /\ \A k \in Tasks : RealTask(tasks[k])
LinksOK == links \subseteq Links /\ LinkIsApproved
StatesOK == state \in [Signals -> States] /\ LinkedSignalHasLink

LEMMA BridgeStep ==
  ASSUME BInv, QInv', NEW t \in Users, Apart(t), Went(t), TasksOK', LinksOK', StatesOK',
         links \subseteq links'
  PROVE  BInv'
<1> PICK label \in Labels, j \in Jobs :
       Resume(t, label, j) /\ Suits(label, pc'[t], mem'[t], j, approved', links')
  BY DEF Went
<1>1. at' \in [Users -> Labels] /\ job' \in [Users -> Jobs]
  BY DEF BInv, TypeOK, Resume
<1>2. \A u \in Users : Suits(at'[u], pc'[u], mem'[u], job'[u], approved', links')
  <2> TAKE u \in Users
  <2>1. CASE u = t
    BY <2>1 DEF BInv, TypeOK, Resume
  <2>2. CASE u # t
    <3>1. /\ at'[u] = at[u] /\ job'[u] = job[u]
          /\ pc'[u] = pc[u] /\ mem'[u] = mem[u] /\ approved \subseteq approved'
      BY <2>2 DEF BInv, TypeOK, Resume, Apart
    <3>2. Suits(at[u], pc[u], mem[u], job[u], approved, links)
      BY DEF BInv
    <3> QED BY <3>1, <3>2 DEF Suits, Linking
  <2> QED BY <2>1, <2>2
<1> QED BY <1>1, <1>2 DEF BInv, TypeOK, QInv, TasksOK, LinksOK, StatesOK

\* What is as BInv has it when a step leaves it alone; more approvals and more
\* links do no harm.
LEMMA SameTasks == ASSUME BInv, UNCHANGED tasks PROVE TasksOK'
  BY DEF BInv, TypeOK, TasksOK, RealTask
LEMMA SameLinks == ASSUME BInv, UNCHANGED links, approved \subseteq approved'
                   PROVE  LinksOK' /\ links \subseteq links'
  BY DEF BInv, TypeOK, LinksOK, LinkIsApproved
LEMMA SameStates == ASSUME BInv, UNCHANGED state, links \subseteq links' PROVE StatesOK'
  BY DEF BInv, TypeOK, StatesOK, LinkedSignalHasLink

LEMMA QueueWaits ==
  ASSUME BInv, NEW t \in Users, QueueUnchanged, UNCHANGED requests \/ Counted
  PROVE  QInv' /\ Apart(t) /\ approved \subseteq approved' /\ pc' = pc /\ mem' = mem
<1>1. requests' \in 0..MaxRequests
  BY CountedTyped, SameRest DEF BInv
<1>2. QInv'
  BY <1>1 DEF QueueUnchanged, BInv, QInv, QueueTypeOK, WellFormed, ReviewedIsApproved, Fits
<1> QED BY <1>2 DEF QueueUnchanged, Apart

\* An operation that ends leaves nothing to say of its variables.
LEMMA EndWent == ASSUME NEW t \in Users, End(t) PROVE Went(t)
<1>1. NoJob \in Jobs /\ "idle" \in Labels
  BY DEF NoJob, Jobs, NoTask, TaskRows, TaskStatuses, States, Labels
<1>2. Suits("idle", pc'[t], mem'[t], NoJob, approved', links')
  BY DEF Suits
<1> QED BY <1>1, <1>2 DEF Went, End

\* Steps that only move the thread, that also save a task, or its links.
LEMMA GoesOnly ==
  ASSUME BInv, NEW t \in Users, Went(t), QueueUnchanged, UNCHANGED requests \/ Counted,
         UNCHANGED <<tasks, links, state>>
  PROVE  BInv'
  BY QueueWaits, SameTasks, SameLinks, SameStates, BridgeStep

LEMMA GoesTask ==
  ASSUME BInv, NEW t \in Users, Went(t), QueueUnchanged, UNCHANGED requests \/ Counted,
         NEW k \in Tasks, NEW row \in TaskRows, row.status # "absent", SaveTask(k, row),
         UNCHANGED <<links, state>>
  PROVE  BInv'
<1>1. TasksOK'
  BY DEF BInv, TypeOK, TasksOK, SaveTask, RealTask
<1> QED BY <1>1, QueueWaits, SameLinks, SameStates, BridgeStep

\* A request in which the queue works too.
LEMMA GoesQueue ==
  ASSUME BInv, QInv', NEW t \in Users, Went(t), Apart(t), UNCHANGED <<tasks, links, state>>
  PROVE  BInv'
  BY SameTasks, SameLinks, SameStates, BridgeStep DEF Apart

\* A task of the database.
LEMMA TaskRow ==
  ASSUME BInv, NEW k \in Tasks, tasks[k].status # "absent" \/ tasks[k].evidence # "none"
  PROVE  /\ tasks[k] \in TaskRows /\ tasks[k].status # "absent" /\ tasks[k].signal \in Signals
         /\ tasks[k].evidence # "none" => /\ tasks[k].evidence \in Sources
                                         /\ tasks[k].source \in Sources /\ tasks[k].bound
  BY DEF BInv, TypeOK, RealTask, NoTask, TaskRows

LEMMA ReuseStep ==
  ASSUME BInv, NEW t \in Users, NEW s \in Signals, NEW bound \in BOOLEAN, Reuse(t, s, bound)
  PROVE  BInv'
<1> PICK k \in Open(s) : /\ ~tasks[k].bound
                         /\ Resume(t, "bind", [NoJob EXCEPT !.task = k,
                                               !.row = [tasks[k] EXCEPT !.bound = TRUE]])
  BY DEF Reuse
<1>1. /\ k \in Tasks /\ tasks[k] \in TaskRows
      /\ tasks[k].status # "absent" /\ tasks[k].signal \in Signals
  BY TaskRow DEF Open, OPEN_VERIFICATION_STATES
<1> PICK row \in TaskRows : row = [tasks[k] EXCEPT !.bound = TRUE]
  BY <1>1 DEF TaskRows
<1> DEFINE j == [NoJob EXCEPT !.task = k, !.row = row]
<1>2. j \in Jobs /\ j.task = k /\ j.row.signal \in Signals
  BY <1>1 DEF NoJob, Jobs, States, TaskRows
<1> HIDE DEF j
<1>3. Suits("bind", pc'[t], mem'[t], j, approved', links')
  BY <1>1, <1>2 DEF Suits, Reuse, Free, QueueUnchanged
<1>4. Resume(t, "bind", j)
  BY DEF j
<1>5. Went(t)
  BY <1>2, <1>3, <1>4 DEF Went, Labels
<1> QED BY <1>5, GoesOnly DEF Reuse, Free

LEMMA SaveBoundStep == ASSUME BInv, NEW t \in Users, SaveBound(t) PROVE BInv'
<1> PICK j \in Jobs : j = job[t] /\ Suits("bind", pc[t], mem[t], j, approved, links)
  BY BridgeTyped DEF SaveBound, At
<1>1. j.task \in Tasks /\ j.row \in TaskRows /\ j.row.status # "absent"
  BY SignalNames DEF Suits, Jobs, TaskRows
<1>2. SaveTask(j.task, j.row)
  BY DEF SaveBound
<1> QED BY <1>1, <1>2, GoesTask, EndWent DEF SaveBound, At

LEMMA CreateStep ==
  ASSUME BInv, NEW t \in Users, NEW s \in Signals, NEW bound \in BOOLEAN, Create(t, s, bound)
  PROVE  BInv'
<1> DEFINE row == [NoTask EXCEPT !.signal = s, !.status = "pending", !.bound = bound]
           j == [NoJob EXCEPT !.row = row, !.state = "official_source_pending"]
<1>1. row \in TaskRows /\ row.signal = s
  BY SignalNames DEF NoTask, TaskRows, TaskStatuses
<1> HIDE DEF row
<1>2. j \in Jobs /\ j.row = row /\ j.state = "official_source_pending"
  BY <1>1 DEF NoJob, Jobs, States
<1> HIDE DEF j
<1>3. Suits("create", pc'[t], mem'[t], j, approved', links')
  BY <1>1, <1>2 DEF Suits, Create, Free, QueueUnchanged
<1>4. Resume(t, "create", j)
  BY DEF Create, j, row
<1>5. Went(t)
  BY <1>2, <1>3, <1>4 DEF Went, Labels
<1> QED BY <1>5, GoesOnly DEF Create, Free

\* A row being created has a signal, so it has a status.
LEMMA SaveCreatedStep == ASSUME BInv, NEW t \in Users, SaveCreated(t) PROVE BInv'
<1> PICK j \in Jobs : j = job[t] /\ Suits("create", pc[t], mem[t], j, approved, links)
  BY BridgeTyped DEF SaveCreated, At
<1> PICK k \in Tasks : SaveTask(k, j.row) /\ Resume(t, "append", [j EXCEPT !.task = k])
  BY DEF SaveCreated
<1>1. j.row \in TaskRows /\ j.row.status # "absent" /\ j.row.signal \in Signals
  BY SignalNames DEF Suits, Jobs, TaskRows
<1>2. j.state # "evidence_linked" \/ Linking(j, links)
  BY DEF Suits
<1> DEFINE n == [j EXCEPT !.task = k]
<1>3. n \in Jobs /\ n.task = k /\ n.row = j.row /\ n.state = j.state
  BY DEF Jobs
<1> HIDE DEF n
<1>4. Suits("append", pc'[t], mem'[t], n, approved', links')
  BY <1>1, <1>2, <1>3 DEF Suits, Linking, SaveCreated, At, QueueUnchanged
<1>5. Went(t)
  BY <1>3, <1>4 DEF Went, Labels, n
<1> QED BY <1>1, <1>5, GoesTask DEF SaveCreated, At

\* A signal becomes evidence_linked once its link is there.
LEMMA AppendSignalStateStep == ASSUME BInv, NEW t \in Users, AppendSignalState(t) PROVE BInv'
<1> PICK j \in Jobs : j = job[t] /\ Suits("append", pc[t], mem[t], j, approved, links)
  BY BridgeTyped DEF AppendSignalState, At
<1>1. /\ j.row.signal \in Signals /\ j.state \in States
      /\ j.state = "evidence_linked" => \E l \in links : l.signal = j.row.signal
  BY DEF Suits, Jobs, Linking
<1>2. StatesOK'
  BY <1>1 DEF StatesOK, AppendSignalState, BInv, TypeOK, LinkedSignalHasLink
<1> QED BY <1>2, EndWent, QueueWaits, SameTasks, SameLinks, BridgeStep DEF AppendSignalState, At

LEMMA AddOfficialSourceStep ==
  ASSUME BInv, NEW t \in Users, NEW k \in Tasks, NEW s \in Sources, AddOfficialSource(t, k, s)
  PROVE  BInv'
<1>1. tasks[k] \in TaskRows /\ tasks[k].signal \in Signals
  BY TaskRow DEF AddOfficialSource
<1> PICK row \in TaskRows : row = tasks[k]
  BY <1>1
<1> DEFINE j == [NoJob EXCEPT !.task = k, !.row = row]
<1>2. j \in Jobs /\ j.task = k /\ j.row = row
  BY DEF NoJob, Jobs, States
<1> HIDE DEF j
<1>3. Apart(t) /\ pc'[t] \in {"discover", "find"} /\ mem'[t].source = s
  <2> PICK n : n = [Blank EXCEPT !.source = s, !.run = ledger]
    OBVIOUS
  <2>1. n.source = s
    BY DEF Blank
  <2>2. Goto(t, "discover", n) \/ Goto(t, "find", n)
    BY DEF AddOfficialSource, Suggest, Request
  <2>3. UNCHANGED approved
    BY DEF AddOfficialSource, Suggest
  <2> QED BY <2>1, <2>2, <2>3 DEF Goto, Apart, BInv, QInv, QueueTypeOK
<1>4. Suits("suggested", pc'[t], mem'[t], j, approved', links')
  BY <1>1, <1>2, <1>3 DEF Suits, Suggesting
<1>5. Went(t)
  BY <1>2, <1>4 DEF Went, Labels, AddOfficialSource, j
<1>6. QInv'
  BY SuggestStep, CountedTyped DEF AddOfficialSource, Free, BInv
<1> QED BY <1>3, <1>5, <1>6, GoesQueue DEF AddOfficialSource

LEMMA SaveSuggestedStep == ASSUME BInv, NEW t \in Users, SaveSuggested(t) PROVE BInv'
<1> PICK j \in Jobs : j = job[t] /\ Suits("suggested", pc[t], mem[t], j, approved, links)
  BY BridgeTyped DEF SaveSuggested, At
<1>1. j.task \in Tasks /\ j.row \in TaskRows /\ j.row.signal \in Signals /\ mem[t].source \in Sources
  BY DEF Suits, Jobs
<1>2. CASE mem[t].out = "ok"
  <2> PICK s \in Sources : s = mem[t].source
    BY <1>1
  <2> DEFINE row == [j.row EXCEPT !.bound = TRUE, !.source = s, !.status = "source_suggested"]
  <2>1. row \in TaskRows /\ row.status # "absent"
    BY <1>1, SignalNames, Names DEF TaskRows, TaskStatuses
  <2>2. SaveTask(j.task, row)
    BY <1>2 DEF SaveSuggested
  <2> HIDE DEF row
  <2> QED BY <1>1, <2>1, <2>2, GoesTask, EndWent DEF SaveSuggested, At
<1>3. CASE mem[t].out # "ok"
  BY <1>3, GoesOnly, EndWent DEF SaveSuggested, At
<1> QED BY <1>2, <1>3

LEMMA CaptureTaskSourceStep ==
  ASSUME BInv, NEW t \in Users, NEW k \in Tasks, CaptureTaskSource(t, k)
  PROVE  BInv'
<1>1. tasks[k] \in TaskRows /\ tasks[k].signal \in Signals
  BY TaskRow DEF CaptureTaskSource
<1> PICK row \in TaskRows : row = tasks[k]
  BY <1>1
<1>2. row.source \in Sources /\ row.bound
  BY DEF CaptureTaskSource, TaskRows
<1> DEFINE j == [NoJob EXCEPT !.task = k, !.row = row]
<1>3. j \in Jobs /\ j.task = k /\ j.row = row
  BY DEF NoJob, Jobs, States
<1> HIDE DEF j
<1>4. Suits("pend", pc'[t], mem'[t], j, approved', links')
  BY <1>1, <1>2, <1>3 DEF Suits, CaptureTaskSource, Free, QueueUnchanged
<1>5. Went(t)
  BY <1>3, <1>4 DEF Went, Labels, CaptureTaskSource, j
<1> QED BY <1>5, GoesOnly DEF CaptureTaskSource, Free

LEMMA SaveCapturePendingStep == ASSUME BInv, NEW t \in Users, SaveCapturePending(t) PROVE BInv'
<1> PICK j \in Jobs : j = job[t] /\ Suits("pend", pc[t], mem[t], j, approved, links)
  BY BridgeTyped DEF SaveCapturePending, At
<1> DEFINE row == [j.row EXCEPT !.status = "capture_pending"]
<1>1. /\ j.task \in Tasks /\ j.row \in TaskRows /\ j.row.signal \in Signals
      /\ j.row.source \in Sources /\ j.row.bound
  BY DEF Suits, Jobs
<1>2. row \in TaskRows /\ row.status # "absent"
  BY <1>1, SignalNames DEF TaskRows, TaskStatuses
<1>3. Suits("capture", pc'[t], mem'[t], j, approved', links')
  BY <1>1 DEF Suits, SaveCapturePending, At, QueueUnchanged
<1>4. Went(t)
  BY <1>3 DEF Went, Labels, SaveCapturePending
<1>5. SaveTask(j.task, row)
  BY DEF SaveCapturePending
<1> HIDE DEF row
<1> QED BY <1>1, <1>2, <1>4, <1>5, GoesTask DEF SaveCapturePending, At

\* A capture the queue refuses at once ends with an error.
LEMMA CaptureGoes ==
  ASSUME QInv, NEW t \in Users, NEW s \in Sources, NEW retry \in BOOLEAN, Capture(t, s, retry)
  PROVE  Apart(t) /\ (pc'[t] = "select" \/ (pc'[t] = "idle" /\ mem'[t].out = "error"))
<1>1. CASE queue[s].status \in Capturable(retry)
  <2> PICK n : n = [Blank EXCEPT !.source = s, !.row = [queue[s] EXCEPT !.status = "selected"],
                                 !.run = ledger]
    OBVIOUS
  <2>1. Goto(t, "select", n)
    BY <1>1 DEF Capture, Request
  <2> QED BY <2>1 DEF Capture, Goto, Apart, QInv, QueueTypeOK
<1>2. CASE queue[s].status \notin Capturable(retry)
  <2> PICK n : n = [Blank EXCEPT !.source = s, !.row = queue[s], !.out = "error"]
    OBVIOUS
  <2>1. n.out = "error" /\ Goto(t, "idle", n)
    BY <1>2 DEF Capture, Request, Blank
  <2> QED BY <2>1 DEF Capture, Goto, Apart, QInv, QueueTypeOK
<1> QED BY <1>1, <1>2

LEMMA StartCaptureStep == ASSUME BInv, NEW t \in Users, StartCapture(t) PROVE BInv'
<1> PICK j \in Jobs : j = job[t] /\ Suits("capture", pc[t], mem[t], j, approved, links)
  BY BridgeTyped DEF StartCapture, At
<1>1. /\ j.task \in Tasks /\ j.row.signal \in Signals /\ j.row.source \in Sources /\ j.row.bound
      /\ \E retry \in BOOLEAN : Capture(t, j.row.source, retry)
  BY DEF Suits, StartCapture
<1>2. Apart(t) /\ (pc'[t] = "select" \/ (pc'[t] = "idle" /\ mem'[t].out = "error"))
  BY <1>1, CaptureGoes DEF BInv
<1>3. QInv'
  BY <1>1, CaptureStep, SameRest DEF StartCapture, At, BInv
<1>4. Suits("outcome", pc'[t], mem'[t], j, approved', links')
  BY <1>1, <1>2 DEF Suits, Capturing, Holding
<1>5. Went(t)
  BY <1>4 DEF Went, Labels, StartCapture
<1> QED BY <1>2, <1>3, <1>5, GoesQueue DEF StartCapture

\* A capture that succeeded has Evidence.
LEMMA SaveOutcomeStep == ASSUME BInv, NEW t \in Users, SaveOutcome(t) PROVE BInv'
<1> PICK j \in Jobs, m \in Locals :
       j = job[t] /\ m = mem[t] /\ Suits("outcome", "idle", m, j, approved, links)
  BY BridgeTyped, Typed DEF SaveOutcome, At
<1>1. /\ j.task \in Tasks /\ j.row \in TaskRows /\ j.row.signal \in Signals
      /\ j.row.source \in Sources /\ j.row.bound
      /\ m.out = "ok" => m.row.status \in {"captured", "duplicate"}
  BY DEF Suits, Jobs
<1>2. CASE m.out = "ok"
  <2> PICK e \in Sources : e = m.row.evidence
    BY <1>1, <1>2, Names DEF Locals, Suggestions
  <2> DEFINE row == [j.row EXCEPT !.status = "captured", !.evidence = e]
  <2>1. row \in TaskRows /\ row.status # "absent"
    BY <1>1, Names, SignalNames DEF TaskRows, TaskStatuses
  <2>2. SaveTask(j.task, row)
    BY <1>2 DEF SaveOutcome
  <2> HIDE DEF row
  <2> QED BY <1>1, <2>1, <2>2, GoesTask, EndWent DEF SaveOutcome, At
<1>3. CASE m.out = "error"
  <2> DEFINE row == [j.row EXCEPT !.status = "failed"]
  <2>1. row \in TaskRows /\ row.status # "absent"
    BY <1>1, SignalNames DEF TaskRows, TaskStatuses
  <2>2. SaveTask(j.task, row)
    BY <1>3 DEF SaveOutcome
  <2> HIDE DEF row
  <2> QED BY <1>1, <2>1, <2>2, GoesTask, EndWent DEF SaveOutcome, At
<1>4. CASE m.out \notin {"ok", "error"}
  BY <1>4, GoesOnly, EndWent DEF SaveOutcome, At
<1> QED BY <1>2, <1>3, <1>4

LEMMA ReviewGoes ==
  ASSUME QInv, NEW t \in Users, NEW e \in Sources, NEW approve \in BOOLEAN, Review(t, e, approve)
  PROVE  Apart(t) /\ pc'[t] \in {"review", "idle"}
<1>1. \E n : Goto(t, "review", n) \/ Goto(t, "idle", n)
  BY DEF Review, Request
<1> QED BY <1>1 DEF Review, Goto, Apart, QInv, QueueTypeOK

LEMMA ReviewTaskEvidenceStep ==
  ASSUME BInv, NEW t \in Users, NEW k \in Tasks, NEW approve \in BOOLEAN,
         ReviewTaskEvidence(t, k, approve)
  PROVE  BInv'
<1>1. tasks[k] \in TaskRows /\ tasks[k].signal \in Signals
  BY TaskRow DEF ReviewTaskEvidence
<1> PICK row \in TaskRows : row = tasks[k]
  BY <1>1
<1>2. row.evidence \in Sources /\ Review(t, row.evidence, approve)
  BY DEF ReviewTaskEvidence, TaskRows
<1> DEFINE j == [NoJob EXCEPT !.task = k, !.row = row]
<1>3. j \in Jobs /\ j.task = k /\ j.row = row
  BY DEF NoJob, Jobs, States
<1> HIDE DEF j
<1>4. Apart(t) /\ pc'[t] \in {"review", "idle"}
  BY <1>2, ReviewGoes DEF BInv
<1>5. QInv'
  BY <1>2, ReviewStep, CountedTyped DEF ReviewTaskEvidence, Free, BInv
<1>6. \A label \in {"approved", "rejected"} :
         Suits(label, pc'[t], mem'[t], j, approved', links')
  BY <1>1, <1>2, <1>3, <1>4 DEF Suits
<1>7. Resume(t, "approved", j) \/ Resume(t, "rejected", j)
  BY DEF ReviewTaskEvidence, j
<1>8. Went(t)
  BY <1>3, <1>6, <1>7 DEF Went, Labels
<1> QED BY <1>4, <1>5, <1>8, GoesQueue DEF ReviewTaskEvidence

LEMMA SaveRejectedStep == ASSUME BInv, NEW t \in Users, SaveRejected(t) PROVE BInv'
<1> PICK j \in Jobs : j = job[t] /\ Suits("rejected", pc[t], mem[t], j, approved, links)
  BY BridgeTyped DEF SaveRejected, At
<1> DEFINE row == [j.row EXCEPT !.status = "rejected"]
<1>1. /\ j.task \in Tasks /\ j.row \in TaskRows /\ j.row.signal \in Signals
      /\ j.row.evidence \in Sources
  BY DEF Suits, Jobs
<1>2. row \in TaskRows /\ row.status # "absent"
  BY <1>1, Names, SignalNames DEF TaskRows, TaskStatuses
<1>3. Suits("remaining", pc'[t], mem'[t], j, approved', links')
  BY <1>1 DEF Suits, SaveRejected, At, QueueUnchanged
<1>4. Went(t)
  BY <1>3 DEF Went, Labels, SaveRejected
<1>5. SaveTask(j.task, row)
  BY DEF SaveRejected
<1> HIDE DEF row
<1> QED BY <1>1, <1>2, <1>4, <1>5, GoesTask DEF SaveRejected, At

LEMMA RemainingStep == ASSUME BInv, NEW t \in Users, Remaining(t) PROVE BInv'
<1> PICK j \in Jobs : j = job[t] /\ Suits("remaining", pc[t], mem[t], j, approved, links)
  BY BridgeTyped DEF Remaining, At
<1> DEFINE n == [j EXCEPT !.state = "signal_only"]
<1>1. j.task \in Tasks /\ j.row.signal \in Signals
  BY DEF Suits
<1>2. n \in Jobs /\ n.task = j.task /\ n.row = j.row /\ n.state = "signal_only"
  BY DEF Jobs, States
<1> HIDE DEF n
<1>3. Suits("append", pc'[t], mem'[t], n, approved', links')
  BY <1>1, <1>2 DEF Suits, Remaining, At, QueueUnchanged
<1>4. Resume(t, "append", n) \/ End(t)
  BY DEF Remaining, n
<1>5. Went(t)
  BY <1>2, <1>3, <1>4, EndWent DEF Went, Labels
<1> QED BY <1>5, GoesOnly DEF Remaining, At

\* Attaching reads an Evidence that is reviewed, hence approved with its hash.
LEMMA AttachWent ==
  ASSUME BInv, NEW t \in Users, NEW k \in Tasks, Attach(t, k), pc[t] = "idle"
  PROVE  Went(t)
<1>1. /\ tasks[k] \in TaskRows /\ tasks[k].signal \in Signals /\ tasks[k].evidence \in Sources
      /\ ledger[tasks[k].evidence].status = "reviewed"
  BY TaskRow DEF Attach, Linkable
<1> PICK row \in TaskRows : row = tasks[k]
  BY <1>1
<1>2. ledger[row.evidence].hash \in Contents /\ <<row.evidence, ledger[row.evidence].hash>> \in approved
  BY <1>1 DEF BInv, QInv, WellFormed, ReviewedIsApproved, NoEvidence
<1> PICK hash \in Contents : hash = ledger[row.evidence].hash
  BY <1>2
<1> DEFINE j == [NoJob EXCEPT !.task = k, !.row = row, !.hash = hash]
<1>3. j \in Jobs /\ j.task = k /\ j.row = row /\ j.hash = hash
  BY DEF NoJob, Jobs, States
<1> HIDE DEF j
<1>4. Suits("link", pc'[t], mem'[t], j, approved', links')
  BY <1>1, <1>2, <1>3 DEF Suits, Attach, QueueUnchanged
<1>5. Resume(t, "link", j)
  BY DEF Attach, j
<1> QED BY <1>3, <1>4, <1>5 DEF Went, Labels

LEMMA AttachReviewedEvidenceStep ==
  ASSUME BInv, NEW t \in Users, NEW k \in Tasks, AttachReviewedEvidence(t, k)
  PROVE  BInv'
  BY AttachWent, GoesOnly DEF AttachReviewedEvidence, Attach, Free

LEMMA AttachApprovedStep == ASSUME BInv, NEW t \in Users, AttachApproved(t) PROVE BInv'
<1> PICK j \in Jobs : j = job[t] /\ Suits("approved", pc[t], mem[t], j, approved, links)
  BY BridgeTyped DEF AttachApproved, At
<1>1. j.task \in Tasks
  BY DEF Suits
<1>2. CASE Attach(t, j.task)
  BY <1>1, <1>2, AttachWent, GoesOnly DEF AttachApproved, Attach, At
<1>3. CASE End(t) /\ QueueUnchanged /\ UNCHANGED <<tasks, links, state>>
  BY <1>3, EndWent, GoesOnly DEF AttachApproved, At
<1> QED BY <1>2, <1>3 DEF AttachApproved

\* The link has the hash the thread read, approved then and since.
LEMMA SaveLinkStep == ASSUME BInv, NEW t \in Users, SaveLink(t) PROVE BInv'
<1> PICK j \in Jobs : j = job[t] /\ Suits("link", pc[t], mem[t], j, approved, links)
  BY BridgeTyped DEF SaveLink, At
<1> DEFINE new == [signal |-> j.row.signal, task |-> j.task, evidence |-> j.row.evidence,
                   hash |-> j.hash]
<1>1. /\ j.task \in Tasks /\ j.row.signal \in Signals /\ j.row.evidence \in Sources
      /\ j.hash \in Contents /\ <<j.row.evidence, j.hash>> \in approved /\ pc[t] = "idle"
  BY DEF Suits
<1>2. /\ new \in Links /\ <<new.evidence, new.hash>> \in approved
      /\ new.signal = j.row.signal
  BY <1>1 DEF Links
<1>3. links' = IF \E l \in links : l.signal = new.signal /\ l.evidence = new.evidence
               THEN links ELSE links \cup {new}
  BY DEF SaveLink
<1> HIDE DEF new
<1>4. links \subseteq links' /\ Linking(j, links')
  BY <1>2, <1>3 DEF Linking
<1>5. QInv' /\ Apart(t) /\ approved' = approved /\ pc' = pc
  BY QueueWaits DEF SaveLink, At, QueueUnchanged
<1>6. LinksOK'
  BY <1>2, <1>3, <1>5 DEF LinksOK, LinkIsApproved, BInv, TypeOK
<1>7. Suits("linked", pc'[t], mem'[t], j, approved', links')
  BY <1>1, <1>4, <1>5 DEF Suits
<1>8. Went(t)
  BY <1>7 DEF Went, Labels, SaveLink
<1> QED BY <1>4, <1>5, <1>6, <1>8, SameTasks, SameStates, BridgeStep DEF SaveLink

LEMMA SaveLinkedStep == ASSUME BInv, NEW t \in Users, SaveLinked(t) PROVE BInv'
<1> PICK j \in Jobs : j = job[t] /\ Suits("linked", pc[t], mem[t], j, approved, links)
  BY BridgeTyped DEF SaveLinked, At
<1> DEFINE row == [j.row EXCEPT !.status = "evidence_linked"]
           n == [j EXCEPT !.state = "evidence_linked"]
<1>1. /\ j.task \in Tasks /\ j.row \in TaskRows /\ j.row.signal \in Signals
      /\ j.row.evidence \in Sources /\ Linking(j, links)
  BY DEF Suits, Jobs
<1>2. row \in TaskRows /\ row.status # "absent"
  BY <1>1, Names, SignalNames DEF TaskRows, TaskStatuses
<1>3. n \in Jobs /\ n.task = j.task /\ n.row = j.row
  BY DEF Jobs, States
<1>4. SaveTask(j.task, row) /\ Resume(t, "append", n)
  BY DEF SaveLinked
<1> HIDE DEF row, n
<1>5. Suits("append", pc'[t], mem'[t], n, approved', links')
  BY <1>1, <1>3 DEF Suits, Linking, SaveLinked, At, QueueUnchanged
<1>6. Went(t)
  BY <1>3, <1>4, <1>5 DEF Went, Labels
<1> QED BY <1>1, <1>2, <1>4, <1>6, GoesTask DEF SaveLinked, At

LEMMA CrashRequestStep == ASSUME BInv, NEW t \in Users, CrashRequest(t) PROVE BInv'
<1>1. crashes' \in 0..MaxCrashes
  BY QueueBounds DEF CrashRequest, BInv, QInv, QueueTypeOK
<1>2. QInv'
  BY <1>1, CrashStep DEF CrashRequest, BInv
<1>3. Apart(t)
  BY GotoApart DEF CrashRequest, BInv
<1> QED BY <1>2, <1>3, EndWent, GoesQueue DEF CrashRequest

\* The queue goes on with a request of the bridge's, or of a user's.
LEMMA ProceedQueueStep == ASSUME BInv, NEW t \in Users, ProceedQueue(t) PROVE BInv'
<1> PICK label \in Labels, j \in Jobs : /\ label = at[t] /\ j = job[t]
                                        /\ Suits(label, pc[t], mem[t], j, approved, links)
  BY BridgeTyped
<1>1. QInv'
  BY ProceedStep, SameRest DEF ProceedQueue, BInv
<1>2. /\ Apart(t) /\ pc[t] # "idle"
      /\ pc[t] \in Suggesting => pc'[t] \in Suggesting /\ mem'[t].source \in Sources
      /\ pc[t] \in Capturing => /\ pc'[t] \in Capturing
                                /\ (pc'[t] = "idle" /\ mem'[t].out = "ok") =>
                                     mem'[t].row.status \in {"captured", "duplicate"}
      /\ pc[t] = "review" => pc'[t] = "idle"
  BY ProceedGoes DEF ProceedQueue, BInv
<1>3. Suits(label, pc'[t], mem'[t], j, approved', links')
  BY <1>2 DEF Suits, Linking, Apart, ProceedQueue, bridgeVars
<1>4. Resume(t, label, j)
  BY DEF Resume, ProceedQueue, bridgeVars, BInv, TypeOK
<1>5. Went(t)
  BY <1>3, <1>4 DEF Went
<1> QED BY <1>1, <1>2, <1>5, GoesQueue DEF ProceedQueue, bridgeVars

LEMMA AskGoes == ASSUME QInv, NEW t \in Users, Ask(t) PROVE Apart(t)
<1>1. \E label, m : Goto(t, label, m)
  <2>1. ASSUME NEW s \in Sources, Suggest(t, s) PROVE \E label, m : Goto(t, label, m)
    BY <2>1 DEF Suggest, Request
  <2>2. ASSUME NEW s \in Sources, Dismiss(t, s) PROVE \E label, m : Goto(t, label, m)
    BY <2>2 DEF Dismiss, Dismissal, Request
  <2>3. ASSUME NEW s \in Sources, NEW flag \in BOOLEAN, Capture(t, s, flag)
        PROVE  \E label, m : Goto(t, label, m)
    BY <2>3 DEF Capture, Request
  <2>4. ASSUME NEW s \in Sources, NEW flag \in BOOLEAN, Review(t, s, flag)
        PROVE  \E label, m : Goto(t, label, m)
    BY <2>4 DEF Review, Request
  <2> QED BY <2>1, <2>2, <2>3, <2>4 DEF Ask
<1>2. UNCHANGED approved
  BY DEF Ask, Suggest, Dismiss, Capture, Review
<1> QED BY <1>1, <1>2 DEF Goto, Apart, QInv, QueueTypeOK

LEMMA AskQueueStep == ASSUME BInv, NEW t \in Users, AskQueue(t) PROVE BInv'
<1> PICK j \in Jobs : j = job[t] /\ Suits("idle", pc[t], mem[t], j, approved, links)
  BY BridgeTyped DEF AskQueue, Free
<1>1. QInv'
  BY AskStep, CountedTyped DEF AskQueue, Free, BInv
<1>2. Apart(t)
  BY AskGoes DEF AskQueue, BInv
<1>3. Suits("idle", pc'[t], mem'[t], j, approved', links')
  BY DEF Suits
<1>4. Resume(t, "idle", j)
  BY DEF Resume, AskQueue, Free, bridgeVars, BInv, TypeOK
<1>5. Went(t)
  BY <1>3, <1>4 DEF Went, Labels
<1> QED BY <1>1, <1>2, <1>5, GoesQueue DEF AskQueue, bridgeVars

LEMMA BridgeInitial == ASSUME Init PROVE BInv
<1>1. QInv
  BY QueueInitial DEF Init
<1>2. NoTask \in TaskRows /\ RealTask(NoTask) /\ NoJob \in Jobs
  BY DEF NoTask, TaskRows, TaskStatuses, RealTask, NoJob, Jobs, States
<1> QED BY <1>1, <1>2 DEF Init, BInv, TypeOK, QInv, LinkIsApproved, LinkedSignalHasLink, Links,
           States, Labels, Suits

LEMMA BridgeInductive == BInv /\ [Next]_vars => BInv'
<1> SUFFICES ASSUME BInv, [Next]_vars PROVE BInv'
  OBVIOUS
<1>1. ASSUME NEW t \in Users, Begin(t) PROVE BInv'
  BY <1>1, ReuseStep, CreateStep, AddOfficialSourceStep, CaptureTaskSourceStep,
     AttachReviewedEvidenceStep, ReviewTaskEvidenceStep DEF Begin
<1>2. ASSUME NEW t \in Users, Continue(t) PROVE BInv'
  BY <1>2, SaveBoundStep, SaveCreatedStep, AppendSignalStateStep, SaveSuggestedStep,
     SaveCapturePendingStep, StartCaptureStep, SaveOutcomeStep, SaveRejectedStep, RemainingStep,
     AttachApprovedStep, SaveLinkStep, SaveLinkedStep DEF Continue
<1>3. ASSUME NEW t \in Users, CrashRequest(t) \/ AskQueue(t) \/ ProceedQueue(t) PROVE BInv'
  BY <1>3, CrashRequestStep, AskQueueStep, ProceedQueueStep
<1>4. CASE UNCHANGED vars
  <2>1. QInv'
    BY <1>4, QueueInductive DEF vars, BInv
  <2> QED BY <1>4, <2>1 DEF vars, queueVars, bridgeVars, BInv, TypeOK, QInv, LinkIsApproved,
             LinkedSignalHasLink, RealTask, Suits, Linking
<1> QED BY <1>1, <1>2, <1>3, <1>4 DEF Next

\* The tasks, the links and the threads of the bridge are what their types say.
THEOREM BridgeTypeCorrect == Spec => []TypeOK
<1>1. BInv => TypeOK
  BY DEF BInv
<1> QED BY <1>1, BridgeInitial, BridgeInductive, PTL DEF Spec

\* With the bridge at work on the queue, what the ledger calls reviewed is
\* still what a human approved (evidence.py lines 340-377).
THEOREM BridgeReviewsApproved == Spec => []ReviewedIsApproved
<1>1. BInv => ReviewedIsApproved
  BY DEF BInv, QInv
<1> QED BY <1>1, BridgeInitial, BridgeInductive, PTL DEF Spec

\* Every Evidence link of a signal names bytes a human approved, however many
\* requests overlap or crash on the way (bridge.py lines 541-569).
THEOREM LinksApproved == Spec => []LinkIsApproved
<1>1. BInv => LinkIsApproved
  BY DEF BInv
<1> QED BY <1>1, BridgeInitial, BridgeInductive, PTL DEF Spec

\* No signal is evidence_linked without a link of its own: the link is written
\* before the signal's state, and no step takes a link back (bridge.py lines
\* 561-594).
THEOREM LinkedSignalsLinked == Spec => []LinkedSignalHasLink
<1>1. BInv => LinkedSignalHasLink
  BY DEF BInv
<1> QED BY <1>1, BridgeInitial, BridgeInductive, PTL DEF Spec

-----------------------------------------------------------------------------
(* One request at a time                                                   *)

OneWorks == \A t, u \in Users : at[t] # "idle" /\ at[u] # "idle" => t = u

\* What holds while one thread alone is at a label with its variables j: its
\* copy agrees with its task, and tasks, links and states agree but for what
\* the thread is about to write.
OrdersOf(label, j) ==
  /\ label \in {"bind", "suggested", "pend", "capture", "outcome", "approved", "rejected"} =>
       /\ tasks[j.task].signal = j.row.signal
       /\ tasks[j.task].status \in OPEN_VERIFICATION_STATES
       /\ j.row.status \in OPEN_VERIFICATION_STATES
  /\ label \in {"link", "linked"} =>
       tasks[j.task].signal = j.row.signal /\ tasks[j.task].status # "evidence_linked"
  /\ label = "create" => j.state = "official_source_pending" /\ j.row.status = "pending"
  /\ label = "append" => /\ j.state = "official_source_pending" => Open(j.row.signal) # {}
                         /\ j.state = "signal_only" => Open(j.row.signal) = {}
  /\ \A s \in Signals : state[s] = "official_source_pending" =>
       Open(s) # {} \/ (label \in {"remaining", "append"} /\ j.row.signal = s)
  /\ \A s \in Signals : Open(s) # {} =>
       \/ state[s] # "signal_only"
       \/ label = "append" /\ j.row.signal = s /\ j.state = "official_source_pending"
  /\ \A l \in links : \/ tasks[l.task].status = "evidence_linked"
                      \/ label = "linked" /\ j.task = l.task

Orderly == /\ OneWorks
           /\ \A t \in Users : at[t] # "idle" => OrdersOf(at[t], job[t])
           /\ (\A t \in Users : at[t] = "idle") => OrdersOf("idle", NoJob)

\* Until a crash, one request at a time keeps tasks, links and states in step.
AInv == BInv /\ (alone /\ crashes = 0 => Orderly)

\* The thread that takes a step of the bridge is the only one at work.
LEMMA Sole ==
  ASSUME BInv, Orderly, OneWorks', NEW t \in Users, NEW label, NEW j, Resume(t, label, j),
         at[t] # "idle" \/ label # "idle"
  PROVE  /\ OrdersOf(at[t], job[t])
         /\ OrdersOf(label, j)' => Orderly'
<1>1. /\ at'[t] = label /\ job'[t] = j
      /\ \A u \in Users \ {t} : at'[u] = at[u]
  BY DEF Resume, BInv, TypeOK
<1>2. \A u \in Users \ {t} : at[u] = "idle"
  BY <1>1 DEF Orderly, OneWorks
<1>3. OrdersOf(at[t], job[t])
  <2>1. CASE at[t] # "idle"
    BY <2>1 DEF Orderly
  <2>2. CASE at[t] = "idle"
    <3>1. OrdersOf("idle", NoJob)
      BY <1>2, <2>2 DEF Orderly
    <3> QED BY <2>2, <3>1 DEF OrdersOf
  <2> QED BY <2>1, <2>2
<1>4. ASSUME OrdersOf(label, j)' PROVE Orderly'
  <2>1. CASE label # "idle"
    BY <1>1, <1>2, <1>4, <2>1 DEF Orderly
  <2>2. CASE label = "idle"
    <3>1. \A u \in Users : at'[u] = "idle"
      BY <1>1, <1>2, <2>2
    <3>2. OrdersOf("idle", NoJob)'
      BY <1>4, <2>2 DEF OrdersOf
    <3> QED BY <3>1, <3>2 DEF Orderly
  <2> QED BY <2>1, <2>2
<1> QED BY <1>3, <1>4

\* A step that leaves tasks, links and states alone.
LEMMA SameOrders ==
  ASSUME NEW label, NEW j, OrdersOf(label, j), UNCHANGED <<tasks, links, state>>
  PROVE  OrdersOf(label, j)'
  BY DEF OrdersOf, Open

\* An open task saved as an open one of the same signal keeps its signal open.
LEMMA StaysOpen ==
  ASSUME BInv, NEW k \in Tasks, NEW row, SaveTask(k, row), tasks[k].signal = row.signal,
         tasks[k].status \in OPEN_VERIFICATION_STATES, row.status \in OPEN_VERIFICATION_STATES
  PROVE  /\ \A s \in Signals : Open(s)' = Open(s)
         /\ \A x \in Tasks : tasks'[x].status = "evidence_linked" <=>
                               tasks[x].status = "evidence_linked"
         /\ tasks'[k] = row
  BY DEF BInv, TypeOK, SaveTask, Open, OPEN_VERIFICATION_STATES

LEMMA SavesOpen ==
  ASSUME BInv, NEW label \in Labels, NEW j \in Jobs, NEW row, OrdersOf(label, j),
         label \in {"bind", "suggested", "pend", "outcome"}, j.task \in Tasks,
         SaveTask(j.task, row), row.signal = j.row.signal, row.status \in OPEN_VERIFICATION_STATES,
         UNCHANGED <<links, state>>, NEW next \in {"idle", "capture"}, NEW n,
         next = "capture" => label = "pend" /\ n = j
  PROVE  OrdersOf(next, n)'
<1>1. /\ tasks[j.task].signal = row.signal /\ tasks[j.task].status \in OPEN_VERIFICATION_STATES
      /\ j.row.status \in OPEN_VERIFICATION_STATES
  BY DEF OrdersOf
<1>2. /\ \A s \in Signals : Open(s)' = Open(s)
      /\ \A x \in Tasks : tasks'[x].status = "evidence_linked" <=>
                            tasks[x].status = "evidence_linked"
      /\ tasks'[j.task] = row
  BY <1>1, StaysOpen
<1>3. links \subseteq Links
  BY DEF BInv, TypeOK
<1> QED BY <1>1, <1>2, <1>3 DEF OrdersOf, Links

LEMMA BridgeJob ==
  ASSUME BInv, NEW t \in Users, at[t] \notin {"idle", "create"}
  PROVE  job[t] \in Jobs /\ job[t].task \in Tasks /\ job[t].row.signal \in Signals
  BY BridgeTyped DEF Suits

LEMMA ReuseOrders ==
  ASSUME BInv, Orderly, OneWorks', NEW t \in Users, NEW s \in Signals, NEW bound \in BOOLEAN,
         Reuse(t, s, bound)
  PROVE  Orderly'
<1> PICK k \in Open(s) :
       Resume(t, "bind", [NoJob EXCEPT !.task = k, !.row = [tasks[k] EXCEPT !.bound = TRUE]])
  BY DEF Reuse
<1> PICK j : /\ j = [NoJob EXCEPT !.task = k, !.row = [tasks[k] EXCEPT !.bound = TRUE]]
             /\ Resume(t, "bind", j)
  OBVIOUS
<1>1. k \in Tasks /\ tasks[k].status \in OPEN_VERIFICATION_STATES /\ tasks[k] \in TaskRows
  BY DEF Open, BInv, TypeOK
<1>2. /\ j.task = k /\ j.row.signal = tasks[k].signal /\ j.row.status = tasks[k].status
  BY <1>1 DEF NoJob, TaskRows
<1>3. at[t] = "idle" /\ OrdersOf(at[t], job[t]) /\ (OrdersOf("bind", j)' => Orderly')
  BY Sole DEF Reuse, Free
<1>4. OrdersOf("bind", j)
  BY <1>1, <1>2, <1>3 DEF OrdersOf
<1> QED BY <1>3, <1>4, SameOrders DEF Reuse

LEMMA SaveBoundOrders ==
  ASSUME BInv, Orderly, OneWorks', NEW t \in Users, SaveBound(t)
  PROVE  Orderly'
<1> PICK j \in Jobs : j = job[t] /\ j.task \in Tasks
  BY BridgeJob DEF SaveBound, At
<1>1. OrdersOf("bind", j) /\ (OrdersOf("idle", NoJob)' => Orderly')
  BY Sole DEF SaveBound, At, End
<1>2. j.row.status \in OPEN_VERIFICATION_STATES
  BY <1>1 DEF OrdersOf
<1> QED BY <1>1, <1>2, SavesOpen DEF SaveBound, Labels

LEMMA CreateOrders ==
  ASSUME BInv, Orderly, OneWorks', NEW t \in Users, NEW s \in Signals, NEW bound \in BOOLEAN,
         Create(t, s, bound)
  PROVE  Orderly'
<1> DEFINE row == [NoTask EXCEPT !.signal = s, !.status = "pending", !.bound = bound]
<1> PICK j : j = [NoJob EXCEPT !.row = row, !.state = "official_source_pending"]
  OBVIOUS
<1>1. j.state = "official_source_pending" /\ j.row.status = "pending"
  BY DEF NoJob, NoTask
<1>2. Resume(t, "create", j)
  BY DEF Create
<1>3. at[t] = "idle" /\ OrdersOf(at[t], job[t]) /\ (OrdersOf("create", j)' => Orderly')
  BY <1>2, Sole DEF Create, Free
<1>4. OrdersOf("create", j)
  BY <1>1, <1>3 DEF OrdersOf
<1> QED BY <1>3, <1>4, SameOrders DEF Create

\* The task that opens a signal announces it: its thread appends the state.
LEMMA SaveCreatedOrders ==
  ASSUME BInv, Orderly, OneWorks', NEW t \in Users, SaveCreated(t)
  PROVE  Orderly'
<1> PICK j \in Jobs : j = job[t] /\ j.row.signal \in Signals
  BY BridgeTyped DEF SaveCreated, At, Suits
<1> PICK k \in Tasks : tasks[k] = NoTask /\ SaveTask(k, j.row) /\ Resume(t, "append", [j EXCEPT !.task = k])
  BY DEF SaveCreated
<1> PICK n : n = [j EXCEPT !.task = k]
  OBVIOUS
<1>1. n.task = k /\ n.row = j.row /\ n.state = j.state
  BY DEF Jobs
<1>2. OrdersOf("create", j) /\ (OrdersOf("append", n)' => Orderly')
  BY Sole DEF SaveCreated, At
<1>3. j.state = "official_source_pending" /\ j.row.status = "pending"
  BY <1>2 DEF OrdersOf
<1>4. /\ \A s \in Signals : s # j.row.signal => Open(s)' = Open(s)
      /\ Open(j.row.signal)' # {}
      /\ \A s \in Signals : Open(s) \subseteq Open(s)'
      /\ \A x \in Tasks : tasks[x].status = "evidence_linked" => tasks'[x] = tasks[x]
  BY <1>3, SignalNames DEF Open, SaveTask, BInv, TypeOK, NoTask, OPEN_VERIFICATION_STATES
<1>5. links' = links /\ state' = state /\ links \subseteq Links
  BY DEF SaveCreated, BInv, TypeOK
<1>6. OrdersOf("append", n)'
  BY <1>1, <1>2, <1>3, <1>4, <1>5 DEF OrdersOf, Links
<1> QED BY <1>2, <1>6

LEMMA AppendOrders ==
  ASSUME BInv, Orderly, OneWorks', NEW t \in Users, AppendSignalState(t)
  PROVE  Orderly'
<1> PICK j \in Jobs : j = job[t] /\ j.row.signal \in Signals
  BY BridgeJob DEF AppendSignalState, At
<1>1. OrdersOf("append", j) /\ (OrdersOf("idle", NoJob)' => Orderly')
  BY Sole DEF AppendSignalState, At, End
<1>2. /\ state' = [state EXCEPT ![j.row.signal] = j.state]
      /\ tasks' = tasks /\ links' = links /\ \A s \in Signals : Open(s)' = Open(s)
  BY DEF AppendSignalState, Open
<1>3. state \in [Signals -> States]
  BY DEF BInv, TypeOK
<1>4. OrdersOf("idle", NoJob)'
  BY <1>1, <1>2, <1>3 DEF OrdersOf
<1> QED BY <1>1, <1>4

LEMMA AddOfficialSourceOrders ==
  ASSUME BInv, Orderly, OneWorks', NEW t \in Users, NEW k \in Tasks, NEW s \in Sources,
         AddOfficialSource(t, k, s)
  PROVE  Orderly'
<1> PICK j : j = [NoJob EXCEPT !.task = k, !.row = tasks[k]]
  OBVIOUS
<1>1. j.task = k /\ j.row = tasks[k] /\ Resume(t, "suggested", j)
  BY DEF NoJob, AddOfficialSource
<1>2. at[t] = "idle" /\ OrdersOf(at[t], job[t]) /\ (OrdersOf("suggested", j)' => Orderly')
  BY <1>1, Sole DEF AddOfficialSource, Free
<1>3. OrdersOf("suggested", j)
  BY <1>1, <1>2 DEF OrdersOf, AddOfficialSource, OPEN_VERIFICATION_STATES
<1> QED BY <1>2, <1>3, SameOrders DEF AddOfficialSource

LEMMA SaveSuggestedOrders ==
  ASSUME BInv, Orderly, OneWorks', NEW t \in Users, SaveSuggested(t)
  PROVE  Orderly'
<1> PICK j \in Jobs : j = job[t] /\ j.task \in Tasks
  BY BridgeJob DEF SaveSuggested, At
<1>1. OrdersOf("suggested", j) /\ (OrdersOf("idle", NoJob)' => Orderly')
  BY Sole DEF SaveSuggested, At, End
<1>2. CASE mem[t].out = "ok"
  <2> PICK row : row = [j.row EXCEPT !.bound = TRUE, !.source = mem[t].source,
                                     !.status = "source_suggested"]
    OBVIOUS
  <2>1. row.signal = j.row.signal /\ row.status \in OPEN_VERIFICATION_STATES
    BY DEF Jobs, TaskRows, OPEN_VERIFICATION_STATES
  <2>2. SaveTask(j.task, row)
    BY <1>2 DEF SaveSuggested
  <2> QED BY <1>1, <2>1, <2>2, SavesOpen DEF SaveSuggested, Labels
<1>3. CASE mem[t].out # "ok"
  <2>1. OrdersOf("idle", NoJob)
    BY <1>1 DEF OrdersOf
  <2> QED BY <1>1, <1>3, <2>1, SameOrders DEF SaveSuggested
<1> QED BY <1>2, <1>3

LEMMA CaptureTaskSourceOrders ==
  ASSUME BInv, Orderly, OneWorks', NEW t \in Users, NEW k \in Tasks, CaptureTaskSource(t, k)
  PROVE  Orderly'
<1> PICK j : j = [NoJob EXCEPT !.task = k, !.row = tasks[k]]
  OBVIOUS
<1>1. j.task = k /\ j.row = tasks[k] /\ Resume(t, "pend", j)
  BY DEF NoJob, CaptureTaskSource
<1>2. at[t] = "idle" /\ OrdersOf(at[t], job[t]) /\ (OrdersOf("pend", j)' => Orderly')
  BY <1>1, Sole DEF CaptureTaskSource, Free
<1>3. OrdersOf("pend", j)
  BY <1>1, <1>2 DEF OrdersOf, CaptureTaskSource, OPEN_VERIFICATION_STATES
<1> QED BY <1>2, <1>3, SameOrders DEF CaptureTaskSource

LEMMA SaveCapturePendingOrders ==
  ASSUME BInv, Orderly, OneWorks', NEW t \in Users, SaveCapturePending(t)
  PROVE  Orderly'
<1> PICK j \in Jobs : j = job[t] /\ j.task \in Tasks
  BY BridgeJob DEF SaveCapturePending, At
<1>1. OrdersOf("pend", j) /\ (OrdersOf("capture", j)' => Orderly')
  BY Sole DEF SaveCapturePending, At
<1> PICK row : row = [j.row EXCEPT !.status = "capture_pending"]
  OBVIOUS
<1>2. row.signal = j.row.signal /\ row.status \in OPEN_VERIFICATION_STATES
  BY DEF Jobs, TaskRows, OPEN_VERIFICATION_STATES
<1>3. SaveTask(j.task, row) /\ UNCHANGED <<links, state>>
  BY DEF SaveCapturePending
<1>4. OrdersOf("capture", j)'
  BY <1>1, <1>2, <1>3, SavesOpen DEF Labels
<1> QED BY <1>1, <1>4

LEMMA StartCaptureOrders ==
  ASSUME BInv, Orderly, OneWorks', NEW t \in Users, StartCapture(t)
  PROVE  Orderly'
<1> PICK j \in Jobs : j = job[t]
  BY BridgeTyped
<1>1. OrdersOf("capture", j) /\ (OrdersOf("outcome", j)' => Orderly')
  BY Sole DEF StartCapture, At
<1>2. OrdersOf("outcome", j)
  BY <1>1 DEF OrdersOf
<1> QED BY <1>1, <1>2, SameOrders DEF StartCapture

LEMMA SaveOutcomeOrders ==
  ASSUME BInv, Orderly, OneWorks', NEW t \in Users, SaveOutcome(t)
  PROVE  Orderly'
<1> PICK j \in Jobs : j = job[t] /\ j.task \in Tasks
  BY BridgeJob DEF SaveOutcome, At
<1>1. OrdersOf("outcome", j) /\ (OrdersOf("idle", NoJob)' => Orderly')
  BY Sole DEF SaveOutcome, At, End
<1>2. ASSUME NEW row, SaveTask(j.task, row), row.signal = j.row.signal,
             row.status \in OPEN_VERIFICATION_STATES
      PROVE  Orderly'
  BY <1>1, <1>2, SavesOpen DEF SaveOutcome, Labels
<1>3. CASE mem[t].out = "ok"
  <2> PICK row : row = [j.row EXCEPT !.status = "captured", !.evidence = mem[t].row.evidence]
    OBVIOUS
  <2>1. row.signal = j.row.signal /\ row.status \in OPEN_VERIFICATION_STATES
    BY DEF Jobs, TaskRows, OPEN_VERIFICATION_STATES
  <2>2. SaveTask(j.task, row)
    BY <1>3 DEF SaveOutcome
  <2> QED BY <1>2, <2>1, <2>2
<1>4. CASE mem[t].out = "error"
  <2> PICK row : row = [j.row EXCEPT !.status = "failed"]
    OBVIOUS
  <2>1. row.signal = j.row.signal /\ row.status \in OPEN_VERIFICATION_STATES
    BY DEF Jobs, TaskRows, OPEN_VERIFICATION_STATES
  <2>2. SaveTask(j.task, row)
    BY <1>4 DEF SaveOutcome
  <2> QED BY <1>2, <2>1, <2>2
<1>5. CASE mem[t].out \notin {"ok", "error"}
  <2>1. OrdersOf("idle", NoJob)
    BY <1>1 DEF OrdersOf
  <2> QED BY <1>1, <1>5, <2>1, SameOrders DEF SaveOutcome
<1> QED BY <1>3, <1>4, <1>5

LEMMA ReviewOrders ==
  ASSUME BInv, Orderly, OneWorks', NEW t \in Users, NEW k \in Tasks, NEW approve \in BOOLEAN,
         ReviewTaskEvidence(t, k, approve)
  PROVE  Orderly'
<1> PICK j : j = [NoJob EXCEPT !.task = k, !.row = tasks[k]]
  OBVIOUS
<1> PICK label \in {"approved", "rejected"} : label = IF approve THEN "approved" ELSE "rejected"
  OBVIOUS
<1>1. j.task = k /\ j.row = tasks[k] /\ Resume(t, label, j)
  BY DEF NoJob, ReviewTaskEvidence
<1>2. at[t] = "idle" /\ OrdersOf(at[t], job[t]) /\ (OrdersOf(label, j)' => Orderly')
  BY <1>1, Sole DEF ReviewTaskEvidence, Free
<1>3. OrdersOf(label, j)
  BY <1>1, <1>2 DEF OrdersOf, ReviewTaskEvidence, OPEN_VERIFICATION_STATES
<1> QED BY <1>2, <1>3, SameOrders DEF ReviewTaskEvidence

\* A task that is closed may leave its signal without an open one; the thread
\* that closed it sees to the signal next.
LEMMA Closes ==
  ASSUME BInv, NEW label \in {"rejected", "linked"}, NEW j \in Jobs, NEW row, OrdersOf(label, j),
         j.task \in Tasks, SaveTask(j.task, row), row.signal = j.row.signal,
         label = "rejected" => row.status = "rejected",
         label = "linked" => row.status = "evidence_linked",
         UNCHANGED <<links, state>>,
         NEW next \in {"remaining", "append"}, NEW n, n.row = j.row,
         next = "append" => n.state = "evidence_linked"
  PROVE  OrdersOf(next, n)'
<1>1. tasks[j.task].signal = row.signal
  BY DEF OrdersOf
<1>2. /\ \A s \in Signals : s # row.signal => Open(s)' = Open(s)
      /\ Open(row.signal)' \subseteq Open(row.signal)
      /\ tasks'[j.task] = row /\ \A x \in Tasks \ {j.task} : tasks'[x] = tasks[x]
  BY <1>1 DEF BInv, TypeOK, SaveTask, Open, OPEN_VERIFICATION_STATES
<1>3. links \subseteq Links
  BY DEF BInv, TypeOK
<1>4. \A l \in links' : tasks'[l.task].status = "evidence_linked"
  BY <1>2, <1>3 DEF OrdersOf, Links, OPEN_VERIFICATION_STATES
<1>5. \A s \in Signals : /\ state[s] = "official_source_pending" /\ s # row.signal => Open(s) # {}
                         /\ Open(s) # {} => state[s] # "signal_only"
  BY DEF OrdersOf
<1> QED BY <1>2, <1>4, <1>5 DEF OrdersOf

LEMMA SaveRejectedOrders ==
  ASSUME BInv, Orderly, OneWorks', NEW t \in Users, SaveRejected(t)
  PROVE  Orderly'
<1> PICK j \in Jobs : j = job[t] /\ j.task \in Tasks
  BY BridgeJob DEF SaveRejected, At
<1>1. OrdersOf("rejected", j) /\ (OrdersOf("remaining", j)' => Orderly')
  BY Sole DEF SaveRejected, At
<1> PICK row : row = [j.row EXCEPT !.status = "rejected"]
  OBVIOUS
<1>2. row.signal = j.row.signal /\ row.status = "rejected"
  BY DEF Jobs, TaskRows
<1>3. SaveTask(j.task, row) /\ UNCHANGED <<links, state>>
  BY DEF SaveRejected
<1>4. OrdersOf("remaining", j)'
  BY <1>1, <1>2, <1>3, Closes
<1> QED BY <1>1, <1>4

\* Without an open task the signal goes back to signal_only; with one it stays.
LEMMA RemainingOrders ==
  ASSUME BInv, Orderly, OneWorks', NEW t \in Users, Remaining(t)
  PROVE  Orderly'
<1> PICK j \in Jobs : j = job[t]
  BY BridgeTyped
<1> PICK n : n = [j EXCEPT !.state = "signal_only"]
  OBVIOUS
<1>1. n.row = j.row /\ n.state = "signal_only"
  BY DEF Jobs
<1>2. CASE Open(j.row.signal) = {}
  <2>1. Resume(t, "append", n)
    BY <1>2 DEF Remaining
  <2>2. at[t] = "remaining" /\ OrdersOf(at[t], job[t]) /\ (OrdersOf("append", n)' => Orderly')
    BY <2>1, Sole DEF Remaining, At
  <2>3. OrdersOf("append", n)
    BY <1>1, <1>2, <2>2 DEF OrdersOf
  <2> QED BY <2>2, <2>3, SameOrders DEF Remaining
<1>3. CASE Open(j.row.signal) # {}
  <2>1. Resume(t, "idle", NoJob)
    BY <1>3 DEF Remaining, End
  <2>2. at[t] = "remaining" /\ OrdersOf(at[t], job[t]) /\ (OrdersOf("idle", NoJob)' => Orderly')
    BY <2>1, Sole DEF Remaining, At
  <2>3. OrdersOf("idle", NoJob)
    BY <1>3, <2>2 DEF OrdersOf
  <2> QED BY <2>2, <2>3, SameOrders DEF Remaining
<1> QED BY <1>2, <1>3

LEMMA AttachOrders ==
  ASSUME BInv, Orderly, OneWorks', NEW t \in Users, NEW k \in Tasks, Attach(t, k),
         at[t] \in {"idle", "approved"}
  PROVE  Orderly'
<1> PICK j : j = [NoJob EXCEPT !.task = k, !.row = tasks[k], !.hash = ledger[tasks[k].evidence].hash]
  OBVIOUS
<1>1. j.task = k /\ j.row = tasks[k] /\ Resume(t, "link", j)
  BY DEF NoJob, Attach
<1>2. OrdersOf(at[t], job[t]) /\ (OrdersOf("link", j)' => Orderly')
  BY <1>1, Sole
<1>3. OrdersOf("link", j)
  BY <1>1, <1>2 DEF OrdersOf, Attach, Linkable
<1> QED BY <1>2, <1>3, SameOrders DEF Attach

LEMMA AttachApprovedOrders ==
  ASSUME BInv, Orderly, OneWorks', NEW t \in Users, AttachApproved(t)
  PROVE  Orderly'
<1> PICK j \in Jobs : j = job[t] /\ j.task \in Tasks
  BY BridgeJob DEF AttachApproved, At
<1>1. CASE Attach(t, j.task)
  BY <1>1, AttachOrders DEF AttachApproved, At
<1>2. CASE End(t) /\ UNCHANGED <<tasks, links, state>>
  <2>1. at[t] = "approved" /\ OrdersOf(at[t], job[t]) /\ (OrdersOf("idle", NoJob)' => Orderly')
    BY <1>2, Sole DEF AttachApproved, At, End
  <2>2. OrdersOf("idle", NoJob)
    BY <2>1 DEF OrdersOf
  <2> QED BY <1>2, <2>1, <2>2, SameOrders
<1> QED BY <1>1, <1>2 DEF AttachApproved

\* A link of the task is there before the task is told, by the same thread.
LEMMA SaveLinkOrders ==
  ASSUME BInv, Orderly, OneWorks', NEW t \in Users, SaveLink(t)
  PROVE  Orderly'
<1> PICK j \in Jobs : j = job[t]
  BY BridgeTyped
<1>1. OrdersOf("link", j) /\ (OrdersOf("linked", j)' => Orderly')
  BY Sole DEF SaveLink, At
<1> DEFINE new == [signal |-> j.row.signal, task |-> j.task, evidence |-> j.row.evidence,
                   hash |-> j.hash]
<1>2. \A l \in links' : l \in links \/ l.task = j.task
  <2>1. links' \subseteq links \cup {new} /\ new.task = j.task
    BY DEF SaveLink
  <2> HIDE DEF new
  <2> QED BY <2>1
<1>3. tasks' = tasks /\ state' = state /\ \A s \in Signals : Open(s)' = Open(s)
  BY DEF SaveLink, Open
<1>4. OrdersOf("linked", j)'
  BY <1>1, <1>2, <1>3 DEF OrdersOf
<1> QED BY <1>1, <1>4

LEMMA SaveLinkedOrders ==
  ASSUME BInv, Orderly, OneWorks', NEW t \in Users, SaveLinked(t)
  PROVE  Orderly'
<1> PICK j \in Jobs : j = job[t] /\ j.task \in Tasks
  BY BridgeJob DEF SaveLinked, At
<1> PICK row, n : row = [j.row EXCEPT !.status = "evidence_linked"]
                  /\ n = [j EXCEPT !.state = "evidence_linked"]
  OBVIOUS
<1>1. /\ row.signal = j.row.signal /\ row.status = "evidence_linked"
      /\ n.row = j.row /\ n.state = "evidence_linked"
  BY DEF Jobs, TaskRows
<1>2. SaveTask(j.task, row) /\ Resume(t, "append", n) /\ UNCHANGED <<links, state>>
  BY DEF SaveLinked
<1>3. at[t] = "linked" /\ OrdersOf(at[t], job[t]) /\ (OrdersOf("append", n)' => Orderly')
  BY <1>2, Sole DEF SaveLinked, At
<1>4. OrdersOf("append", n)'
  BY <1>1, <1>2, <1>3, Closes
<1> QED BY <1>3, <1>4

LEMMA ProceedNoCrash == ASSUME NEW t \in Users, Proceed(t) PROVE crashes' = crashes
<1>1. CASE Discover(t) \/ DiscoverFails(t) \/ FindByUrl(t) \/ Add(t) \/ Record(t)
  BY <1>1 DEF Discover, DiscoverFails, FindByUrl, Add, Record
<1>2. CASE Select(t) \/ Pend(t) \/ (\E content \in Contents : Collect(t, content))
             \/ (\E final \in Urls : Match(t, final))
  BY <1>2 DEF Select, Pend, Collect, Match
<1>3. CASE \/ AttachLoad(t) \/ AttachSave(t) \/ Finish(t) \/ Events(t) \/ EventsFail(t)
           \/ SaveNote(t)
  BY <1>3 DEF AttachLoad, AttachSave, Finish, Events, EventsFail, SaveNote
<1>4. CASE CaptureFails(t) \/ Fail(t) \/ SaveDismissed(t) \/ SaveReview(t)
  BY <1>4 DEF CaptureFails, Fail, SaveDismissed, SaveReview
<1> QED BY <1>1, <1>2, <1>3, <1>4 DEF Proceed

\* A behaviour that has not crashed had not crashed before.
LEMMA NoCrashBefore == ASSUME BInv, Next, crashes' = 0 PROVE crashes = 0
<1>1. ASSUME NEW t \in Users, Begin(t) PROVE crashes' = crashes
  BY <1>1 DEF Begin, Reuse, Create, AddOfficialSource, Suggest, CaptureTaskSource,
     AttachReviewedEvidence, Attach, ReviewTaskEvidence, Review, QueueUnchanged
<1>2. ASSUME NEW t \in Users, Continue(t) PROVE crashes' = crashes
  BY <1>2 DEF Continue, SaveBound, SaveCreated, AppendSignalState, SaveSuggested,
     SaveCapturePending, StartCapture, Capture, SaveOutcome, SaveRejected, Remaining,
     AttachApproved, Attach, SaveLink, SaveLinked, QueueUnchanged
<1>3. ASSUME NEW t \in Users, CrashRequest(t) PROVE crashes' # 0
  BY <1>3 DEF CrashRequest, BInv, QInv, QueueTypeOK
<1>4. ASSUME NEW t \in Users, AskQueue(t) PROVE crashes' = crashes
  BY <1>4 DEF AskQueue, Ask, Suggest, Dismiss, Capture, Review
<1>5. ASSUME NEW t \in Users, ProceedQueue(t) PROVE crashes' = crashes
  BY <1>5, ProceedNoCrash DEF ProceedQueue
<1> QED BY <1>1, <1>2, <1>3, <1>4, <1>5 DEF Next

LEMMA SameOrderly ==
  ASSUME Orderly, UNCHANGED bridgeVars
  PROVE  Orderly'
  BY DEF Orderly, OneWorks, OrdersOf, Open, bridgeVars

LEMMA OrderlyStep ==
  ASSUME BInv, Orderly, OneWorks', Next, crashes' = 0
  PROVE  Orderly'
<1>1. ASSUME NEW t \in Users, Begin(t) PROVE Orderly'
  BY <1>1, ReuseOrders, CreateOrders, AddOfficialSourceOrders, CaptureTaskSourceOrders,
     AttachOrders, ReviewOrders DEF Begin, AttachReviewedEvidence, Free
<1>2. ASSUME NEW t \in Users, Continue(t) PROVE Orderly'
  BY <1>2, SaveBoundOrders, SaveCreatedOrders, AppendOrders, SaveSuggestedOrders,
     SaveCapturePendingOrders, StartCaptureOrders, SaveOutcomeOrders, SaveRejectedOrders,
     RemainingOrders, AttachApprovedOrders, SaveLinkOrders, SaveLinkedOrders DEF Continue
<1>3. ASSUME NEW t \in Users, CrashRequest(t) PROVE FALSE
  BY <1>3 DEF CrashRequest, BInv, QInv, QueueTypeOK
<1>4. ASSUME NEW t \in Users, AskQueue(t) \/ ProceedQueue(t) PROVE Orderly'
  BY <1>4, SameOrderly DEF AskQueue, ProceedQueue
<1> QED BY <1>1, <1>2, <1>3, <1>4 DEF Next

LEMMA AloneInitial == MCInit => AInv
<1> SUFFICES ASSUME MCInit PROVE AInv
  OBVIOUS
<1>1. BInv
  BY BridgeInitial DEF MCInit
<1>2. Orderly
  BY SignalNames DEF MCInit, Init, Orderly, OneWorks, OrdersOf, Open, NoTask,
     OPEN_VERIFICATION_STATES
<1> QED BY <1>1, <1>2 DEF AInv

LEMMA AloneInductive == AInv /\ [MCNext]_<<vars, alone>> => AInv'
<1> SUFFICES ASSUME AInv, [MCNext]_<<vars, alone>> PROVE AInv'
  OBVIOUS
<1>1. BInv'
  BY BridgeInductive DEF AInv, MCNext
<1>2. ASSUME Next, OneAtATime, UNCHANGED alone, alone', crashes' = 0 PROVE Orderly'
  <2>1. OneWorks'
    BY <1>2 DEF OneAtATime, OneWorks
  <2>2. crashes = 0 /\ Orderly
    BY <1>2, NoCrashBefore DEF AInv
  <2> QED BY <1>2, <2>1, <2>2, OrderlyStep DEF AInv
<1>3. ASSUME UNCHANGED <<vars, alone>>, alone', crashes' = 0 PROVE Orderly'
  BY <1>3, SameOrderly DEF AInv, vars, queueVars
<1> QED BY <1>1, <1>2, <1>3 DEF AInv, MCNext

\* One request at a time, without a crash: a signal waits for its official
\* source exactly while a task of it is open (bridge.py lines 264-282, 503-513).
THEOREM AlonePendingOpen == MCSpec => []AlonePendingMeansOpen
<1>1. ASSUME AInv PROVE AlonePendingMeansOpen
  <2> SUFFICES ASSUME alone, Quiet PROVE PendingMeansOpen
    BY DEF AlonePendingMeansOpen, PendingMeansOpen
  <2>1. OrdersOf("idle", NoJob)
    BY <1>1 DEF AInv, Orderly, Quiet
  <2> QED BY <2>1 DEF OrdersOf, PendingMeansOpen
<1> QED BY <1>1, AloneInitial, AloneInductive, PTL DEF MCSpec

\* One request at a time, without a crash: a rejected task has no link of its
\* own (bridge.py lines 494-523).
THEOREM AloneRejectedUnlinked == MCSpec => []AloneRejectedHasNoLink
<1>1. ASSUME AInv PROVE AloneRejectedHasNoLink
  <2> SUFFICES ASSUME alone, Quiet PROVE RejectedHasNoLink
    BY DEF AloneRejectedHasNoLink, RejectedHasNoLink
  <2>1. OrdersOf("idle", NoJob)
    BY <1>1 DEF AInv, Orderly, Quiet
  <2> QED BY <2>1 DEF OrdersOf, RejectedHasNoLink
<1> QED BY <1>1, AloneInitial, AloneInductive, PTL DEF MCSpec
=============================================================================
