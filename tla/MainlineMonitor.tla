-------------------------- MODULE MainlineMonitor --------------------------
(***************************************************************************)
(* The daily mainline monitor of one theme under one policy:               *)
(* MainlineService (monitoring/service.py) over MainlineStore              *)
(* (monitoring/store.py), with the analyst's acknowledgements and          *)
(* decisions (api/app.py) and the proposals that official events make      *)
(* (events/service.py).                                                    *)
(*                                                                         *)
(* A job is a market and a day, started by the API, the CLI or a           *)
(* scheduler, and started again after a failure.  Each store call is a     *)
(* transaction of its own and one action here, with the reads that         *)
(* directly precede it.  Ids are hashes of content: an assessment's of its *)
(* market, day, data and previous state, an event's of its assessment, a   *)
(* proposal's of its assessment, its action and who made it.               *)
(*                                                                         *)
(* What the market data amount to (score, coverage, quality) is a grade.   *)
(***************************************************************************)
EXTENDS Integers, Sequences, FiniteSets

CONSTANTS
  Markets,
  Days,          \* as-of dates, as numbers
  Data,          \* what the market-data store may hold for a job
  GradeOf,       \* the grade of each
  Filings,       \* official events that concern a member of the theme
  Workers,       \* threads and processes that run jobs
  Users,         \* threads of the analyst and of the event calendar
  MaxAttempts,   \* bound of the model: attempts of all jobs together
  MaxDecisions   \* bound of the model: decisions asked for

Grades == {"insufficient", "confirmed", "emerging", "fragile", "low"}
States == {"insufficient", "watch", "emerging", "confirmed", "fragile", "exited"}

DaysAssumption == Days \subseteq Nat /\ Days # {} /\ Markets # {}
GradesAssumption == GradeOf \in [Data -> Grades] /\ Data # {}
MonitorBounds == MaxAttempts \in Nat /\ MaxDecisions \in Nat
MonitorActors == Workers \cap Users = {} /\ "monitor" \notin Filings

Jobs == Markets \X Days
MarketOf(j) == j[1]
DayOf(j) == j[2]

VARIABLES
  jobs,        \* rows of monitor_jobs
  assessments, \* rows of mainline_assessments, in the order of assessed_at
  events,      \* rows of mainline_state_events, named by their assessment
  acked,       \* those with an acknowledged_at
  proposals,   \* rows of theme_research_proposals
  pc,          \* per thread: its next store call
  mem,         \* per thread: its local variables
  attempts,    \* history: attempts at jobs so far
  decisions    \* history: decisions asked for

vars == <<jobs, assessments, events, acked, proposals, pc, mem, attempts, decisions>>
tables == <<jobs, assessments, events, acked, proposals>>

-----------------------------------------------------------------------------
Done == {"success", "partial"}
JobRows == [status : {"absent", "running", "failed"} \cup Done, assessment : Nat]

Assessments == [market : Markets, day : Days, data : Data,
                previous : States \cup {"none"}, state : States]
Changed(a) == assessments[a].previous # assessments[a].state

Human == {"pending", "accepted", "rejected"}
Proposals == [assessment : Nat, action : {"theme_scan", "reevaluate_candidates"},
              origin : {"monitor"} \cup Filings, human : Human]
SameId(p, q) == [p EXCEPT !.human = q.human] = q
Decided(p) == p.human # "pending"

\* mem[t]: the job at work and its assessment (0: none yet), the assessment
\* being made, the proposal being saved.
Nowhere == [market |-> CHOOSE m \in Markets : TRUE, day |-> CHOOSE d \in Days : TRUE,
            data |-> CHOOSE d \in Data : TRUE, previous |-> "none", state |-> "watch"]
NoProposal == [assessment |-> 0, action |-> "theme_scan", origin |-> "monitor",
               human |-> "pending"]
Blank == [job |-> <<Nowhere.market, Nowhere.day>>, assessment |-> 0, new |-> Nowhere,
          proposal |-> NoProposal]
Locals == [job : Jobs, assessment : Nat, new : Assessments, proposal : Proposals]

PCs == {"idle", "start", "snapshot", "metric", "assess", "save_assessment", "transition",
        "propose", "finish", "failed", "decide", "link"}

\* The tables with their unique keys.
TypeOK ==
  /\ jobs \in [Jobs -> JobRows]
  /\ assessments \in Seq(Assessments)
  /\ \A a, b \in DOMAIN assessments : assessments[a] = assessments[b] => a = b
  /\ events \subseteq DOMAIN assessments /\ acked \subseteq events
  /\ proposals \subseteq Proposals
  /\ \A p, q \in proposals : p.assessment = q.assessment /\ p.action = q.action => p = q
  /\ pc \in [Workers \cup Users -> PCs]
  /\ mem \in [Workers \cup Users -> Locals]
  /\ attempts \in 0..MaxAttempts /\ decisions \in 0..MaxDecisions

Init ==
  /\ jobs = [j \in Jobs |-> [status |-> "absent", assessment |-> 0]]
  /\ assessments = <<>>
  /\ events = {} /\ acked = {} /\ proposals = {}
  /\ pc = [t \in Workers \cup Users |-> "idle"]
  /\ mem = [t \in Workers \cup Users |-> Blank]
  /\ attempts = 0 /\ decisions = 0

Goto(t, label, m) == pc' = [pc EXCEPT ![t] = label] /\ mem' = [mem EXCEPT ![t] = m]
Leave(t) == Goto(t, "idle", Blank)

\* save_job: the row becomes what the worker makes of the job.
SaveJob(w, status) ==
  jobs' = [jobs EXCEPT ![mem[w].job] = [status |-> status, assessment |-> mem[w].assessment]]

-----------------------------------------------------------------------------
(* run_daily                                                               *)

\* A job that is done is returned as it is; any other starts from scratch.
Run(w, j) ==
  /\ pc[w] = "idle" /\ jobs[j].status \notin Done
  /\ attempts < MaxAttempts /\ attempts' = attempts + 1
  /\ Goto(w, "start", [Blank EXCEPT !.job = j])
  /\ UNCHANGED <<tables, decisions>>

\* The row of the running job, saved again after each of the first two steps.
\* What the market-data store holds decides the metric.
SaveRunning(w) ==
  /\ SaveJob(w, "running")
  /\ \/ pc[w] = "start" /\ Goto(w, "snapshot", mem[w])
     \/ pc[w] = "snapshot" /\ Goto(w, "metric", mem[w])
     \/ \E d \in Data : pc[w] = "metric" /\ Goto(w, "assess", [mem[w] EXCEPT !.new.data = d])
  /\ UNCHANGED <<assessments, events, acked, proposals, attempts, decisions>>

\* latest_assessment: the latest day before this one, of any market, and of
\* that day the assessment made last.  0: there is none.
Before(day) == {a \in DOMAIN assessments : assessments[a].day < day}
Latest(rows) ==
  IF rows = {} THEN 0
  ELSE CHOOSE a \in rows : \A b \in rows :
         \/ assessments[b].day < assessments[a].day
         \/ assessments[b].day = assessments[a].day /\ b <= a
Previous(day) == LET a == Latest(Before(day)) IN IF a = 0 THEN "none" ELSE assessments[a].state

\* What a grade makes of the state before.
NextState(grade, previous) ==
  CASE grade \in {"insufficient", "confirmed", "emerging"} -> grade
    [] grade = "fragile" /\ previous \in {"confirmed", "emerging"} -> "fragile"
    [] OTHER -> IF previous \in {"confirmed", "emerging", "fragile"} THEN "exited" ELSE "watch"

Assess(w) ==
  /\ pc[w] = "assess"
  /\ LET previous == Previous(DayOf(mem[w].job))
     IN  Goto(w, "save_assessment", [mem[w] EXCEPT !.new =
           [market |-> MarketOf(mem[w].job), day |-> DayOf(mem[w].job), data |-> @.data,
            previous |-> previous, state |-> NextState(GradeOf[@.data], previous)]])
  /\ UNCHANGED <<tables, attempts, decisions>>

\* save_assessment: a new row, or the one with this content.
SaveAssessment(w) ==
  /\ pc[w] = "save_assessment"
  /\ IF \E a \in DOMAIN assessments : assessments[a] = mem[w].new
     THEN UNCHANGED assessments
     ELSE assessments' = Append(assessments, mem[w].new)
  /\ \E a \in DOMAIN assessments' :
        assessments'[a] = mem[w].new /\ Goto(w, "transition", [mem[w] EXCEPT !.assessment = a])
  /\ UNCHANGED <<jobs, events, acked, proposals, attempts, decisions>>

\* save_state_event: the event is stored as new, acknowledged or not.
SaveStateEvent(a) == events' = events \cup {a} /\ acked' = acked \ {a}

\* Mutant: the first assessment of a theme is no transition.
RecordTransition_NotFirst(w) ==
  /\ pc[w] = "transition"
  /\ LET a == mem[w].assessment
     IN  IF Changed(a) /\ assessments[a].previous # "none"
         THEN SaveStateEvent(a)
         ELSE UNCHANGED <<events, acked>>
  /\ Goto(w, "propose", mem[w])
  /\ UNCHANGED <<jobs, assessments, proposals, attempts, decisions>>

\* _record_transition
RecordTransition(w) ==
  /\ pc[w] = "transition"
  /\ LET a == mem[w].assessment
     IN  IF Changed(a) THEN SaveStateEvent(a)
         ELSE UNCHANGED <<events, acked>>
  /\ Goto(w, "propose", mem[w])
  /\ UNCHANGED <<jobs, assessments, proposals, attempts, decisions>>

\* The action an assessment calls for, if any.
ActionFor(a) ==
  CASE Changed(a) /\ assessments[a].state \in {"emerging", "confirmed"} -> "theme_scan"
    [] Changed(a) /\ assessments[a].state \in {"fragile", "exited"} -> "reevaluate_candidates"
    [] OTHER -> "none"

\* save_proposal replaces the row with this id; a row of the same assessment
\* and action under another id makes it raise.
Conflicts(p) ==
  \E q \in proposals : ~SameId(p, q) /\ q.assessment = p.assessment /\ q.action = p.action
SaveProposal(p) == proposals' = {q \in proposals : ~SameId(p, q)} \cup {p}

Propose(w) ==
  /\ pc[w] = "propose"
  /\ LET action == ActionFor(mem[w].assessment)
         p == [NoProposal EXCEPT !.assessment = mem[w].assessment, !.action = action]
     IN  IF action = "none" THEN UNCHANGED proposals ELSE ~Conflicts(p) /\ SaveProposal(p)
  /\ Goto(w, "finish", mem[w])
  /\ UNCHANGED <<jobs, assessments, events, acked, attempts, decisions>>

\* The artifact is written and the job saved: partial, if the metric warns.
Finish(w) ==
  /\ pc[w] = "finish"
  /\ \E status \in Done :
        /\ assessments[mem[w].assessment].state = "insufficient" => status = "partial"
        /\ SaveJob(w, status)
  /\ Leave(w)
  /\ UNCHANGED <<assessments, events, acked, proposals, attempts, decisions>>

\* Any error of a step, a conflict among them, makes the job a failed one.
Fail(w) ==
  /\ pc[w] \in {"snapshot", "metric", "assess", "save_assessment", "transition",
                "propose", "finish"}
  /\ Goto(w, "failed", mem[w])
  /\ UNCHANGED <<tables, attempts, decisions>>

SaveFailed(w) ==
  /\ pc[w] = "failed"
  /\ SaveJob(w, "failed")
  /\ Leave(w)
  /\ UNCHANGED <<assessments, events, acked, proposals, attempts, decisions>>

-----------------------------------------------------------------------------
(* The analyst, and the event calendar                                     *)

Acknowledge(u, a) ==
  /\ pc[u] = "idle" /\ a \in events \ acked
  /\ acked' = acked \cup {a}
  /\ UNCHANGED <<jobs, assessments, events, proposals, pc, mem, attempts, decisions>>

\* decide_proposal: only a pending proposal is decided.
Decide(u, p, human) ==
  /\ pc[u] = "idle" /\ ~Decided(p)
  /\ decisions < MaxDecisions /\ decisions' = decisions + 1
  /\ Goto(u, "decide", [Blank EXCEPT !.proposal = [p EXCEPT !.human = human]])
  /\ UNCHANGED <<tables, attempts>>

\* Mutant: nobody looks for the proposal of an earlier time.
Link_Blindly(u, filing) ==
  /\ pc[u] = "idle" /\ assessments # <<>>
  /\ LET p == [assessment |-> Latest(DOMAIN assessments), action |-> "reevaluate_candidates",
               origin |-> filing, human |-> "pending"]
     IN  Goto(u, "link", [Blank EXCEPT !.proposal = p])
  /\ UNCHANGED <<tables, attempts, decisions>>

\* _propose_linked_research: an official event of a member asks for a second
\* look at the latest assessment, unless somebody has.
Link(u, filing) ==
  /\ pc[u] = "idle" /\ assessments # <<>>
  /\ LET p == [assessment |-> Latest(DOMAIN assessments), action |-> "reevaluate_candidates",
               origin |-> filing, human |-> "pending"]
     IN  /\ \A q \in proposals : q.assessment # p.assessment \/ q.action # p.action
         /\ Goto(u, "link", [Blank EXCEPT !.proposal = p])
  /\ UNCHANGED <<tables, attempts, decisions>>

\* Either saves its copy, or fails under the unique key.
SaveUserProposal(u) ==
  /\ pc[u] \in {"decide", "link"}
  /\ IF Conflicts(mem[u].proposal) THEN UNCHANGED proposals ELSE SaveProposal(mem[u].proposal)
  /\ Leave(u)
  /\ UNCHANGED <<jobs, assessments, events, acked, attempts, decisions>>

-----------------------------------------------------------------------------
\* A process dies between two store calls.
Crash(t) ==
  /\ pc[t] # "idle"
  /\ Leave(t)
  /\ UNCHANGED <<tables, attempts, decisions>>

Work(w) ==
  \/ SaveRunning(w) \/ Assess(w) \/ SaveAssessment(w) \/ RecordTransition(w) \/ Propose(w)
  \/ Finish(w) \/ Fail(w) \/ SaveFailed(w)

Next ==
  \/ \E w \in Workers : Work(w) \/ \E j \in Jobs : Run(w, j)
  \/ \E u \in Users : \/ \E a \in events : Acknowledge(u, a)
                      \/ \E p \in proposals, h \in {"accepted", "rejected"} : Decide(u, p, h)
                      \/ \E f \in Filings : Link(u, f)
                      \/ SaveUserProposal(u)
  \/ \E t \in Workers \cup Users : Crash(t)

Spec == Init /\ [][Next]_vars

-----------------------------------------------------------------------------
(* Properties                                                              *)

\* A job that is done has everything it stands for: the assessment of its
\* market and day, the event of its transition and the proposal it calls for,
\* whatever attempts failed before (monitoring/service.py lines 271-334).
JobBacked ==
  \A j \in Jobs : jobs[j].status \in Done =>
    LET a == jobs[j].assessment
    IN  /\ a \in DOMAIN assessments
        /\ <<assessments[a].market, assessments[a].day>> = j
        /\ Changed(a) => a \in events
        /\ ActionFor(a) # "none" =>
             \E p \in proposals : p.assessment = a /\ p.action = ActionFor(a)

\* With one worker and one analyst, a decision about a job that is done is
\* final: no later attempt, event or decision undoes it.
DoneDecisionStays ==
  [][\A p \in proposals :
       Decided(p) /\ jobs[<<assessments[p.assessment].market,
                            assessments[p.assessment].day>>].status \in Done
         => p \in proposals']_vars

\* "Theme research proposal has already been decided" (monitoring/service.py
\* line 346): a proposal is decided once.
DecisionStays == [][\A p \in proposals : Decided(p) => p \in proposals']_vars
=============================================================================
