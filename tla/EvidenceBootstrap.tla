-------------------------- MODULE EvidenceBootstrap --------------------------
(***************************************************************************)
(* The autonomous Evidence pass of a Theme run before its graph stage:     *)
(* AutonomousEvidenceBootstrapService.run (research/evidence_bootstrap.py),*)
(* beside users who capture and review the same filings.                   *)
(*                                                                         *)
(* The agent asks a model which companies to look at, official indexes for *)
(* their filings, the model for a selection and, of the text captured, for *)
(* a review.  Calls to models, indexes and sites take long and are steps   *)
(* of their own; store calls between two of them are one step, and so are  *)
(* the users' requests: SourceQueue shows what those lose that overlap.    *)
(* Everything the model and the network answer is a free choice.           *)
(***************************************************************************)
EXTENDS Integers

CONSTANTS
  Companies,    \* companies the model may propose
  Filings,      \* suggestions; the Evidence a filing captures has its id
  Official,     \* the company an official index proves a filing to be of, or "none"
  Contents,     \* what a download may return
  MaxAttempts,  \* bound of the model: attempts of the agent
  MaxRequests   \* bound of the model: requests of the users

BootstrapAssumption ==
  /\ "none" \notin Companies \cup Filings \cup Contents
  /\ Official \in [Filings -> Companies \cup {"none"}]
  /\ MaxAttempts \in Nat /\ MaxRequests \in Nat

VARIABLES
  result,    \* manifest["evidence_bootstrap"] of the run row
  evidence,  \* the Evidence of the run row
  nodes,     \* the companies the run row has nodes of
  queue,     \* rows of source_suggestions
  files,     \* the captured files, by Evidence
  pc,        \* what the agent does next
  mem,       \* its local variables
  accepted,  \* history: Evidence, hash and company of every agent approval
  requests   \* history: requests of the users so far

bootstrapVars == <<result, evidence, nodes, queue, files, pc, mem, accepted, requests>>

-----------------------------------------------------------------------------
\* EvidenceBootstrapState, as the manifest keeps it: captured is the Evidence captured (the
\* code keeps its number), reviews the outcomes.
Outcomes == {"none", "approved", "refused"}
States ==
  [status : {"idle", "running", "completed", "failed"},
   phase : {"idle", "planning_companies", "discovering_official_sources", "capturing_sources",
            "reviewing_evidence", "completed"},
   attempt : 0..MaxAttempts, captured : SUBSET Filings,
   reviews : [Filings -> Outcomes], companies : SUBSET Companies]

\* quoted: the text the quotations of an agent's approval were found in.
Evidence ==
  [status : {"none", "captured", "agent_reviewed", "reviewed", "rejected"},
   hash : Contents \cup {"none"}, quoted : Contents \cup {"none"}]

Suggestions ==
  [status : {"absent", "suggested", "capture_pending", "captured", "duplicate",
             "capture_failed", "dismissed"},
   evidence : Filings \cup {"none"}]

\* todo, asked: candidates to ask the index about, and the one asked about; found: the filings kept, with the status
\* they had; selected: those not captured yet; filing, item: at work; run: the
\* Evidence loaded before a call; text, company: of each Evidence captured;
\* verdicts: the reviews to apply; state: what _persist saves.
Locals ==
  [todo : SUBSET Companies, asked : Companies \cup {"none"}, company : [Filings -> Companies \cup {"none"}],
   found : [Filings -> {"none"} \cup {row.status : row \in Suggestions}],
   selected : SUBSET Filings, filing : Filings \cup {"none"}, item : Filings \cup {"none"},
   run : [Filings -> Evidence], text : [Filings -> Contents \cup {"none"}],
   verdicts : [Filings -> Outcomes], state : States]

NoEvidence == [status |-> "none", hash |-> "none", quoted |-> "none"]
NoReviews == [f \in Filings |-> "none"]
NoEvidences == [f \in Filings |-> NoEvidence]
NoState == [status |-> "idle", phase |-> "idle", attempt |-> 0, captured |-> {},
            reviews |-> NoReviews, companies |-> {}]
Blank == [todo |-> {}, asked |-> "none", company |-> NoReviews, found |-> NoReviews, selected |-> {},
          filing |-> "none", item |-> "none", run |-> NoEvidences, text |-> NoReviews,
          verdicts |-> NoReviews, state |-> NoState]

BootstrapTypeOK ==
  /\ result \in States
  /\ evidence \in [Filings -> Evidence]
  /\ nodes \subseteq Companies
  /\ queue \in [Filings -> Suggestions]
  /\ files \in [Filings -> Contents \cup {"none"}]
  /\ pc \in {"idle", "plan", "discover", "index", "capture", "download", "read", "review", "apply"}
  /\ mem \in Locals
  /\ accepted \subseteq Filings \X Contents \X Companies
  /\ requests \in 0..MaxRequests

BootstrapInit ==
  /\ result = NoState /\ evidence = NoEvidences /\ nodes = {}
  /\ queue = [f \in Filings |-> [status |-> "absent", evidence |-> "none"]]
  /\ files = NoReviews
  /\ pc = "idle" /\ mem = Blank
  /\ accepted = {} /\ requests = 0

-----------------------------------------------------------------------------
Goto(label, m) == pc' = label /\ mem' = m

\* What a call to an index or a site needed is dead when it has returned.
Returned(m) == [m EXCEPT !.asked = "none", !.filing = "none", !.item = "none", !.run = NoEvidences]

\* _persist: the state goes into the manifest of the run as it is by then.
Persist(label, m, state) == result' = state /\ Goto(label, [m EXCEPT !.state = state])

\* Whatever goes wrong, the state so far is kept as a failed attempt.
Abort == result' = [mem.state EXCEPT !.status = "failed"] /\ Goto("idle", Blank)

\* verify_evidence_hash, of Evidence that was captured.
HashVerified(e) == files[e] = evidence[e].hash

\* When read_run_evidence_text returns the text and does not raise.
Readable(e) == evidence[e] # NoEvidence /\ HashVerified(e)

\* evidence_is_agent_reviewed_and_unchanged; the hash its review names is its
\* own, because a new capture replaces the Evidence with its review.
Unchanged(f) == evidence[f].status = "agent_reviewed" /\ HashVerified(f)

\* A completed attempt is answered with its result while what it accepted stands.
Reusable ==
  LET approved == {f \in Filings : result.reviews[f] = "approved"}
  IN  result.status = "completed" /\ approved # {} /\ \A f \in approved : Unchanged(f)

\* The graph stage asks when its copy of the run, perhaps older than the
\* row, has no grounded Evidence.
Start ==
  /\ pc = "idle" /\ ~Reusable /\ result.attempt < MaxAttempts
  /\ Persist("plan", Blank, [NoState EXCEPT !.status = "running", !.phase = "planning_companies",
                                            !.attempt = result.attempt + 1])
  /\ UNCHANGED <<evidence, nodes, queue, files, accepted>>

Plan(candidates) ==
  /\ pc = "plan" /\ candidates # {}
  /\ Persist("discover", [mem EXCEPT !.todo = candidates],
             [mem.state EXCEPT !.phase = "discovering_official_sources"])
  /\ UNCHANGED <<evidence, nodes, queue, files, accepted>>

-----------------------------------------------------------------------------
(* Discovery                                                               *)

\* The queue loads the run before it asks the index about a company.
AskIndex(c) ==
  /\ pc = "discover" /\ c \in mem.todo
  /\ Goto("index", [mem EXCEPT !.todo = mem.todo \ {c}, !.asked = c, !.run = evidence])
  /\ UNCHANGED <<result, evidence, nodes, queue, files, accepted>>

\* Every filing named is suggested, a known one keeps its row, and the run
\* loaded before is saved.  Kept are those proved to be of a candidate.
Discover(named) ==
  /\ pc = "index"
  /\ queue' = [f \in Filings |-> IF f \in named /\ queue[f].status = "absent"
                                 THEN [queue[f] EXCEPT !.status = "suggested"] ELSE queue[f]]
  /\ evidence' = mem.run
  /\ Goto("discover", [Returned(mem) EXCEPT !.found = [f \in Filings |->
             IF f \in named /\ Official[f] = mem.asked
             THEN queue'[f].status ELSE mem.found[f]]])
  /\ UNCHANGED <<result, nodes, files, accepted>>

\* A failed index is recorded in the run loaded before, and passed over.
DiscoverFails ==
  /\ pc = "index"
  /\ evidence' = mem.run
  /\ Goto("discover", Returned(mem))
  /\ UNCHANGED <<result, nodes, queue, files, accepted>>

\* The model selects among the filings found.
Select(selected) ==
  /\ pc = "discover" /\ mem.todo = {}
  /\ selected # {} /\ \A f \in selected : mem.found[f] # "none"
  /\ Persist("capture", [mem EXCEPT !.selected = selected, !.found =
               [f \in Filings |-> IF f \in selected THEN mem.found[f] ELSE "none"]],
             [mem.state EXCEPT !.phase = "capturing_sources"])
  /\ UNCHANGED <<evidence, nodes, queue, files, accepted>>

-----------------------------------------------------------------------------
(* Capture                                                                 *)

Capturable(retry) ==
  {"suggested", "capture_failed"} \cup (IF retry THEN {"duplicate", "captured"} ELSE {})

\* How a capture ends: bytes the run loaded first has make a duplicate (so
\* does a URL another filing has: SourceQueue).
Captures(f, content, seen) ==
  LET same == {e \in Filings \ {queue[f].evidence} : seen[e].hash = content}
  IN  IF same = {} THEN {[status |-> "captured", evidence |-> f]}
      ELSE {[status |-> "duplicate", evidence |-> e] : e \in same}

\* The file is written in either case; only a capture replaces its Evidence.
Attach(f, row, content) ==
  /\ files' = [files EXCEPT ![f] = content]
  /\ queue' = [queue EXCEPT ![f] = row]
  /\ evidence' = IF row.status = "duplicate" THEN evidence
                 ELSE [evidence EXCEPT ![f] =
                         [NoEvidence EXCEPT !.status = "captured", !.hash = content]]

\* A failure after the download has replaced the file and nothing else.
Fail(f, status) ==
  /\ queue' = [queue EXCEPT ![f].status = status]
  /\ \/ UNCHANGED files
     \/ \E content \in Contents : files' = [files EXCEPT ![f] = content]
  /\ UNCHANGED evidence

\* A filing that was captured when it was discovered is captured again; one
\* that cannot be captured by now is passed over.
Capture(f) ==
  /\ pc = "capture" /\ f \in mem.selected
  /\ LET m == [mem EXCEPT !.selected = mem.selected \ {f}]
     IN  IF queue[f].status \in Capturable(mem.found[f] \in {"captured", "duplicate"})
         THEN /\ queue' = [queue EXCEPT ![f].status = "capture_pending"]
              /\ Goto("download", [m EXCEPT !.filing = f, !.run = evidence])
         ELSE Goto("capture", m) /\ UNCHANGED queue
  /\ UNCHANGED <<result, evidence, nodes, files, accepted>>

Download(content) ==
  /\ pc = "download"
  /\ \E row \in Captures(mem.filing, content, mem.run) :
       Attach(mem.filing, row, content) /\ Goto("read", [mem EXCEPT !.item = row.evidence])
  /\ UNCHANGED <<result, nodes, accepted>>

DownloadFails ==
  /\ pc = "download"
  /\ Fail(mem.filing, "capture_failed")
  /\ Goto("capture", Returned(mem))
  /\ UNCHANGED <<result, nodes, accepted>>

\* The text is read if the file is the one captured; of a duplicate it is that
\* of the other capture.
Read ==
  /\ pc = "read"
  /\ LET e == mem.item
     IN  IF Readable(e)
         THEN /\ Goto("capture", [Returned(mem) EXCEPT !.text[e] = evidence[e].hash,
                                            !.company[e] = Official[mem.filing]])
              /\ UNCHANGED result
         ELSE Abort
  /\ UNCHANGED <<evidence, nodes, queue, files, accepted>>

Captured ==
  /\ pc = "capture" /\ mem.selected = {}
  /\ LET captured == {e \in Filings : mem.company[e] # "none"}
     IN  IF captured = {} THEN Abort
         ELSE Persist("review", [mem EXCEPT !.found = NoReviews],
                     [mem.state EXCEPT !.phase = "reviewing_evidence", !.captured = captured])
  /\ UNCHANGED <<evidence, nodes, queue, files, accepted>>

-----------------------------------------------------------------------------
(* Review                                                                  *)

\* Mutant: an Evidence the model forgot is forgotten.
Review_OnlyReturned(returned, approved) ==
  /\ pc = "review"
  /\ Goto("apply", [mem EXCEPT !.verdicts = [e \in Filings |->
             IF e \notin returned THEN "none" ELSE IF e \in approved THEN "approved" ELSE "refused"]])
  /\ UNCHANGED <<result, evidence, nodes, queue, files, accepted>>

\* The model returns reviews of the texts captured; one with quotations that
\* are not in the text, and one it did not return, approves nothing.
Review(returned, approved) ==
  /\ pc = "review"
  /\ Goto("apply", [mem EXCEPT !.verdicts = [e \in Filings |->
             IF e \notin mem.state.captured THEN "none"
             ELSE IF e \in approved THEN "approved" ELSE "refused"]])
  /\ UNCHANGED <<result, evidence, nodes, queue, files, accepted>>

\* review_run_evidence with the agent's record, whose hash is that of the
\* Evidence as it is by then; only an unchanged file can be approved.
Apply(e) ==
  /\ pc = "apply" /\ mem.verdicts[e] # "none"
  /\ LET approves == mem.verdicts[e] = "approved"
         hash == evidence[e].hash
     IN  IF evidence[e] = NoEvidence \/ (approves /\ ~HashVerified(e))
         THEN Abort /\ UNCHANGED <<evidence, accepted>>
         ELSE /\ evidence' = [evidence EXCEPT ![e] =
                    [status |-> IF approves THEN "agent_reviewed" ELSE "rejected", hash |-> hash,
                     quoted |-> IF approves THEN mem.text[e] ELSE "none"]]
              /\ accepted' = IF approves THEN accepted \cup {<<e, hash, mem.company[e]>>}
                             ELSE accepted
              /\ Goto("apply", [mem EXCEPT !.verdicts[e] = "none", !.text[e] = "none",
                                           !.state.reviews[e] = mem.verdicts[e]])
              /\ UNCHANGED result
  /\ UNCHANGED <<nodes, queue, files>>

\* Mutant: every company a filing was captured of becomes a node.
Verified_Captured(state) == {mem.company[e] : e \in state.captured}

\* The companies with an Evidence approved.
Verified(state) == {mem.company[e] : e \in {f \in Filings : state.reviews[f] = "approved"}}

\* The end: nodes of earlier attempts stay.
Complete ==
  /\ pc = "apply" /\ mem.verdicts = NoReviews
  /\ IF \A e \in Filings : mem.state.reviews[e] # "approved"
     THEN Abort /\ UNCHANGED nodes
     ELSE /\ nodes' = nodes \cup Verified(mem.state)
          /\ result' = [mem.state EXCEPT !.status = "completed", !.phase = "completed",
                                         !.companies = Verified(mem.state)]
          /\ Goto("idle", Blank)
  /\ UNCHANGED <<evidence, queue, files, accepted>>

-----------------------------------------------------------------------------
\* A model fails, or what it answered is of no use: a company of another
\* market, none that an index knows, no filing selected.
ModelFails ==
  /\ pc \in {"plan", "discover", "review"}
  /\ Abort
  /\ UNCHANGED <<evidence, nodes, queue, files, accepted>>

\* The process dies.
Crash ==
  /\ pc # "idle"
  /\ Goto("idle", Blank)
  /\ UNCHANGED <<result, evidence, nodes, queue, files, accepted>>

Agent ==
  \/ Start \/ (\E candidates \in SUBSET Companies : Plan(candidates))
  \/ (\E c \in Companies : AskIndex(c)) \/ (\E named \in SUBSET Filings : Discover(named))
  \/ DiscoverFails \/ (\E selected \in SUBSET Filings : Select(selected))
  \/ (\E f \in Filings : Capture(f) \/ Apply(f))
  \/ (\E content \in Contents : Download(content)) \/ DownloadFails \/ Read \/ Captured
  \/ (\E returned \in SUBSET mem.state.captured, approved \in SUBSET mem.state.captured :
        approved \subseteq returned /\ Review(returned, approved))
  \/ Complete \/ ModelFails \/ Crash

-----------------------------------------------------------------------------
(* Users                                                                   *)

UserCaptures(f, content) ==
  /\ queue[f].status \in Capturable(TRUE)
  /\ \E row \in Captures(f, content, evidence) : Attach(f, row, content)

\* It fails, or its process dies and leaves it pending.
UserCaptureFails(f) ==
  /\ queue[f].status \in Capturable(TRUE)
  /\ \E status \in {"capture_failed", "capture_pending"} : Fail(f, status)

Dismiss(f) ==
  /\ queue[f].status \notin {"absent", "captured"}
  /\ queue' = [queue EXCEPT ![f].status = "dismissed"]
  /\ UNCHANGED <<evidence, files>>

\* review_run_evidence without a record: the user decides.
Decide(e, approve) ==
  /\ evidence[e] # NoEvidence /\ (approve => HashVerified(e))
  /\ evidence' = [evidence EXCEPT ![e].status = IF approve THEN "reviewed" ELSE "rejected",
                                  ![e].quoted = "none"]
  /\ UNCHANGED <<queue, files>>

User ==
  /\ requests < MaxRequests /\ requests' = requests + 1
  /\ \E f \in Filings :
       \/ \E content \in Contents : UserCaptures(f, content)
       \/ UserCaptureFails(f) \/ Dismiss(f)
       \/ \E approve \in BOOLEAN : Decide(f, approve)
  /\ UNCHANGED <<result, nodes, pc, mem, accepted>>

BootstrapNext == (Agent /\ UNCHANGED requests) \/ User

BootstrapSpec == BootstrapInit /\ [][BootstrapNext]_bootstrapVars

-----------------------------------------------------------------------------
(* Properties                                                              *)

\* "Every captured source must receive a review outcome" (docs/LIVE_RESEARCH.md
\* line 65): a completed attempt has one of all it captured, whatever its
\* model forgot (evidence_bootstrap.py lines 485-517).
CapturesAreReviewed ==
  result.status = "completed" =>
    \A e \in result.captured : result.reviews[e] # "none"

\* Trust is earned: an Evidence the agent reviewed was approved with exactly
\* this hash, whatever is captured again, decided or saved from an old copy
\* meanwhile, and a company the pass made a node of had an Evidence approved
\* that an official index proved to be of it (lines 351-373, 518-620).
ApprovalsBackTrust ==
  /\ \A e \in Filings : evidence[e].status = "agent_reviewed" =>
       \E c \in Companies : <<e, evidence[e].hash, c>> \in accepted
  /\ \A c \in nodes : \E e \in Filings, h \in Contents : <<e, h, c>> \in accepted

\* "agent_reviewed means an independent Evidence Review Agent returned decision
\* provenance and exact supporting quotations that deterministic code found in
\* the hash-bound captured text" (docs/LIVE_RESEARCH.md lines 48-50): the text
\* with the quotations is the one whose hash the Evidence has.
QuotesAreOfTheCapture ==
  \A e \in Filings : evidence[e].status = "agent_reviewed" => evidence[e].quoted = evidence[e].hash
=============================================================================
