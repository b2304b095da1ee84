---------------------------- MODULE SourceQueue ----------------------------
(***************************************************************************)
(* The official-source review queue of one research run and its Evidence   *)
(* ledger: SourceDiscoveryService (sources/service.py) over                *)
(* SourceSuggestionStore (sources/store.py), attach_collected_document and *)
(* review_run_evidence (tools/evidence.py).                                *)
(*                                                                         *)
(* Requests run in threads of their own and lock nothing.  A suggestion is *)
(* one row; the ledger is a field of the run row, which every operation    *)
(* loads and later saves as a whole.  One action is one store call, with   *)
(* the reads that directly precede it; the queue artifact is left out.     *)
(*                                                                         *)
(* A suggestion's id is a hash of its provider and of the URL suggested;  *)
(* its canonical URL, unique in the queue, becomes the URL a redirect led  *)
(* to.  The Evidence it captures has the id of the suggestion.             *)
(***************************************************************************)
EXTENDS Integers, FiniteSets

CONSTANTS
  Sources,      \* ids of suggestions
  Discovered,   \* those an official index discovers; users suggest the others
  Urls,         \* canonical URLs
  UrlOf,        \* the URL each suggestion is made of
  Contents,     \* what a download may return
  Users,        \* request threads
  MaxRequests,  \* bound of the model: requests made
  MaxCrashes    \* bound of the model: crashes

ASSUME NamesAssumption == "none" \notin Sources \cup Urls \cup Contents
ASSUME SourcesAssumption == Discovered \subseteq Sources /\ UrlOf \in [Sources -> Urls]
ASSUME QueueBounds == MaxRequests \in Nat /\ MaxCrashes \in Nat

VARIABLES
  queue,     \* rows of source_suggestions
  ledger,    \* the Evidence of the run row
  files,     \* the captured files, by Evidence
  pc,        \* per thread: its next store call
  mem,       \* per thread: its local variables
  approved,  \* history: the Evidence and hashes a human approved
  requests,  \* history: requests so far
  crashes    \* history: crashes so far

queueVars == <<queue, ledger, files, pc, mem, approved, requests, crashes>>

-----------------------------------------------------------------------------
Statuses == {"absent", "suggested", "selected", "capture_pending", "captured",
             "capture_failed", "duplicate", "dismissed"}
Suggestions ==
  {row \in [status : Statuses, url : Urls \cup {"none"}, evidence : Sources \cup {"none"}] :
     /\ row.status = "absent" <=> row.url = "none"
     /\ row.status \in {"captured", "duplicate"} => row.evidence # "none"}
Evidence == [status : {"none", "captured", "reviewed", "rejected"}, hash : Contents \cup {"none"}]
Ledgers == [Sources -> Evidence]

\* mem[t]: the suggestion (or Evidence) at work, the copies of its row and of
\* the ledger read last, the content downloaded, the canonical URL it makes,
\* how the last request ended ("raised": a store error).
Locals == [source : Sources \cup {"none"}, row : Suggestions, run : Ledgers,
           doc : Contents \cup {"none"}, url : Urls \cup {"none"},
           out : {"none", "ok", "error", "raised"}]

PCs == {"idle", "discover", "find", "add", "record", "select", "pend", "collect", "match",
        "attach_load", "attach_save", "finish", "events", "note", "fail", "dismiss", "review"}

Absent == [status |-> "absent", url |-> "none", evidence |-> "none"]
NoEvidence == [status |-> "none", hash |-> "none"]
EmptyLedger == [s \in Sources |-> NoEvidence]
Blank == [source |-> "none", row |-> Absent, run |-> EmptyLedger,
          doc |-> "none", url |-> "none", out |-> "none"]

QueueTypeOK ==
  /\ queue \in [Sources -> Suggestions]
  /\ \A r, s \in Sources : r # s /\ queue[r] # Absent => queue[r].url # queue[s].url
  /\ ledger \in Ledgers
  /\ files \in [Sources -> Contents \cup {"none"}]
  /\ pc \in [Users -> PCs]
  /\ mem \in [Users -> Locals]
  /\ approved \subseteq Sources \X Contents
  /\ requests \in 0..MaxRequests /\ crashes \in 0..MaxCrashes

QueueInit ==
  /\ queue = [s \in Sources |-> Absent]
  /\ ledger = EmptyLedger
  /\ files = [s \in Sources |-> "none"]
  /\ pc = [t \in Users |-> "idle"]
  /\ mem = [t \in Users |-> Blank]
  /\ approved = {}
  /\ requests = 0
  /\ crashes = 0

-----------------------------------------------------------------------------
Goto(t, label, m) == pc' = [pc EXCEPT ![t] = label] /\ mem' = [mem EXCEPT ![t] = m]

\* A request starts with its local variables, at its first store call.
Request(t, label, m) == pc[t] = "idle" /\ Goto(t, label, m)

\* One more request of a user.
Counted == requests < MaxRequests /\ requests' = requests + 1

\* The request ends; the row it worked on is what it returns.
Return(t, out) ==
  Goto(t, "idle", [Blank EXCEPT !.out = out, !.source = mem[t].source, !.row = mem[t].row])

\* find_by_url: the suggestion whose canonical URL this is, if any.
ByUrl(u) == {s \in Sources : queue[s].url = u}

\* SourceSuggestionStore.save overwrites the row with the caller's copy, and
\* raises if another row has its canonical URL.
Saves(t, row, label, m) ==
  IF ByUrl(row.url) \subseteq {mem[t].source}
  THEN queue' = [queue EXCEPT ![mem[t].source] = row] /\ Goto(t, label, m)
  ELSE Return(t, "raised") /\ UNCHANGED queue

-----------------------------------------------------------------------------
(* discover, suggest_url                                                   *)

\* The run is loaded before the provider is asked: a URL of the user's, or
\* an official index.  An index that names several only keeps its copy of
\* the run for longer.
Suggest(t, s) ==
  /\ Request(t, IF s \in Discovered THEN "discover" ELSE "find",
             [Blank EXCEPT !.source = s, !.run = ledger])
  /\ UNCHANGED <<queue, ledger, files, approved, crashes>>

Discover(t) ==
  /\ pc[t] = "discover"
  /\ Goto(t, "find", mem[t])
  /\ UNCHANGED <<queue, ledger, files, approved, crashes>>

\* The index fails: the failure is recorded in the run loaded before.
DiscoverFails(t) ==
  /\ pc[t] = "discover"
  /\ ledger' = mem[t].run
  /\ Return(t, "error")
  /\ UNCHANGED <<queue, files, approved, crashes>>

\* SourceSuggestionStore.add, its lookup: a known URL is its own suggestion.
FindByUrl(t) ==
  /\ pc[t] = "find"
  /\ LET known == ByUrl(UrlOf[mem[t].source])
     IN  IF known = {} THEN Goto(t, "add", mem[t])
         ELSE \E s \in known :
                Goto(t, "add", [mem[t] EXCEPT !.source = s, !.row = queue[s]])
  /\ UNCHANGED <<queue, ledger, files, approved, crashes>>

\* A known suggestion gets its own copy back, with a duplicate counted; a new
\* one is inserted, if neither its id nor its URL is taken.
Add(t) ==
  /\ pc[t] = "add"
  /\ LET new == [Absent EXCEPT !.status = "suggested", !.url = UrlOf[mem[t].source]]
     IN  IF mem[t].row # Absent THEN Saves(t, mem[t].row, "record", mem[t])
         ELSE IF queue[mem[t].source] = Absent
         THEN Saves(t, new, "record", [mem[t] EXCEPT !.row = new])
         ELSE Return(t, "raised") /\ UNCHANGED queue
  /\ UNCHANGED <<ledger, files, approved, crashes>>

\* _record_provider saves the run loaded before.
Record(t) ==
  /\ pc[t] = "record"
  /\ ledger' = mem[t].run
  /\ Return(t, "ok")
  /\ UNCHANGED <<queue, files, approved, crashes>>

-----------------------------------------------------------------------------
(* capture, retry                                                          *)

Capturable(retry) ==
  {"suggested", "selected", "capture_failed"} \cup (IF retry THEN {"duplicate", "captured"} ELSE {})

Capture(t, s, retry) ==
  /\ queue[s] # Absent
  /\ LET row == [queue[s] EXCEPT !.status = "selected"]
     IN  IF queue[s].status \in Capturable(retry)
         THEN Request(t, "select", [Blank EXCEPT !.source = s, !.row = row, !.run = ledger])
         ELSE Request(t, "idle", [Blank EXCEPT !.source = s, !.row = queue[s], !.out = "error"])
  /\ UNCHANGED <<queue, ledger, files, approved, crashes>>

Select(t) ==
  /\ pc[t] = "select"
  /\ Saves(t, mem[t].row, "pend",
           [mem[t] EXCEPT !.row = [mem[t].row EXCEPT !.status = "capture_pending"]])
  /\ UNCHANGED <<ledger, files, approved, crashes>>

Pend(t) ==
  /\ pc[t] = "pend"
  /\ Saves(t, mem[t].row, "collect", mem[t])
  /\ UNCHANGED <<ledger, files, approved, crashes>>

\* EvidenceCollector.collect downloads and writes the files of this Evidence.
Collect(t, content) ==
  /\ pc[t] = "collect"
  /\ files' = [files EXCEPT ![mem[t].source] = content]
  /\ Goto(t, "match", [mem[t] EXCEPT !.doc = content])
  /\ UNCHANGED <<queue, ledger, approved, crashes>>

\* The Evidence, in the run loaded first, that has the bytes downloaded.
SameBytes(m) ==
  {e \in Sources \ {m.row.evidence} : m.run[e] # NoEvidence /\ m.run[e].hash = m.doc}

Outcome(row, status, evidence, url) ==
  [row EXCEPT !.status = status, !.evidence = evidence, !.url = url]

\* Mutant: a duplicate of any known URL, whether it has Evidence or not.
Match_AnyKnownUrl(t, final) ==
  /\ pc[t] = "match"
  /\ LET others == ByUrl(final) \ {mem[t].source}
     IN  IF others # {}
         THEN \E s \in others :
                Goto(t, "finish", [mem[t] EXCEPT !.row = Outcome(mem[t].row, "duplicate",
                                                   queue[s].evidence, mem[t].row.url)])
         ELSE Goto(t, "attach_load", [mem[t] EXCEPT !.url = final])
  /\ UNCHANGED <<queue, ledger, files, approved, crashes>>

\* A download that ends at the URL of another suggestion with Evidence makes
\* a duplicate of it; so do bytes known already.  A URL nobody has becomes
\* the canonical one.
Match(t, final) ==
  /\ pc[t] = "match"
  /\ LET others == ByUrl(final) \ {mem[t].source}
         url == IF others = {} THEN final ELSE mem[t].row.url
         known == {queue[s].evidence : s \in others} \ {"none"}
         same == IF known # {} THEN known ELSE SameBytes(mem[t])
     IN  IF same # {}
         THEN \E e \in same :
                Goto(t, "finish",
                     [mem[t] EXCEPT !.row = Outcome(mem[t].row, "duplicate", e, url)])
         ELSE Goto(t, "attach_load", [mem[t] EXCEPT !.url = url])
  /\ UNCHANGED <<queue, ledger, files, approved, crashes>>

\* Mutant: the row says captured before the run has the Evidence.
AttachLoad_RowFirst(t) ==
  /\ pc[t] = "attach_load"
  /\ Saves(t, Outcome(mem[t].row, "captured", mem[t].source, mem[t].url), "attach_save",
           [mem[t] EXCEPT !.run = ledger])
  /\ UNCHANGED <<ledger, files, approved, crashes>>

\* attach_collected_document loads the run anew ...
AttachLoad(t) ==
  /\ pc[t] = "attach_load"
  /\ Goto(t, "attach_save", [mem[t] EXCEPT !.run = ledger])
  /\ UNCHANGED <<queue, ledger, files, approved, crashes>>

\* Mutant: captured again, an Evidence keeps its review.
AttachSave_KeepsReview(t) ==
  /\ pc[t] = "attach_save"
  /\ LET kept == mem[t].run[mem[t].source].status
         item == [status |-> IF kept = "none" THEN "captured" ELSE kept, hash |-> mem[t].doc]
     IN  ledger' = [mem[t].run EXCEPT ![mem[t].source] = item]
  /\ Goto(t, "finish", [mem[t] EXCEPT !.row =
            Outcome(mem[t].row, "captured", mem[t].source, mem[t].url)])
  /\ UNCHANGED <<queue, files, approved, crashes>>

\* ... and saves it with this Evidence replaced.
AttachSave(t) ==
  /\ pc[t] = "attach_save"
  /\ ledger' = [mem[t].run EXCEPT ![mem[t].source] = [status |-> "captured", hash |-> mem[t].doc]]
  /\ Goto(t, "finish", [mem[t] EXCEPT !.row =
            Outcome(mem[t].row, "captured", mem[t].source, mem[t].url)])
  /\ UNCHANGED <<queue, files, approved, crashes>>

Finish(t) ==
  /\ pc[t] = "finish"
  /\ Saves(t, mem[t].row, "events", mem[t])
  /\ UNCHANGED <<ledger, files, approved, crashes>>

\* The event calendar takes note of the suggestion (a part of its own) ...
Events(t) ==
  /\ pc[t] = "events"
  /\ Return(t, "ok")
  /\ UNCHANGED <<queue, ledger, files, approved, crashes>>

\* ... or fails, which the run is loaded again to record.
EventsFail(t) ==
  /\ pc[t] = "events"
  /\ Goto(t, "note", [mem[t] EXCEPT !.run = ledger])
  /\ UNCHANGED <<queue, ledger, files, approved, crashes>>

SaveNote(t) ==
  /\ pc[t] = "note"
  /\ ledger' = mem[t].run
  /\ Return(t, "ok")
  /\ UNCHANGED <<queue, files, approved, crashes>>

\* Any error since the download began makes the row, as it is by then, a
\* failed capture.
CaptureFails(t) ==
  /\ pc[t] \in {"collect", "match", "attach_load", "attach_save", "finish", "note"}
  /\ Goto(t, "fail", [mem[t] EXCEPT !.row = [mem[t].row EXCEPT !.status = "capture_failed"]])
  /\ UNCHANGED <<queue, ledger, files, approved, crashes>>

Fail(t) ==
  /\ pc[t] = "fail"
  /\ Saves(t, mem[t].row, "idle", [Blank EXCEPT !.out = "error", !.source = mem[t].source,
                                                !.row = mem[t].row])
  /\ UNCHANGED <<ledger, files, approved, crashes>>

-----------------------------------------------------------------------------
(* dismiss                                                                 *)

Dismissal(t, s) ==
  Request(t, "dismiss", [Blank EXCEPT !.source = s,
                                      !.row = [queue[s] EXCEPT !.status = "dismissed"]])

Dismiss(t, s) ==
  /\ queue[s] # Absent /\ queue[s].status # "captured"
  /\ Dismissal(t, s)
  /\ UNCHANGED <<queue, ledger, files, approved, crashes>>

SaveDismissed(t) ==
  /\ pc[t] = "dismiss"
  /\ Saves(t, mem[t].row, "idle", [Blank EXCEPT !.out = "ok", !.source = mem[t].source,
                                                !.row = mem[t].row])
  /\ UNCHANGED <<ledger, files, approved, crashes>>

-----------------------------------------------------------------------------
(* review_run_evidence                                                     *)

\* Only the unchanged file of the capture can be approved.
Review(t, e, approve) ==
  /\ ledger[e] # NoEvidence
  /\ LET decision == IF approve THEN "reviewed" ELSE "rejected"
         run == [ledger EXCEPT ![e] = [ledger[e] EXCEPT !.status = decision]]
     IN  IF approve => files[e] = ledger[e].hash
         THEN Request(t, "review", [Blank EXCEPT !.source = e, !.run = run])
         ELSE Request(t, "idle", [Blank EXCEPT !.source = e, !.out = "error"])
  /\ UNCHANGED <<queue, ledger, files, approved, crashes>>

SaveReview(t) ==
  /\ pc[t] = "review"
  /\ LET e == mem[t].source
     IN  /\ ledger' = mem[t].run
         /\ approved' = IF mem[t].run[e].status = "reviewed"
                        THEN approved \cup {<<e, mem[t].run[e].hash>>} ELSE approved
  /\ Return(t, "ok")
  /\ UNCHANGED <<queue, files, crashes>>

-----------------------------------------------------------------------------
\* The process dies between two store calls.
Crash(t) ==
  /\ pc[t] # "idle" /\ crashes < MaxCrashes
  /\ crashes' = crashes + 1
  /\ Goto(t, "idle", Blank)
  /\ UNCHANGED <<queue, ledger, files, approved>>

\* The steps of a request after the first.
Proceed(t) ==
  \/ Discover(t) \/ DiscoverFails(t) \/ FindByUrl(t) \/ Add(t) \/ Record(t)
  \/ Select(t) \/ Pend(t) \/ (\E content \in Contents : Collect(t, content))
  \/ (\E final \in Urls : Match(t, final))
  \/ AttachLoad(t) \/ AttachSave(t) \/ Finish(t) \/ Events(t) \/ EventsFail(t) \/ SaveNote(t)
  \/ CaptureFails(t) \/ Fail(t) \/ SaveDismissed(t) \/ SaveReview(t)

\* A new request to the queue or the ledger.
Ask(t) ==
  \E s \in Sources :
    \/ Suggest(t, s) \/ Dismiss(t, s)
    \/ \E flag \in BOOLEAN : Capture(t, s, flag) \/ Review(t, s, flag)

QueueNext ==
  \E t \in Users : \/ (Proceed(t) \/ Crash(t)) /\ UNCHANGED requests
                   \/ Ask(t) /\ Counted

QueueSpec == QueueInit /\ [][QueueNext]_queueVars

-----------------------------------------------------------------------------
(* Properties                                                              *)

\* What the ledger calls reviewed, a human approved with exactly this hash:
\* neither a new capture nor a stale copy of the run carries a review over to
\* other bytes (evidence.py lines 259-274, 340-377).
ReviewedIsApproved ==
  \A e \in Sources : ledger[e].status = "reviewed" => <<e, ledger[e].hash>> \in approved

\* A captured suggestion, or a duplicate of one, names Evidence the run has
\* (sources/service.py lines 206-247: the run is saved first).
CapturedHasEvidence ==
  \A s \in Sources : queue[s].status \in {"captured", "duplicate"} =>
                        ledger[queue[s].evidence] # NoEvidence

\* "neither operation silently overwrites an existing capture"
\* (docs/DECISIONS.md, D010): Evidence of a suggestion found to be a duplicate
\* still has the file it was captured with (sources/service.py lines 193-235).
DuplicateKeepsCapture ==
  \A s \in Sources : queue[s].status = "duplicate" /\ ledger[s] # NoEvidence =>
                        files[s] = ledger[s].hash
=============================================================================
