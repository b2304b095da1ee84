------------------------- MODULE SourceQueueProofs -------------------------
(***************************************************************************)
(* Theorems about SourceQueue, for every set of users, sources, URLs and   *)
(* contents, whatever requests overlap or crash: what is reviewed a human  *)
(* approved; and, for one user, what is captured is in the ledger.         *)
(***************************************************************************)
EXTENDS SourceQueue, TLAPS

\* Evidence a ledger has was captured with some content.
WellFormed(run) ==
  \A e \in Sources : run[e] # NoEvidence => run[e].status # "none" /\ run[e].hash \in Contents

\* A row without a status is no row.
Real(row) == row.status = "absent" => row = Absent

\* Program counters of the queue: with a row of the queue in hand, with a
\* download, with an outcome.
Holding == {"select", "pend", "collect", "match", "attach_load", "attach_save", "finish",
            "events", "note", "fail", "dismiss"}
Loaded == {"match", "attach_load", "attach_save"}
Settled == {"finish", "events", "note"}

\* What a thread's local variables say at each point of its request to the
\* queue: its copy of the ledger claims no review but the one it is about to
\* save, so saving it, however late, claims none either.
Fits(label, m, agreed) ==
  /\ label # "idle" => m.source \in Sources
  /\ Real(m.row) /\ WellFormed(m.run)
  /\ \A e \in Sources : m.run[e].status = "reviewed" =>
       ((label = "review" /\ e = m.source) \/ <<e, m.run[e].hash>> \in agreed)
  /\ label \in Holding => m.row.status # "absent"
  /\ label \in Loaded => m.doc \in Contents
  /\ label \in {"attach_load", "attach_save"} => m.url \in Urls
  /\ label \in Settled => m.row.status \in {"captured", "duplicate"}

QInv == /\ QueueTypeOK /\ WellFormed(ledger) /\ ReviewedIsApproved
        /\ \A s \in Sources : Real(queue[s])
        /\ \A t \in Users : Fits(pc[t], mem[t], approved)

\* The rows of the queue, and the ledger, as QInv has them.
RowsOK == /\ queue \in [Sources -> Suggestions]
          /\ \A r, s \in Sources : r # s /\ queue[r] # Absent => queue[r].url # queue[s].url
          /\ \A s \in Sources : Real(queue[s])
LedgerOK == ledger \in Ledgers /\ WellFormed(ledger) /\ ReviewedIsApproved

\* What a step of thread t does to the others: nothing; and to the history of
\* approvals: it adds to it.
Apart(t) == /\ \A u \in Users \ {t} : pc'[u] = pc[u] /\ mem'[u] = mem[u]
            /\ approved \subseteq approved'

\* Thread t has moved, and what its local variables should say, they say.
Moved(t) == \E label \in PCs, m \in Locals : Goto(t, label, m) /\ Fits(label, m, approved')

-----------------------------------------------------------------------------
LEMMA Names == "none" \notin Sources /\ "none" \notin Urls /\ "none" \notin Contents
  BY NamesAssumption

\* The local variables of an idle thread.
LEMMA BlankFits ==
  ASSUME NEW agreed, NEW source \in Sources \cup {"none"}, NEW row \in Suggestions, Real(row),
         NEW out \in {"none", "ok", "error", "raised"}
  PROVE  LET m == [Blank EXCEPT !.out = out, !.source = source, !.row = row]
         IN  m \in Locals /\ Fits("idle", m, agreed)
  BY Names DEF Blank, Locals, Fits, WellFormed, EmptyLedger, NoEvidence, Ledgers, Evidence,
     Holding, Loaded, Settled, Real, Absent, Suggestions, Statuses

LEMMA Typed == ASSUME QInv, NEW t \in Users
               PROVE  /\ pc[t] \in PCs /\ mem[t] \in Locals /\ Fits(pc[t], mem[t], approved)
                      /\ RowsOK /\ LedgerOK
  BY DEF QInv, QueueTypeOK, RowsOK, LedgerOK

LEMMA ReturnMoves ==
  ASSUME QInv, NEW t \in Users, NEW out \in {"none", "ok", "error", "raised"}, Return(t, out)
  PROVE  Moved(t)
<1> PICK m \in Locals : m = mem[t]
  BY Typed
<1>1. m.source \in Sources \cup {"none"} /\ m.row \in Suggestions /\ Real(m.row)
  BY Typed DEF Locals, Fits
<1> DEFINE n == [Blank EXCEPT !.out = out, !.source = m.source, !.row = m.row]
<1>2. \A agreed : n \in Locals /\ Fits("idle", n, agreed)
  BY <1>1, BlankFits
<1>3. Goto(t, "idle", n)
  BY DEF Return
<1> HIDE DEF n
<1> QED BY <1>2, <1>3 DEF Moved, PCs

\* Saving a row keeps URLs unique: if another has the row's, nothing is saved.
LEMMA SavesRow ==
  ASSUME QInv, NEW t \in Users, NEW row \in Suggestions, row.status # "absent",
         mem[t].source \in Sources, NEW label \in PCs, NEW m \in Locals,
         Fits(label, m, approved'), Saves(t, row, label, m)
  PROVE  RowsOK' /\ Moved(t)
<1>1. CASE ByUrl(row.url) \subseteq {mem[t].source}
  <2>1. queue' = [queue EXCEPT ![mem[t].source] = row] /\ Goto(t, label, m)
    BY <1>1 DEF Saves
  <2>2. Moved(t)
    BY <2>1 DEF Moved
  <2>3. row.url # "none" /\ Real(row)
    BY DEF Suggestions, Real
  <2>4. \A s \in Sources : s # mem[t].source => queue[s].url # row.url
    BY <1>1 DEF ByUrl
  <2> QED BY <2>1, <2>2, <2>3, <2>4, Typed DEF RowsOK
<1>2. CASE ~(ByUrl(row.url) \subseteq {mem[t].source})
  BY <1>2, ReturnMoves, Typed DEF Saves, RowsOK, Real
<1> QED BY <1>1, <1>2

LEMMA QueueStep ==
  ASSUME QInv, NEW t \in Users, Moved(t), RowsOK', LedgerOK',
         files' \in [Sources -> Contents \cup {"none"}],
         approved \subseteq approved', approved' \subseteq Sources \X Contents,
         requests' \in 0..MaxRequests, crashes' \in 0..MaxCrashes
  PROVE  QInv'
<1> PICK label \in PCs, m \in Locals : Goto(t, label, m) /\ Fits(label, m, approved')
  BY DEF Moved
<1>1. pc' \in [Users -> PCs] /\ mem' \in [Users -> Locals]
  BY DEF QInv, QueueTypeOK, Goto
<1>2. \A u \in Users : Fits(pc'[u], mem'[u], approved')
  <2> TAKE u \in Users
  <2>1. CASE u = t
    BY <2>1 DEF QInv, QueueTypeOK, Goto
  <2>2. CASE u # t
    <3>1. pc'[u] = pc[u] /\ mem'[u] = mem[u]
      BY <2>2 DEF QInv, QueueTypeOK, Goto
    <3>2. Fits(pc[u], mem[u], approved)
      BY DEF QInv
    <3> QED BY <3>1, <3>2 DEF Fits
  <2> QED BY <2>1, <2>2
<1> QED BY <1>1, <1>2 DEF QInv, QueueTypeOK, RowsOK, LedgerOK

\* What the queue and the ledger are when a step does not change them.
LEMMA SameRows == ASSUME QInv, UNCHANGED queue PROVE RowsOK'
  BY DEF QInv, QueueTypeOK, RowsOK, Real
LEMMA SameLedger == ASSUME QInv, UNCHANGED <<ledger, approved>> PROVE LedgerOK'
  BY DEF QInv, QueueTypeOK, LedgerOK, ReviewedIsApproved, WellFormed
LEMMA SameRest == ASSUME QInv
                  PROVE  /\ UNCHANGED files => files' \in [Sources -> Contents \cup {"none"}]
                         /\ UNCHANGED approved => /\ approved \subseteq approved'
                                                 /\ approved' \subseteq Sources \X Contents
                         /\ UNCHANGED requests => requests' \in 0..MaxRequests
                         /\ UNCHANGED crashes => crashes' \in 0..MaxCrashes
  BY DEF QInv, QueueTypeOK

\* Steps that change the local variables only, or the queue too, or the ledger
\* too; requests are counted by whoever takes the step.
LEMMA MovesOnly ==
  ASSUME QInv, NEW t \in Users, Moved(t), UNCHANGED <<queue, ledger, files, approved, crashes>>,
         requests' \in 0..MaxRequests
  PROVE  QInv'
  BY QueueStep, SameRows, SameLedger, SameRest

LEMMA MovesRows ==
  ASSUME QInv, NEW t \in Users, Moved(t), RowsOK', UNCHANGED <<ledger, files, approved, crashes>>,
         requests' \in 0..MaxRequests
  PROVE  QInv'
  BY QueueStep, SameLedger, SameRest

\* A copy of the ledger that is no decision being saved may be saved.
LEMMA SavesRun ==
  ASSUME QInv, NEW t \in Users, pc[t] # "review", ledger' = mem[t].run,
         UNCHANGED <<queue, files, approved, crashes>>, Moved(t), requests' \in 0..MaxRequests
  PROVE  QInv'
<1>1. LedgerOK'
  <2> PICK m \in Locals, label \in PCs : m = mem[t] /\ label = pc[t] /\ Fits(label, m, approved)
    BY Typed
  <2> QED BY DEF LedgerOK, Fits, Locals, ReviewedIsApproved, WellFormed
<1> QED BY <1>1, QueueStep, SameRows, SameRest

-----------------------------------------------------------------------------
(* The requests to the queue                                               *)

LEMMA SuggestStep ==
  ASSUME QInv, NEW t \in Users, NEW s \in Sources, Suggest(t, s), requests' \in 0..MaxRequests
  PROVE  QInv'
<1> DEFINE n == [Blank EXCEPT !.source = s, !.run = ledger]
<1>1. n \in Locals /\ \A label \in {"discover", "find"} : Fits(label, n, approved)
  BY Typed, Names DEF Blank, Locals, Fits, Holding, Loaded, Settled, LedgerOK, ReviewedIsApproved,
     Real, Absent, Suggestions, Statuses
<1>2. Moved(t)
  <2>1. \E label \in {"discover", "find"} : Goto(t, label, n)
    BY DEF Suggest, Request
  <2> HIDE DEF n
  <2> QED BY <1>1, <2>1 DEF Moved, PCs, Suggest
<1> QED BY <1>2, MovesOnly DEF Suggest

LEMMA DiscoverStep ==
  ASSUME QInv, NEW t \in Users, Discover(t), requests' \in 0..MaxRequests
  PROVE  QInv'
<1> PICK m \in Locals : m = mem[t] /\ Fits("discover", m, approved)
  BY Typed DEF Discover
<1>1. Fits("find", m, approved) /\ Goto(t, "find", m)
  BY DEF Fits, Holding, Loaded, Settled, Discover
<1> QED BY <1>1, MovesOnly DEF Moved, PCs, Discover

LEMMA DiscoverFailsStep ==
  ASSUME QInv, NEW t \in Users, DiscoverFails(t), requests' \in 0..MaxRequests
  PROVE  QInv'
  BY ReturnMoves, SavesRun DEF DiscoverFails

LEMMA FindByUrlStep ==
  ASSUME QInv, NEW t \in Users, FindByUrl(t), requests' \in 0..MaxRequests
  PROVE  QInv'
<1> PICK m \in Locals : m = mem[t] /\ Fits("find", m, approved)
  BY Typed DEF FindByUrl
<1>1. ASSUME NEW s \in Sources
      PROVE  LET n == [m EXCEPT !.source = s, !.row = queue[s]]
             IN  n \in Locals /\ Fits("add", n, approved)
  BY Typed DEF Locals, Fits, Holding, Loaded, Settled, RowsOK
<1>2. Fits("add", m, approved)
  BY DEF Fits, Holding, Loaded, Settled
<1>3. Goto(t, "add", m) \/ \E s \in Sources : Goto(t, "add", [m EXCEPT !.source = s, !.row = queue[s]])
  BY DEF FindByUrl, ByUrl
<1>4. Moved(t)
  BY <1>1, <1>2, <1>3 DEF Moved, PCs, FindByUrl
<1> QED BY <1>4, MovesOnly DEF FindByUrl

\* The row of a new suggestion.
LEMMA NewRow == ASSUME NEW url \in Urls
                PROVE  LET row == [Absent EXCEPT !.status = "suggested", !.url = url]
                       IN  row \in Suggestions /\ row.status = "suggested"
  BY Names DEF Suggestions, Statuses, Absent

LEMMA AddStep ==
  ASSUME QInv, NEW t \in Users, Add(t), requests' \in 0..MaxRequests
  PROVE  QInv'
<1> PICK m \in Locals : m = mem[t] /\ Fits("add", m, approved)
  BY Typed DEF Add
<1> DEFINE new == [Absent EXCEPT !.status = "suggested", !.url = UrlOf[m.source]]
           n == [m EXCEPT !.row = new]
<1>1. m.source \in Sources /\ m.row \in Suggestions /\ Real(m.row)
  BY DEF Fits, Locals
<1>2. new \in Suggestions /\ new.status # "absent"
  <2>1. PICK url \in Urls : url = UrlOf[m.source]
    BY <1>1, SourcesAssumption
  <2> QED BY <2>1, NewRow
<1>3. Fits("record", m, approved')
  BY DEF Fits, Holding, Loaded, Settled, Add
<1>4. n \in Locals /\ Fits("record", n, approved')
  BY <1>2, <1>3 DEF Fits, Holding, Loaded, Settled, Locals, Real
<1>5. \/ m.row # Absent /\ Saves(t, m.row, "record", m)
      \/ Saves(t, new, "record", n)
      \/ Return(t, "raised") /\ UNCHANGED queue
  BY DEF Add
<1> HIDE DEF n, new
<1>6. CASE m.row # Absent /\ Saves(t, m.row, "record", m)
  BY <1>1, <1>3, <1>6, SavesRow, MovesRows DEF Add, Real, PCs
<1>7. CASE Saves(t, new, "record", n)
  BY <1>1, <1>2, <1>4, <1>7, SavesRow, MovesRows DEF Add, PCs
<1>8. CASE Return(t, "raised") /\ UNCHANGED queue
  BY <1>8, ReturnMoves, MovesOnly DEF Add
<1> QED BY <1>5, <1>6, <1>7, <1>8

LEMMA RecordStep ==
  ASSUME QInv, NEW t \in Users, Record(t), requests' \in 0..MaxRequests
  PROVE  QInv'
  BY ReturnMoves, SavesRun DEF Record

\* The thread's row with another status and outcome is a row.
LEMMA RowChanges ==
  ASSUME NEW row \in Suggestions, row.status # "absent",
         NEW status \in Statuses \ {"absent"}, NEW evidence \in Sources \cup {"none"},
         NEW url \in Urls, status \in {"captured", "duplicate"} => evidence # "none"
  PROVE  /\ Outcome(row, status, evidence, url) \in Suggestions
         /\ Outcome(row, status, evidence, url).status = status
         /\ status \notin {"captured", "duplicate"} =>
              /\ [row EXCEPT !.status = status] \in Suggestions
              /\ [row EXCEPT !.status = status].status = status
  BY Names DEF Suggestions, Outcome

LEMMA CaptureMoves ==
  ASSUME QInv, NEW t \in Users, NEW s \in Sources, NEW retry \in BOOLEAN, Capture(t, s, retry)
  PROVE  Moved(t)
<1> PICK row \in Suggestions : row = queue[s] /\ Real(row) /\ row # Absent
  BY Typed DEF RowsOK, Capture
<1>1. row.status # "absent" /\ row.url \in Urls /\ row.evidence \in Sources \cup {"none"}
  BY DEF Real, Suggestions
<1> DEFINE selected == [row EXCEPT !.status = "selected"]
           chosen == [Blank EXCEPT !.source = s, !.row = selected, !.run = ledger]
           refused == [Blank EXCEPT !.source = s, !.row = row, !.out = "error"]
<1>2. selected \in Suggestions /\ selected.status = "selected"
  BY <1>1, RowChanges DEF Statuses
<1> HIDE DEF selected
<1>3. chosen \in Locals /\ Fits("select", chosen, approved)
  BY <1>2, Typed, Names DEF Blank, Locals, Fits, Holding, Loaded, Settled, Real, LedgerOK,
     ReviewedIsApproved
<1>4. refused \in Locals /\ Fits("idle", refused, approved)
  <2> DEFINE m == [Blank EXCEPT !.out = "error", !.source = s, !.row = row]
  <2>1. refused = m
    BY DEF Blank
  <2>2. m \in Locals /\ Fits("idle", m, approved)
    BY BlankFits
  <2> HIDE DEF m, refused
  <2> QED BY <2>1, <2>2
<1>5. Goto(t, "select", chosen) \/ Goto(t, "idle", refused)
  BY DEF Capture, Request, selected
<1> HIDE DEF chosen, refused
<1> QED BY <1>3, <1>4, <1>5 DEF Moved, PCs, Capture

LEMMA CaptureStep ==
  ASSUME QInv, NEW t \in Users, NEW s \in Sources, NEW retry \in BOOLEAN, Capture(t, s, retry),
         requests' \in 0..MaxRequests
  PROVE  QInv'
  BY CaptureMoves, MovesOnly DEF Capture

LEMMA SelectStep ==
  ASSUME QInv, NEW t \in Users, Select(t), requests' \in 0..MaxRequests
  PROVE  QInv'
<1> PICK m \in Locals : m = mem[t] /\ Fits("select", m, approved)
  BY Typed DEF Select
<1> DEFINE row == [m.row EXCEPT !.status = "capture_pending"]
           n == [m EXCEPT !.row = row]
<1>1. m.source \in Sources /\ m.row \in Suggestions /\ m.row.status # "absent"
  BY DEF Fits, Holding, Locals
<1>2. row \in Suggestions /\ row.status = "capture_pending"
  BY <1>1, RowChanges DEF Suggestions, Statuses
<1> HIDE DEF row
<1>3. n \in Locals /\ Fits("pend", n, approved')
  BY <1>2 DEF Locals, Fits, Holding, Loaded, Settled, Real, Select
<1>4. Saves(t, m.row, "pend", n)
  BY DEF Select, row
<1> HIDE DEF n
<1> QED BY <1>1, <1>3, <1>4, SavesRow, MovesRows DEF Select, PCs

LEMMA PendStep ==
  ASSUME QInv, NEW t \in Users, Pend(t), requests' \in 0..MaxRequests
  PROVE  QInv'
<1> PICK m \in Locals : m = mem[t] /\ Fits("pend", m, approved)
  BY Typed DEF Pend
<1>1. m.source \in Sources /\ m.row \in Suggestions /\ m.row.status # "absent"
  BY DEF Fits, Holding, Locals
<1>2. Fits("collect", m, approved')
  BY DEF Fits, Holding, Loaded, Settled, Pend
<1>3. Saves(t, m.row, "collect", m)
  BY DEF Pend
<1> QED BY <1>1, <1>2, <1>3, SavesRow, MovesRows DEF Pend, PCs

LEMMA CollectStep ==
  ASSUME QInv, NEW t \in Users, NEW content \in Contents, Collect(t, content),
         requests' \in 0..MaxRequests
  PROVE  QInv'
<1> PICK m \in Locals : m = mem[t] /\ Fits("collect", m, approved)
  BY Typed DEF Collect
<1> DEFINE n == [m EXCEPT !.doc = content]
<1>1. n \in Locals /\ Fits("match", n, approved')
  BY DEF Locals, Fits, Holding, Loaded, Settled, Collect
<1>2. Goto(t, "match", n)
  BY DEF Collect
<1> HIDE DEF n
<1>3. Moved(t)
  BY <1>1, <1>2 DEF Moved, PCs
<1>4. files' \in [Sources -> Contents \cup {"none"}]
  BY DEF Collect, QInv, QueueTypeOK
<1> QED BY <1>3, <1>4, QueueStep, SameRows, SameLedger, SameRest DEF Collect

LEMMA MatchStep ==
  ASSUME QInv, NEW t \in Users, NEW final \in Urls, Match(t, final), requests' \in 0..MaxRequests
  PROVE  QInv'
<1> PICK m \in Locals : m = mem[t] /\ Fits("match", m, approved)
  BY Typed DEF Match
<1>1. /\ m.source \in Sources /\ m.row \in Suggestions /\ m.row.status # "absent"
      /\ m.row.url \in Urls
  BY DEF Fits, Holding, Locals, Suggestions
<1>2. ASSUME NEW e \in Sources, NEW url \in Urls
      PROVE  LET n == [m EXCEPT !.row = Outcome(m.row, "duplicate", e, url)]
             IN  n \in Locals /\ Fits("finish", n, approved)
  <2> DEFINE row == Outcome(m.row, "duplicate", e, url)
  <2>1. "duplicate" \in Statuses \ {"absent"} /\ e \in Sources \cup {"none"} /\ e # "none"
    BY Names DEF Statuses
  <2>2. row \in Suggestions /\ row.status = "duplicate"
    BY <1>1, <2>1, Names DEF Outcome, Suggestions
  <2> HIDE DEF row
  <2>3. [m EXCEPT !.row = row] \in Locals /\ Fits("finish", [m EXCEPT !.row = row], approved)
    BY <2>2 DEF Locals, Fits, Holding, Loaded, Settled, Real
  <2> QED BY <2>3 DEF row
<1>3. ASSUME NEW url \in Urls
      PROVE  LET n == [m EXCEPT !.url = url]
             IN  n \in Locals /\ Fits("attach_load", n, approved)
  BY DEF Locals, Fits, Holding, Loaded, Settled
<1>4. \E url \in Urls : \/ Goto(t, "attach_load", [m EXCEPT !.url = url])
                        \/ \E e \in Sources :
                             Goto(t, "finish", [m EXCEPT !.row = Outcome(m.row, "duplicate", e, url)])
  <2> DEFINE others == ByUrl(final) \ {m.source}
             url == IF others = {} THEN final ELSE m.row.url
             known == {queue[s].evidence : s \in others} \ {"none"}
             same == IF known # {} THEN known ELSE SameBytes(m)
  <2>1. url \in Urls
    BY <1>1
  <2>2. known \subseteq Sources /\ SameBytes(m) \subseteq Sources
    BY Typed DEF ByUrl, RowsOK, Suggestions, SameBytes
  <2>3. \/ Goto(t, "attach_load", [m EXCEPT !.url = url])
        \/ \E e \in same :
             Goto(t, "finish", [m EXCEPT !.row = Outcome(m.row, "duplicate", e, url)])
    BY DEF Match
  <2>4. same \subseteq Sources
    BY <2>2
  <2> HIDE DEF same, url
  <2> QED BY <2>1, <2>3, <2>4
<1>5. Moved(t)
  BY <1>2, <1>3, <1>4 DEF Moved, PCs, Match
<1> QED BY <1>5, MovesOnly DEF Match

LEMMA AttachLoadStep ==
  ASSUME QInv, NEW t \in Users, AttachLoad(t), requests' \in 0..MaxRequests
  PROVE  QInv'
<1> PICK m \in Locals : m = mem[t] /\ Fits("attach_load", m, approved)
  BY Typed DEF AttachLoad
<1> DEFINE n == [m EXCEPT !.run = ledger]
<1>1. n \in Locals /\ Fits("attach_save", n, approved)
  BY Typed DEF Locals, Fits, Holding, Loaded, Settled, LedgerOK, ReviewedIsApproved
<1>2. Goto(t, "attach_save", n)
  BY DEF AttachLoad
<1> HIDE DEF n
<1> QED BY <1>1, <1>2, MovesOnly DEF Moved, PCs, AttachLoad

\* Attached again, the Evidence is captured: no review is carried over.
LEMMA AttachSaveStep ==
  ASSUME QInv, NEW t \in Users, AttachSave(t), requests' \in 0..MaxRequests
  PROVE  QInv'
<1> PICK m \in Locals : m = mem[t] /\ Fits("attach_save", m, approved)
  BY Typed DEF AttachSave
<1> DEFINE item == [status |-> "captured", hash |-> m.doc]
           row == Outcome(m.row, "captured", m.source, m.url)
           n == [m EXCEPT !.row = row]
<1>1. /\ m.source \in Sources /\ m.row \in Suggestions /\ m.row.status # "absent"
      /\ m.url \in Urls /\ m.doc \in Contents /\ m.run \in Ledgers
  BY DEF Fits, Holding, Loaded, Locals
<1>2. row \in Suggestions /\ row.status = "captured"
  BY <1>1, Names DEF Outcome, Suggestions, Statuses
<1> HIDE DEF row
<1>3. n \in Locals /\ Fits("finish", n, approved')
  BY <1>2 DEF Locals, Fits, Holding, Loaded, Settled, Real, AttachSave
<1>4. Goto(t, "finish", n)
  BY DEF AttachSave, row
<1> HIDE DEF n
<1>5. Moved(t)
  BY <1>3, <1>4 DEF Moved, PCs
<1>6. item \in Evidence /\ item # NoEvidence
  BY <1>1 DEF Evidence, NoEvidence
<1>7. ledger' = [m.run EXCEPT ![m.source] = item] /\ item.status = "captured" /\ item.hash = m.doc
  BY DEF AttachSave
<1> HIDE DEF item
<1>8. LedgerOK'
  BY <1>1, <1>6, <1>7 DEF LedgerOK, Ledgers, WellFormed, Fits, ReviewedIsApproved, AttachSave
<1> QED BY <1>5, <1>8, QueueStep, SameRows, SameRest DEF AttachSave

LEMMA FinishStep ==
  ASSUME QInv, NEW t \in Users, Finish(t), requests' \in 0..MaxRequests
  PROVE  QInv'
<1> PICK m \in Locals : m = mem[t] /\ Fits("finish", m, approved)
  BY Typed DEF Finish
<1>1. m.source \in Sources /\ m.row \in Suggestions /\ m.row.status # "absent"
  BY DEF Fits, Holding, Locals
<1>2. Fits("events", m, approved')
  BY DEF Fits, Holding, Loaded, Settled, Finish
<1>3. Saves(t, m.row, "events", m)
  BY DEF Finish
<1> QED BY <1>1, <1>2, <1>3, SavesRow, MovesRows DEF Finish, PCs

LEMMA EventsStep ==
  ASSUME QInv, NEW t \in Users, Events(t) \/ EventsFail(t), requests' \in 0..MaxRequests
  PROVE  QInv'
<1>1. CASE Events(t)
  BY <1>1, ReturnMoves, MovesOnly DEF Events
<1>2. CASE EventsFail(t)
  <2> PICK m \in Locals : m = mem[t] /\ Fits("events", m, approved)
    BY <1>2, Typed DEF EventsFail
  <2> DEFINE n == [m EXCEPT !.run = ledger]
  <2>1. n \in Locals /\ Fits("note", n, approved)
    BY Typed DEF Locals, Fits, Holding, Loaded, Settled, LedgerOK, ReviewedIsApproved
  <2>2. Goto(t, "note", n)
    BY <1>2 DEF EventsFail
  <2> HIDE DEF n
  <2> QED BY <1>2, <2>1, <2>2, MovesOnly DEF Moved, PCs, EventsFail
<1> QED BY <1>1, <1>2

LEMMA SaveNoteStep ==
  ASSUME QInv, NEW t \in Users, SaveNote(t), requests' \in 0..MaxRequests
  PROVE  QInv'
  BY ReturnMoves, SavesRun DEF SaveNote

LEMMA CaptureFailsStep ==
  ASSUME QInv, NEW t \in Users, CaptureFails(t), requests' \in 0..MaxRequests
  PROVE  QInv'
<1> PICK m \in Locals, label \in PCs : m = mem[t] /\ label = pc[t] /\ Fits(label, m, approved)
  BY Typed
<1> DEFINE row == [m.row EXCEPT !.status = "capture_failed"]
           n == [m EXCEPT !.row = row]
<1>1. m.source \in Sources /\ m.row \in Suggestions /\ m.row.status # "absent" /\ label # "review"
  BY DEF Fits, Holding, Locals, CaptureFails
<1>2. row \in Suggestions /\ row.status = "capture_failed"
  BY <1>1, Names DEF Suggestions, Statuses
<1> HIDE DEF row
<1>3. n \in Locals /\ Fits("fail", n, approved)
  BY <1>1, <1>2 DEF Locals, Fits, Holding, Loaded, Settled, Real
<1>4. Goto(t, "fail", n)
  BY DEF CaptureFails, row
<1> HIDE DEF n
<1> QED BY <1>3, <1>4, MovesOnly DEF Moved, PCs, CaptureFails

\* The row is saved last, and the request has ended.
LEMMA LastSave ==
  ASSUME QInv, NEW t \in Users, pc[t] \in {"fail", "dismiss"},
         NEW out \in {"none", "ok", "error", "raised"},
         Saves(t, mem[t].row, "idle", [Blank EXCEPT !.out = out, !.source = mem[t].source,
                                                    !.row = mem[t].row]),
         UNCHANGED <<ledger, files, approved, crashes>>, requests' \in 0..MaxRequests
  PROVE  QInv'
<1> PICK m \in Locals : m = mem[t] /\ Fits(pc[t], m, approved)
  BY Typed
<1>1. m.source \in Sources /\ m.row \in Suggestions /\ m.row.status # "absent" /\ Real(m.row)
  BY DEF Fits, Holding, Locals
<1> DEFINE n == [Blank EXCEPT !.out = out, !.source = m.source, !.row = m.row]
<1>2. \A agreed : n \in Locals /\ Fits("idle", n, agreed)
  BY <1>1, BlankFits
<1>3. Saves(t, m.row, "idle", n)
  OBVIOUS
<1> HIDE DEF n
<1> QED BY <1>1, <1>2, <1>3, SavesRow, MovesRows DEF PCs

LEMMA FailStep ==
  ASSUME QInv, NEW t \in Users, Fail(t) \/ SaveDismissed(t), requests' \in 0..MaxRequests
  PROVE  QInv'
<1>1. CASE Fail(t)
  BY <1>1, LastSave DEF Fail
<1>2. CASE SaveDismissed(t)
  BY <1>2, LastSave DEF SaveDismissed
<1> QED BY <1>1, <1>2

LEMMA DismissStep ==
  ASSUME QInv, NEW t \in Users, NEW s \in Sources, Dismiss(t, s), requests' \in 0..MaxRequests
  PROVE  QInv'
<1> PICK r \in Suggestions : r = queue[s] /\ r.status # "absent"
  BY Typed DEF Dismiss, RowsOK, Real
<1> DEFINE row == [r EXCEPT !.status = "dismissed"]
           n == [Blank EXCEPT !.source = s, !.row = row]
<1>1. row \in Suggestions /\ row.status = "dismissed"
  BY Names DEF Suggestions, Statuses
<1> HIDE DEF row
<1>2. n \in Locals /\ Fits("dismiss", n, approved)
  BY <1>1, Names DEF Blank, Locals, Fits, Holding, Loaded, Settled, Real, WellFormed, EmptyLedger,
     NoEvidence, Ledgers, Evidence
<1>3. Goto(t, "dismiss", n)
  BY DEF Dismiss, Dismissal, Request, row
<1> HIDE DEF n
<1> QED BY <1>2, <1>3, MovesOnly DEF Moved, PCs, Dismiss

\* A decision is made on Evidence the ledger has, of which the hash is known.
LEMMA ReviewMoves ==
  ASSUME QInv, NEW t \in Users, NEW e \in Sources, NEW approve \in BOOLEAN, Review(t, e, approve)
  PROVE  Moved(t)
<1> DEFINE decision == IF approve THEN "reviewed" ELSE "rejected"
           run == [ledger EXCEPT ![e] = [ledger[e] EXCEPT !.status = decision]]
           chosen == [Blank EXCEPT !.source = e, !.run = run]
           refused == [Blank EXCEPT !.source = e, !.out = "error"]
<1>1. run \in Ledgers /\ WellFormed(run)
  <2>1. ledger \in Ledgers /\ ledger[e].hash \in Contents
    BY Typed DEF LedgerOK, WellFormed, Review
  <2>2. PICK item \in Evidence : item = [ledger[e] EXCEPT !.status = decision]
    BY <2>1 DEF Ledgers, Evidence
  <2>3. item.status # "none" /\ item.hash \in Contents
    BY <2>1, <2>2 DEF Ledgers, Evidence
  <2> QED BY <2>1, <2>2, <2>3, Typed DEF LedgerOK, WellFormed, Ledgers
<1>2. \A x \in Sources : run[x].status = "reviewed" => x = e \/ <<x, run[x].hash>> \in approved
  BY Typed DEF LedgerOK, ReviewedIsApproved, Ledgers
<1> HIDE DEF run
<1>3. chosen \in Locals /\ Fits("review", chosen, approved)
  BY <1>1, <1>2, Names DEF Blank, Locals, Fits, Holding, Loaded, Settled, Real, Absent,
     Suggestions, Statuses
<1>4. refused \in Locals /\ Fits("idle", refused, approved)
  BY Names DEF Blank, Locals, Fits, Holding, Loaded, Settled, Real, Absent, Suggestions, Statuses,
     WellFormed, EmptyLedger, NoEvidence, Ledgers, Evidence
<1>5. Goto(t, "review", chosen) \/ Goto(t, "idle", refused)
  BY DEF Review, Request, run
<1> HIDE DEF chosen, refused
<1> QED BY <1>3, <1>4, <1>5 DEF Moved, PCs, Review

LEMMA ReviewStep ==
  ASSUME QInv, NEW t \in Users, NEW e \in Sources, NEW approve \in BOOLEAN, Review(t, e, approve),
         requests' \in 0..MaxRequests
  PROVE  QInv'
  BY ReviewMoves, MovesOnly DEF Review

\* The one step that makes Evidence reviewed is the human's decision.
LEMMA SaveReviewStep ==
  ASSUME QInv, NEW t \in Users, SaveReview(t), requests' \in 0..MaxRequests
  PROVE  QInv'
<1> PICK m \in Locals : m = mem[t] /\ Fits("review", m, approved)
  BY Typed DEF SaveReview
<1>1. m.source \in Sources /\ m.run \in Ledgers /\ WellFormed(m.run)
  BY DEF Fits, Locals
<1>2. m.run[m.source].status = "reviewed" => m.run[m.source].hash \in Contents
  BY <1>1 DEF WellFormed, NoEvidence
<1>3. /\ ledger' = m.run
      /\ approved' = IF m.run[m.source].status = "reviewed"
                     THEN approved \cup {<<m.source, m.run[m.source].hash>>} ELSE approved
  BY DEF SaveReview
<1>4. approved \subseteq approved' /\ approved' \subseteq Sources \X Contents
  <2>1. approved \subseteq Sources \X Contents
    BY DEF QInv, QueueTypeOK
  <2> QED BY <1>1, <1>2, <1>3, <2>1
<1>5. LedgerOK'
  BY <1>1, <1>3 DEF LedgerOK, ReviewedIsApproved, Fits, WellFormed
<1>6. Moved(t)
  BY ReturnMoves DEF SaveReview
<1> QED BY <1>4, <1>5, <1>6, QueueStep, SameRows, SameRest DEF SaveReview

LEMMA CrashStep ==
  ASSUME QInv, NEW t \in Users, Goto(t, "idle", Blank), crashes' \in 0..MaxCrashes,
         UNCHANGED <<queue, ledger, files, approved, requests>>
  PROVE  QInv'
<1>1. Blank \in Locals /\ Fits("idle", Blank, approved')
  BY Names DEF Blank, Locals, Fits, Holding, Loaded, Settled, Real, Absent, Suggestions, Statuses,
     WellFormed, EmptyLedger, NoEvidence, Ledgers, Evidence
<1>2. Moved(t)
  BY <1>1 DEF Moved, PCs
<1> QED BY <1>2, QueueStep, SameRows, SameLedger, SameRest

-----------------------------------------------------------------------------
(* What a request to the queue does                                        *)

LEMMA ProceedStep ==
  ASSUME QInv, NEW t \in Users, Proceed(t), requests' \in 0..MaxRequests
  PROVE  QInv'
  BY DiscoverStep, DiscoverFailsStep, FindByUrlStep, AddStep, RecordStep, SelectStep, PendStep,
     CollectStep, MatchStep, AttachLoadStep, AttachSaveStep, FinishStep, EventsStep, SaveNoteStep,
     CaptureFailsStep, FailStep, SaveReviewStep DEF Proceed

LEMMA AskStep ==
  ASSUME QInv, NEW t \in Users, Ask(t), requests' \in 0..MaxRequests
  PROVE  QInv'
  BY SuggestStep, DismissStep, CaptureStep, ReviewStep DEF Ask

LEMMA CountedTyped == ASSUME QInv, Counted PROVE requests' \in 0..MaxRequests
  BY QueueBounds DEF Counted, QInv, QueueTypeOK

LEMMA QueueInitial == ASSUME QueueInit PROVE QInv
<1>1. Blank \in Locals /\ Fits("idle", Blank, {}) /\ Absent \in Suggestions /\ Real(Absent)
  BY Names DEF Blank, Locals, Fits, Holding, Loaded, Settled, Real, Absent, Suggestions, Statuses,
     WellFormed, EmptyLedger, NoEvidence, Ledgers, Evidence
<1>2. EmptyLedger \in Ledgers /\ WellFormed(EmptyLedger)
  BY DEF EmptyLedger, NoEvidence, Ledgers, Evidence, WellFormed
<1> QED BY <1>1, <1>2, QueueBounds DEF QueueInit, QInv, QueueTypeOK, PCs, ReviewedIsApproved,
           EmptyLedger, NoEvidence

LEMMA QueueInductive == QInv /\ [QueueNext]_queueVars => QInv'
<1> SUFFICES ASSUME QInv, [QueueNext]_queueVars PROVE QInv'
  OBVIOUS
<1>1. ASSUME NEW t \in Users, Proceed(t), UNCHANGED requests PROVE QInv'
  BY <1>1, ProceedStep, SameRest
<1>2. ASSUME NEW t \in Users, Crash(t), UNCHANGED requests PROVE QInv'
  <2>1. crashes' \in 0..MaxCrashes
    BY <1>2, QueueBounds DEF Crash, QInv, QueueTypeOK
  <2> QED BY <1>2, <2>1, CrashStep DEF Crash
<1>3. ASSUME NEW t \in Users, Ask(t), Counted PROVE QInv'
  BY <1>3, AskStep, CountedTyped
<1>4. CASE UNCHANGED queueVars
  BY <1>4 DEF queueVars, QInv, QueueTypeOK, WellFormed, ReviewedIsApproved, Fits
<1> QED BY <1>1, <1>2, <1>3, <1>4 DEF QueueNext

\* Every behaviour of the source queue is in the states its variables say.
THEOREM QueueTypeCorrect == QueueSpec => []QueueTypeOK
<1>1. QInv => QueueTypeOK
  BY DEF QInv
<1> QED BY <1>1, QueueInitial, QueueInductive, PTL DEF QueueSpec

\* What the ledger of the run calls reviewed, a human approved with that hash:
\* requests that overlap save stale copies of the ledger over each other, but
\* no copy claims a review that was not approved (evidence.py lines 340-377).
THEOREM QueueReviewsApproved == QueueSpec => []ReviewedIsApproved
<1>1. QInv => ReviewedIsApproved
  BY DEF QInv
<1> QED BY <1>1, QueueInitial, QueueInductive, PTL DEF QueueSpec

-----------------------------------------------------------------------------
(* One user: a copy of the ledger lacks nothing the ledger has when it is  *)
(* saved, so Evidence is there for good, and before the row that names it. *)

Lone == \A t, u \in Users : t = u

Known(run) == {e \in Sources : run[e] # NoEvidence}
Backed(row, run) == row.evidence # "none" => run[row.evidence] # NoEvidence

\* Where a thread's copy of the ledger is one of the ledger as it is.
Copying == {"discover", "find", "add", "record", "select", "pend", "collect", "match",
            "attach_load", "attach_save", "note", "review"}

LoneInv ==
  /\ QInv
  /\ \A s \in Sources : Backed(queue[s], ledger)
  /\ \A t \in Users : /\ Backed(mem[t].row, ledger)
                      /\ pc[t] \in Copying => Known(mem[t].run) = Known(ledger)

LEMMA LoneTyped ==
  ASSUME LoneInv, NEW t \in Users
  PROVE  /\ pc[t] \in PCs /\ mem[t] \in Locals /\ Fits(pc[t], mem[t], approved)
         /\ Backed(mem[t].row, ledger)
         /\ pc[t] \in Copying => Known(mem[t].run) = Known(ledger)
         /\ queue \in [Sources -> Suggestions] /\ ledger \in Ledgers
         /\ \A s \in Sources : Backed(queue[s], ledger)
  BY Typed DEF LoneInv, RowsOK, LedgerOK

\* The user moves on; what the ledger had it has.
LEMMA LoneGoes ==
  ASSUME Lone, LoneInv, QInv', NEW t \in Users, NEW label, NEW n, Goto(t, label, n),
         Backed(n.row, ledger'), label \in Copying => Known(n.run) = Known(ledger)',
         \A s \in Sources : Backed(queue'[s], ledger')
  PROVE  LoneInv'
<1>1. pc'[t] = label /\ mem'[t] = n /\ \A u \in Users : u = t
  BY DEF Lone, Goto, LoneInv, QInv, QueueTypeOK
<1> QED BY <1>1 DEF LoneInv, Backed, Known

LEMMA LoneWalks ==
  ASSUME Lone, LoneInv, QInv', NEW t \in Users, NEW label, NEW n, Goto(t, label, n),
         UNCHANGED <<queue, ledger>>,
         Backed(n.row, ledger), label \in Copying => Known(n.run) = Known(ledger)
  PROVE  LoneInv'
  BY LoneGoes DEF LoneInv, Known, Backed

LEMMA LoneReturns ==
  ASSUME Lone, LoneInv, QInv', NEW t \in Users, NEW out, Return(t, out), UNCHANGED queue,
         Known(ledger) \subseteq Known(ledger)'
  PROVE  LoneInv'
<1> PICK m \in Locals : m = mem[t]
  BY LoneTyped
<1> DEFINE n == [Blank EXCEPT !.out = out, !.source = m.source, !.row = m.row]
<1>1. n.row = m.row
  BY DEF Blank
<1>2. Goto(t, "idle", n)
  BY DEF Return
<1> HIDE DEF n
<1>3. \A r \in Suggestions : Backed(r, ledger) => Backed(r, ledger')
  BY DEF Backed, Known, Suggestions
<1>4. Backed(n.row, ledger') /\ \A s \in Sources : Backed(queue'[s], ledger')
  BY <1>1, <1>3, LoneTyped DEF Locals
<1> QED BY <1>2, <1>4, LoneGoes DEF Copying

LEMMA LoneSaves ==
  ASSUME Lone, LoneInv, QInv', NEW t \in Users, NEW r, NEW label, NEW n, Saves(t, r, label, n),
         UNCHANGED ledger, Backed(r, ledger),
         Backed(n.row, ledger), label \in Copying => Known(n.run) = Known(ledger)
  PROVE  LoneInv'
<1>1. CASE queue' = [queue EXCEPT ![mem[t].source] = r] /\ Goto(t, label, n)
  <2>1. \A s \in Sources : Backed(queue'[s], ledger)
    BY <1>1, LoneTyped
  <2> QED BY <1>1, <2>1, LoneGoes DEF Backed, Known
<1>2. CASE Return(t, "raised") /\ UNCHANGED queue
  BY <1>2, LoneReturns DEF Known
<1> QED BY <1>1, <1>2 DEF Saves

\* The copy of the ledger is saved.
LEMMA LoneKeeps ==
  ASSUME Lone, LoneInv, QInv', NEW t \in Users, NEW out, Return(t, out), UNCHANGED queue,
         pc[t] \in Copying, ledger' = mem[t].run
  PROVE  LoneInv'
<1>1. Known(ledger)' = Known(ledger)
  <2>1. PICK m : m = mem[t].run /\ Known(m) = Known(ledger) /\ ledger' = m
    BY LoneTyped
  <2> QED BY <2>1 DEF Known
<1> QED BY <1>1, LoneReturns

-----------------------------------------------------------------------------
LEMMA LoneSuggests ==
  ASSUME Lone, LoneInv, QInv', NEW t \in Users
  PROVE  /\ \A s \in Sources : Suggest(t, s) => LoneInv'
         /\ Discover(t) => LoneInv'
         /\ DiscoverFails(t) => LoneInv'
         /\ FindByUrl(t) => LoneInv'
         /\ Add(t) => LoneInv'
         /\ Record(t) => LoneInv'
<1> PICK m \in Locals : m = mem[t]
  BY LoneTyped
<1>1. ASSUME NEW s \in Sources, Suggest(t, s) PROVE LoneInv'
  <2> DEFINE n == [Blank EXCEPT !.source = s, !.run = ledger]
  <2>1. n.row.evidence = "none" /\ n.run = ledger
    BY DEF Blank, Absent
  <2>2. \E label \in {"discover", "find"} : Goto(t, label, n)
    BY <1>1 DEF Suggest, Request
  <2> HIDE DEF n
  <2> QED BY <1>1, <2>1, <2>2, LoneWalks DEF Suggest, Backed
<1>2. ASSUME Discover(t) PROVE LoneInv'
  BY <1>2, LoneWalks, LoneTyped DEF Discover, Copying
<1>3. ASSUME DiscoverFails(t) PROVE LoneInv'
  BY <1>3, LoneKeeps DEF DiscoverFails, Copying
<1>4. ASSUME FindByUrl(t) PROVE LoneInv'
  <2>1. Known(m.run) = Known(ledger) /\ Backed(m.row, ledger)
    BY <1>4, LoneTyped DEF FindByUrl, Copying
  <2>2. CASE Goto(t, "add", m)
    BY <1>4, <2>1, <2>2, LoneWalks DEF FindByUrl
  <2>3. ASSUME NEW s \in Sources, Goto(t, "add", [m EXCEPT !.source = s, !.row = queue[s]])
        PROVE  LoneInv'
    <3> PICK n : n = [m EXCEPT !.source = s, !.row = queue[s]]
      OBVIOUS
    <3>1. n.row = queue[s] /\ n.run = m.run
      BY DEF Locals
    <3> QED BY <1>4, <2>1, <2>3, <3>1, LoneTyped, LoneWalks DEF FindByUrl
  <2> QED BY <1>4, <2>2, <2>3 DEF FindByUrl, ByUrl
<1>5. ASSUME Add(t) PROVE LoneInv'
  <2>a. PICK new : new = [Absent EXCEPT !.status = "suggested", !.url = UrlOf[m.source]]
    OBVIOUS
  <2>b. PICK n : n = [m EXCEPT !.row = new]
    OBVIOUS
  <2>1. Known(m.run) = Known(ledger) /\ Backed(m.row, ledger)
    BY <1>5, LoneTyped DEF Add, Copying
  <2>2. n.row = new /\ n.run = m.run /\ Backed(new, ledger)
    BY <2>a, <2>b DEF Locals, Absent, Backed
  <2>3. \/ Saves(t, m.row, "record", m)
        \/ Saves(t, new, "record", n)
        \/ Return(t, "raised") /\ UNCHANGED queue
    BY <1>5, <2>a, <2>b DEF Add
  <2>4. UNCHANGED ledger
    BY <1>5 DEF Add
  <2>5. CASE Saves(t, m.row, "record", m)
    BY <2>1, <2>4, <2>5, LoneSaves
  <2>6. CASE Saves(t, new, "record", n)
    BY <2>1, <2>2, <2>4, <2>6, LoneSaves
  <2>7. CASE Return(t, "raised") /\ UNCHANGED queue
    BY <2>4, <2>7, LoneReturns DEF Known
  <2> QED BY <2>3, <2>5, <2>6, <2>7
<1>6. ASSUME Record(t) PROVE LoneInv'
  BY <1>6, LoneKeeps DEF Record, Copying
<1> QED BY <1>1, <1>2, <1>3, <1>4, <1>5, <1>6

LEMMA LoneCaptures ==
  ASSUME Lone, LoneInv, QInv', NEW t \in Users
  PROVE  /\ \A s \in Sources, retry \in BOOLEAN : Capture(t, s, retry) => LoneInv'
         /\ Select(t) => LoneInv'
         /\ Pend(t) => LoneInv'
         /\ \A content \in Contents : Collect(t, content) => LoneInv'
         /\ CaptureFails(t) => LoneInv'
         /\ Fail(t) => LoneInv'
<1> PICK m \in Locals : m = mem[t]
  BY LoneTyped
<1>a. Backed(m.row, ledger) /\ m.row \in Suggestions
  BY LoneTyped DEF Locals
<1>1. ASSUME NEW s \in Sources, NEW retry \in BOOLEAN, Capture(t, s, retry) PROVE LoneInv'
  <2> PICK old \in Suggestions : old = queue[s] /\ Backed(old, ledger)
    BY LoneTyped
  <2> PICK selected : selected = [old EXCEPT !.status = "selected"]
    OBVIOUS
  <2> DEFINE chosen == [Blank EXCEPT !.source = s, !.row = selected, !.run = ledger]
             refused == [Blank EXCEPT !.source = s, !.row = old, !.out = "error"]
  <2>1. chosen.row = selected /\ chosen.run = ledger /\ refused.row = old
    BY DEF Blank
  <2>2. Backed(selected, ledger)
    BY DEF Backed, Suggestions
  <2>3. Goto(t, "select", chosen) \/ Goto(t, "idle", refused)
    BY <1>1 DEF Capture, Request
  <2> HIDE DEF chosen, refused
  <2> QED BY <1>1, <2>1, <2>2, <2>3, LoneWalks DEF Capture, Copying
<1>2. ASSUME Select(t) PROVE LoneInv'
  <2>a. PICK r : r = [m.row EXCEPT !.status = "capture_pending"]
    OBVIOUS
  <2>b. PICK n : n = [m EXCEPT !.row = r]
    OBVIOUS
  <2>1. n.row = r /\ n.run = m.run /\ Backed(r, ledger)
    BY <1>a, <2>a, <2>b DEF Locals, Backed, Suggestions
  <2>2. Saves(t, m.row, "pend", n)
    BY <1>2, <2>a, <2>b DEF Select
  <2>3. Known(m.run) = Known(ledger) /\ UNCHANGED ledger
    BY <1>2, LoneTyped DEF Select, Copying
  <2> QED BY <1>a, <2>1, <2>2, <2>3, LoneSaves
<1>3. ASSUME Pend(t) PROVE LoneInv'
  BY <1>3, <1>a, LoneSaves, LoneTyped DEF Pend, Copying
<1>4. ASSUME NEW content \in Contents, Collect(t, content) PROVE LoneInv'
  <2> PICK n : n = [m EXCEPT !.doc = content]
    OBVIOUS
  <2>1. n.row = m.row /\ n.run = m.run
    BY DEF Locals
  <2> QED BY <1>4, <1>a, <2>1, LoneWalks, LoneTyped DEF Collect, Copying
<1>5. ASSUME CaptureFails(t) PROVE LoneInv'
  <2> PICK r : r = [m.row EXCEPT !.status = "capture_failed"]
    OBVIOUS
  <2> PICK n : n = [m EXCEPT !.row = r]
    OBVIOUS
  <2>1. n.row = r /\ Backed(r, ledger)
    BY <1>a DEF Locals, Backed, Suggestions
  <2> QED BY <1>5, <2>1, LoneWalks DEF CaptureFails, Copying
<1>6. ASSUME Fail(t) PROVE LoneInv'
  <2> PICK n : n = [Blank EXCEPT !.out = "error", !.source = m.source, !.row = m.row]
    OBVIOUS
  <2>1. n.row = m.row
    BY DEF Blank
  <2> QED BY <1>6, <1>a, <2>1, LoneSaves DEF Fail, Copying
<1> QED BY <1>1, <1>2, <1>3, <1>4, <1>5, <1>6

\* A duplicate names the Evidence of another suggestion, or of the copy of the ledger.
LEMMA LoneMatches ==
  ASSUME Lone, LoneInv, QInv', NEW t \in Users, NEW final \in Urls, Match(t, final)
  PROVE  LoneInv'
<1> PICK m \in Locals : m = mem[t]
  BY LoneTyped
<1>1. Backed(m.row, ledger) /\ Known(m.run) = Known(ledger)
  BY LoneTyped DEF Match, Copying
<1> DEFINE others == ByUrl(final) \ {m.source}
           url == IF others = {} THEN final ELSE m.row.url
           named == {queue[s].evidence : s \in others} \ {"none"}
           same == IF named # {} THEN named ELSE SameBytes(m)
<1>2. \A e \in same : e \in Known(ledger)
  <2>1. \A e \in named : e \in Known(ledger)
    BY LoneTyped DEF ByUrl, Backed, Known, Suggestions
  <2>2. \A e \in SameBytes(m) : e \in Known(ledger)
    BY <1>1 DEF SameBytes, Known
  <2> QED BY <2>1, <2>2
<1>3. \/ Goto(t, "attach_load", [m EXCEPT !.url = url])
      \/ \E e \in same : Goto(t, "finish", [m EXCEPT !.row = Outcome(m.row, "duplicate", e, url)])
  BY DEF Match
<1> HIDE DEF same, url
<1>4. CASE Goto(t, "attach_load", [m EXCEPT !.url = url])
  <2> PICK n : n = [m EXCEPT !.url = url]
    OBVIOUS
  <2>1. n.row = m.row /\ n.run = m.run
    BY DEF Locals
  <2> QED BY <1>1, <1>4, <2>1, LoneWalks DEF Match
<1>5. ASSUME NEW e \in same,
             Goto(t, "finish", [m EXCEPT !.row = Outcome(m.row, "duplicate", e, url)])
      PROVE  LoneInv'
  <2> PICK r : r = Outcome(m.row, "duplicate", e, url)
    OBVIOUS
  <2> PICK n : n = [m EXCEPT !.row = r]
    OBVIOUS
  <2>1. n.row = r /\ r.evidence = e
    BY DEF Locals, Outcome, Suggestions
  <2>2. Backed(r, ledger)
    BY <1>2, <2>1 DEF Backed, Known
  <2> QED BY <1>5, <2>1, <2>2, LoneWalks DEF Match, Copying
<1> QED BY <1>3, <1>4, <1>5

LEMMA LoneAttaches ==
  ASSUME Lone, LoneInv, QInv', NEW t \in Users
  PROVE  /\ AttachLoad(t) => LoneInv'
         /\ AttachSave(t) => LoneInv'
         /\ Finish(t) => LoneInv'
         /\ Events(t) => LoneInv'
         /\ EventsFail(t) => LoneInv'
         /\ SaveNote(t) => LoneInv'
<1> PICK m \in Locals : m = mem[t]
  BY LoneTyped
<1>a. Backed(m.row, ledger) /\ m.row \in Suggestions /\ m.run \in Ledgers
  BY LoneTyped DEF Locals
<1>1. ASSUME AttachLoad(t) \/ EventsFail(t) PROVE LoneInv'
  <2> PICK n : n = [m EXCEPT !.run = ledger]
    OBVIOUS
  <2>1. n.row = m.row /\ n.run = ledger
    BY DEF Locals
  <2>2. \E label : Goto(t, label, n) /\ UNCHANGED <<queue, ledger>>
    BY <1>1 DEF AttachLoad, EventsFail
  <2> QED BY <1>a, <2>1, <2>2, LoneWalks
<1>2. ASSUME AttachSave(t) PROVE LoneInv'
  <2> PICK item : item = [status |-> "captured", hash |-> m.doc]
    OBVIOUS
  <2> PICK r : r = Outcome(m.row, "captured", m.source, m.url)
    OBVIOUS
  <2> PICK n : n = [m EXCEPT !.row = r]
    OBVIOUS
  <2>1. n.row = r /\ r.evidence = m.source
    BY <1>a DEF Locals, Outcome, Suggestions
  <2>2. m.source \in Sources /\ Known(m.run) = Known(ledger)
    BY <1>2, LoneTyped DEF AttachSave, Fits, Copying
  <2>3. ledger' = [m.run EXCEPT ![m.source] = item] /\ Goto(t, "finish", n) /\ UNCHANGED queue
    BY <1>2 DEF AttachSave
  <2>4. item # NoEvidence
    BY DEF NoEvidence
  <2>5. \A e \in Sources : ledger[e] # NoEvidence => ledger'[e] # NoEvidence
    BY <1>a, <2>2, <2>3, <2>4 DEF Known, Ledgers
  <2>6. ledger'[m.source] # NoEvidence
    BY <1>a, <2>2, <2>3, <2>4 DEF Ledgers
  <2>7. Backed(n.row, ledger')
    BY <2>1, <2>6 DEF Backed
  <2>8. \A s \in Sources : Backed(queue'[s], ledger')
    BY <2>3, <2>5, LoneTyped DEF Backed, Suggestions
  <2> QED BY <2>3, <2>7, <2>8, LoneGoes DEF Copying
<1>3. ASSUME Finish(t) PROVE LoneInv'
  BY <1>3, <1>a, LoneSaves DEF Finish, Copying
<1>4. ASSUME Events(t) PROVE LoneInv'
  BY <1>4, LoneReturns DEF Events, Known
<1>5. ASSUME SaveNote(t) PROVE LoneInv'
  BY <1>5, LoneKeeps DEF SaveNote, Copying
<1> QED BY <1>1, <1>2, <1>3, <1>4, <1>5

LEMMA LoneDecides ==
  ASSUME Lone, LoneInv, QInv', NEW t \in Users
  PROVE  /\ \A s \in Sources : Dismiss(t, s) => LoneInv'
         /\ SaveDismissed(t) => LoneInv'
         /\ \A e \in Sources, approve \in BOOLEAN : Review(t, e, approve) => LoneInv'
         /\ SaveReview(t) => LoneInv'
         /\ Crash(t) => LoneInv'
<1> PICK m \in Locals : m = mem[t]
  BY LoneTyped
<1>a. Backed(m.row, ledger) /\ m.row \in Suggestions
  BY LoneTyped DEF Locals
<1>1. ASSUME NEW s \in Sources, Dismiss(t, s) PROVE LoneInv'
  <2> PICK old \in Suggestions : old = queue[s] /\ Backed(old, ledger)
    BY LoneTyped
  <2> PICK r : r = [old EXCEPT !.status = "dismissed"]
    OBVIOUS
  <2> DEFINE n == [Blank EXCEPT !.source = s, !.row = r]
  <2>1. n.row = r
    BY DEF Blank
  <2>2. Backed(r, ledger)
    BY DEF Backed, Suggestions
  <2>3. Goto(t, "dismiss", n)
    BY <1>1 DEF Dismiss, Dismissal, Request
  <2> HIDE DEF n
  <2> QED BY <1>1, <2>1, <2>2, <2>3, LoneWalks DEF Dismiss, Copying
<1>2. ASSUME SaveDismissed(t) PROVE LoneInv'
  <2> PICK n : n = [Blank EXCEPT !.out = "ok", !.source = m.source, !.row = m.row]
    OBVIOUS
  <2>1. n.row = m.row
    BY DEF Blank
  <2> QED BY <1>2, <1>a, <2>1, LoneSaves DEF SaveDismissed, Copying
<1>3. ASSUME NEW e \in Sources, NEW approve \in BOOLEAN, Review(t, e, approve) PROVE LoneInv'
  <2> PICK decision : decision = IF approve THEN "reviewed" ELSE "rejected"
    OBVIOUS
  <2> PICK decided : decided = [ledger EXCEPT ![e] = [ledger[e] EXCEPT !.status = decision]]
    OBVIOUS
  <2> DEFINE chosen == [Blank EXCEPT !.source = e, !.run = decided]
             refused == [Blank EXCEPT !.source = e, !.out = "error"]
  <2>1. /\ chosen.row.evidence = "none" /\ chosen.run = decided
        /\ refused.row.evidence = "none"
    BY DEF Blank, Absent
  <2>2. Known(decided) = Known(ledger)
    <3>1. ledger \in Ledgers /\ ledger[e] # NoEvidence
      BY <1>3, LoneTyped DEF Review
    <3>2. [ledger[e] EXCEPT !.status = decision].status = decision
      BY <3>1 DEF Ledgers, Evidence
    <3>3. [ledger[e] EXCEPT !.status = decision] # NoEvidence
      BY <3>2 DEF NoEvidence
    <3> QED BY <3>1, <3>3 DEF Known, Ledgers
  <2>3. Goto(t, "review", chosen) \/ Goto(t, "idle", refused)
    BY <1>3 DEF Review, Request
  <2> HIDE DEF chosen, refused
  <2> QED BY <1>3, <2>1, <2>2, <2>3, LoneWalks DEF Review, Backed, Copying
<1>4. ASSUME SaveReview(t) PROVE LoneInv'
  BY <1>4, LoneKeeps DEF SaveReview, Copying
<1>5. ASSUME Crash(t) PROVE LoneInv'
  <2>1. Blank.row.evidence = "none"
    BY DEF Blank, Absent
  <2> QED BY <1>5, <2>1, LoneWalks DEF Crash, Backed, Copying
<1> QED BY <1>1, <1>2, <1>3, <1>4, <1>5

LEMMA LoneInitial == ASSUME QueueInit PROVE LoneInv
<1>1. Absent.evidence = "none" /\ Blank.row = Absent
  BY DEF Absent, Blank
<1> QED BY <1>1, QueueInitial DEF QueueInit, LoneInv, Backed, Copying

LEMMA LoneInductive == ASSUME Lone, LoneInv, [QueueNext]_queueVars PROVE LoneInv'
<1>1. QInv'
  BY QueueInductive DEF LoneInv
<1>2. ASSUME NEW t \in Users, Proceed(t) PROVE LoneInv'
  BY <1>1, <1>2, LoneSuggests, LoneCaptures, LoneMatches, LoneAttaches, LoneDecides DEF Proceed
<1>3. ASSUME NEW t \in Users, Ask(t) PROVE LoneInv'
  BY <1>1, <1>3, LoneSuggests, LoneCaptures, LoneDecides DEF Ask
<1>4. ASSUME NEW t \in Users, Crash(t) PROVE LoneInv'
  BY <1>1, <1>4, LoneDecides
<1>5. CASE UNCHANGED queueVars
  BY <1>1, <1>5 DEF queueVars, LoneInv, Backed, Known
<1> QED BY <1>2, <1>3, <1>4, <1>5 DEF QueueNext

LEMMA LoneCaptured == ASSUME LoneInv PROVE CapturedHasEvidence
<1> SUFFICES ASSUME NEW s \in Sources, queue[s].status \in {"captured", "duplicate"}
             PROVE  ledger[queue[s].evidence] # NoEvidence
  BY DEF CapturedHasEvidence
<1>1. queue[s] \in Suggestions /\ Backed(queue[s], ledger)
  BY DEF LoneInv, QInv, QueueTypeOK
<1> QED BY <1>1 DEF Suggestions, Backed
=============================================================================
