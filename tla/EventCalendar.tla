----------------------------- MODULE EventCalendar -----------------------------
(***************************************************************************)
(* The corporate event calendar of one run: events/service.py and          *)
(* events/store.py, with the mappers events/sec.py and                     *)
(* events/disclosures.py.  A supported source suggestion is mapped to a    *)
(* draft, whose hash says whether it is a version of its event the         *)
(* calendar has; if not, it is appended with the next number.              *)
(*                                                                         *)
(* Ingests run in the thread of the request that changed the suggestions,  *)
(* or that refreshes the calendar, and lock nothing.  The hash and the     *)
(* last version are looked up in one step here: a version inserted between *)
(* the two reads only moves the number on or makes the insert clash.       *)
(***************************************************************************)
EXTENDS Integers, FiniteSets, Sequences, FiniteSetsExt, SequencesExt

CONSTANTS
  Filings,     \* source suggestions
  Mapper,      \* the mapper that supports each: "sec", "disclosure" or "none"
  EventKey,    \* the event each is about: sec:<cik>:<accession>, <country>:<provider>:<id>
  Published,   \* the day its source was public, or Undated
  Downloads,   \* what a capture may bring
  Readers,     \* requests that may be at work at one time
  LastDay,     \* bound on the days
  MaxIngests   \* bound on the requests

Undated == 0

CalendarAssumption ==
  /\ Mapper \in [Filings -> {"sec", "disclosure", "none"}]
  /\ Published \in [Filings -> Nat]
  /\ LastDay \in Nat \ {0} /\ MaxIngests \in Nat
  /\ "none" \notin Filings \cup Downloads
  /\ IsFiniteSet(Filings)

VARIABLES
  today,       \* the clock
  filings,     \* source_suggestions, as far as the calendar reads them
  versions,    \* corporate_event_versions
  portable,    \* the versions in events.json
  reader,      \* the requests at work
  ingests      \* requests so far

calendarVars == <<today, filings, versions, portable, reader, ingests>>

Unknown == [evidence |-> "none", content |-> "none", captured |-> 0, updated |-> 0]
Away == [pc |-> "away"]

CalendarInit ==
  /\ today = 1
  /\ filings = [s \in Filings |-> Unknown]
  /\ versions = {}
  /\ portable = {}
  /\ reader = [t \in Readers |-> Away]
  /\ ingests = 0

-----------------------------------------------------------------------------
(* The mappers and the record they fill.                                   *)

\* captured_at or updated_at or discovered_at; updated_at is always there.
ObservedAt(row) == IF row.captured # 0 THEN row.captured ELSE row.updated

\* The hash of a draft without observed_at and revision_reason: what can change in a
\* suggestion is its evidence, and the URL and hash of the download.
VersionHash(s, row) == <<s, row.evidence, row.content>>

SecDraft(s, row) ==
  [key |-> EventKey[s], hash |-> VersionHash(s, row),
   known |-> Published[s], observed |-> ObservedAt(row)]

\* A disclosure is never observed before it was public.
DisclosureDraft(s, row) ==
  [key |-> EventKey[s], hash |-> VersionHash(s, row),
   known |-> Published[s], observed |-> Max({ObservedAt(row), Published[s]})]

Draft(s, row) == IF Mapper[s] = "sec" THEN SecDraft(s, row) ELSE DisclosureDraft(s, row)

\* A mapper needs a date, and validate_event_timeline an observation after it.
Valid(draft) == draft.known # Undated /\ draft.known <= draft.observed

\* The row of a draft that is to be version n of its event.
Numbered(n, draft) ==
  [version |-> n, key |-> draft.key, hash |-> draft.hash,
   known |-> draft.known, observed |-> draft.observed]

OfKey(k) == {v \in versions : v.key = k}
LatestOf(vs) == CHOOSE v \in vs : \A w \in vs : w.version <= v.version

\* EventCalendarStore.list with a cutoff: per event the last version observed by then.
Seen(k, asOf) == {v \in OfKey(k) : v.observed <= asOf}
View(asOf) ==
  {LatestOf(Seen(k, asOf)) : k \in {q \in Range(EventKey) : Seen(q, asOf) # {}}}

-----------------------------------------------------------------------------
(* What happens to a suggestion in the queue (module SourceQueue); a      *)
(* request that ingests it afterwards has it in its hands.                 *)

Free(t) == reader[t] = Away /\ ingests < MaxIngests /\ ingests' = ingests + 1
Step(t, job) == reader' = [reader EXCEPT ![t] = job]

Ingest(t, todo, refresh) ==
  Step(t, IF todo # <<>>
          THEN [pc |-> "find", todo |-> todo, events |-> {}, refresh |-> refresh]
          ELSE IF refresh THEN [pc |-> "artifact"] ELSE Away)

\* An index names some suggestions, new ones or known (add counts the duplicate, which is
\* an update).  discover_sec_filings and discover_official ingest what was found, the
\* discovery of the sources does not.
Discover(t, found, ingest) ==
  LET row(s) == [filings[s] EXCEPT !.updated = today] IN
  /\ Free(t)
  /\ filings' = [s \in Filings |-> IF s \in Range(found) THEN row(s) ELSE filings[s]]
  /\ Ingest(t, IF ingest THEN [i \in DOMAIN found |-> [of |-> found[i], row |-> row(found[i])]]
               ELSE <<>>, FALSE)
  /\ UNCHANGED <<today, versions, portable>>

\* A capture, or the retry of one, downloads content: it becomes the Evidence of the
\* suggestion, or the suggestion is a duplicate of another with Evidence and keeps the
\* day of its last own capture.
Capture(t, s, content, evidence) ==
  LET own == evidence = s
      row == [evidence |-> evidence, content |-> content, updated |-> today,
              captured |-> IF own THEN today ELSE filings[s].captured]
  IN
  /\ Free(t)
  /\ filings[s] # Unknown
  /\ own \/ filings[evidence].evidence = evidence
  /\ filings' = [filings EXCEPT ![s] = row]
  /\ Ingest(t, <<[of |-> s, row |-> row]>>, FALSE)
  /\ UNCHANGED <<today, versions, portable>>

\* A failed capture or a dismissal: only updated_at changes for the calendar.
TouchFiling(s) ==
  /\ filings[s] # Unknown
  /\ filings' = [filings EXCEPT ![s].updated = today]
  /\ filings' # filings
  /\ UNCHANGED <<today, versions, portable, reader, ingests>>

\* refresh_from_sources: every suggestion of the run, in the order of the queue.
Refresh(t) ==
  /\ Free(t)
  /\ LET known == {s \in Filings : filings[s] # Unknown}
         copy(s) == [of |-> s, row |-> filings[s]]
     IN  \E order \in SetToSeqs(known) :
           Ingest(t, [i \in DOMAIN order |-> copy(order[i])], TRUE)
  /\ UNCHANGED <<today, filings, versions, portable>>

\* The endpoints of the calendar: the queue's and these two.
CalendarRequests(t) ==
  \/ \E some \in SUBSET Filings \ {{}}, ingest \in BOOLEAN :
       \E found \in SetToSeqs(some) : Discover(t, found, ingest)
  \/ \E s, e \in Filings, c \in Downloads : Capture(t, s, c, e)
  \/ Refresh(t)

-----------------------------------------------------------------------------
(* ingest_suggestions                                                      *)

\* After the last suggestion of a request: what is new is linked to the themes; a
\* refresh writes events.json in any case.
Onward(job, event) ==
  LET events == job.events \cup event
      rest == Tail(job.todo)
  IN  IF rest # <<>>
      THEN [pc |-> "find", todo |-> rest, events |-> events, refresh |-> job.refresh]
      ELSE IF events # {} THEN [pc |-> "propose"]
      ELSE IF job.refresh THEN [pc |-> "artifact"]
      ELSE Away

\* A draft is made and looked up.  An error of the mapper ends the request, with the
\* suggestions after this one unread.
FindVersion(t) ==
  LET job == reader[t]
      s == Head(job.todo).of
      draft == Draft(s, Head(job.todo).row)
      versions_of == OfKey(draft.key)
      stored == {v \in versions_of : v.hash = draft.hash}
      last == IF versions_of = {} THEN 0 ELSE LatestOf(versions_of).version
  IN
  /\ job.pc = "find"
  /\ IF Mapper[s] = "none" THEN Step(t, Onward(job, {}))
     ELSE IF ~Valid(draft) THEN Step(t, Away)
     ELSE IF stored # {} THEN Step(t, Onward(job, stored))
     ELSE Step(t, [pc |-> "save", todo |-> job.todo, events |-> job.events,
                   refresh |-> job.refresh, draft |-> Numbered(last + 1, draft)])
  /\ UNCHANGED <<today, filings, versions, portable, ingests>>

\* Mutant: no unique version.
Clashes_HashOnly(draft) == \E v \in OfKey(draft.key) : v.hash = draft.hash

\* UNIQUE(run_id, event_key, version) and UNIQUE(run_id, event_key, version_hash).
Clashes(draft) ==
  \E v \in OfKey(draft.key) : v.version = draft.version \/ v.hash = draft.hash

\* The store's error ends the request: the capture notes it in the run, the other
\* requests fail.
SaveVersion(t) ==
  LET job == reader[t] IN
  /\ job.pc = "save"
  /\ IF Clashes(job.draft)
     THEN Step(t, Away) /\ UNCHANGED versions
     ELSE /\ versions' = versions \cup {job.draft}
          /\ Step(t, Onward(job, {job.draft}))
  /\ UNCHANGED <<today, filings, portable, ingests>>

\* _propose_linked_research (module MainlineMonitor) returns, or loses a race for the
\* proposal of its assessment and ends the request.
ProposeLinked(t, raises) ==
  /\ reader[t].pc = "propose"
  /\ Step(t, IF raises THEN Away ELSE [pc |-> "artifact"])
  /\ UNCHANGED <<today, filings, versions, portable, ingests>>

\* _write_artifact reads the calendar and then replaces events.json; the manifest it
\* saves into the run afterwards is left out (WorkflowExecutor, Edit).
ReadCalendar(t) ==
  /\ reader[t].pc = "artifact"
  /\ Step(t, [pc |-> "write", versions |-> versions])
  /\ UNCHANGED <<today, filings, versions, portable, ingests>>

WriteArtifact(t) ==
  /\ reader[t].pc = "write"
  /\ portable' = reader[t].versions
  /\ Step(t, Away)
  /\ UNCHANGED <<today, filings, versions, ingests>>

NextDay ==
  /\ today < LastDay
  /\ today' = today + 1
  /\ UNCHANGED <<filings, versions, portable, reader, ingests>>

CalendarNext ==
  \/ \E t \in Readers : CalendarRequests(t)
  \/ \E s \in Filings : TouchFiling(s)
  \/ \E t \in Readers : FindVersion(t)
  \/ \E t \in Readers : SaveVersion(t)
  \/ \E t \in Readers, raises \in BOOLEAN : ProposeLinked(t, raises)
  \/ \E t \in Readers : ReadCalendar(t)
  \/ \E t \in Readers : WriteArtifact(t)
  \/ NextDay

CalendarSpec == CalendarInit /\ [][CalendarNext]_calendarVars

-----------------------------------------------------------------------------

CalendarTypeOK ==
  /\ today \in 1..LastDay
  /\ filings \in [Filings -> [evidence : Filings \cup {"none"}, content : Downloads \cup {"none"},
                              captured : 0..LastDay, updated : 0..LastDay]]
  /\ portable \subseteq versions
  /\ ingests \in 0..MaxIngests

\* Whatever ingests meet, the versions of an event are numbered 1, 2, ... without a
\* gap, no two of them alike, and no view, as of any day, shows one whose source was
\* published later (_persist_draft, service.py:51; validate_event_timeline).
HistoryIsOrdered ==
  /\ \A k \in Range(EventKey) :
       {v.version : v \in OfKey(k)} = 1..Cardinality(OfKey(k))
  /\ \A v, w \in versions : v.key = w.key /\ v.hash = w.hash => v = w
  /\ \A day \in 1..LastDay : \A v \in View(day) : v.known <= day

=============================================================================
