---------------------------- MODULE ThemeRegistry ----------------------------
(***************************************************************************)
(* The registry of one theme: themes/store.py, themes/service.py and the   *)
(* rows themes/importers.py makes of a document.  Definitions, sources and *)
(* memberships say when they hold (valid_from, valid_to) and since when    *)
(* they could be known (known_at, observed_at); a snapshot is the universe *)
(* of a market date as it could be known at a cutoff.                      *)
(*                                                                         *)
(* An import saves the definition, then each source, then all memberships, *)
(* each in a transaction; a snapshot reads the three tables one after the  *)
(* other.  A row's columns are written once, its payload at every import.  *)
(***************************************************************************)
EXTENDS Integers, FiniteSets, Sequences, FiniteSetsExt

CONSTANTS
  Desks,        \* requests that may be at work at one time
  Days,         \* market dates, and the days things become known
  Documents,    \* the documents a user may import (see Document)
  MaxThemeWork  \* bound on the requests

\* A document: [definition |-> [id, hash, version, from, to, known], sources |-> a sequence of
\* [id, kind, coverage, observed, members]], its members a set of [id, ticker, from, to, known].
\* A definition or member without an id has id = ""; an open end is Open; a membership that
\* names no known_at has known = Unsaid.
Open == 1000
Unsaid == -1

\* import_theme_json: the id a row names, or else its hash: of the membership as the
\* document states it, with its source, not of the defaults filled in.
MemberId(source, m) ==
  IF m.id # "" THEN <<m.id>> ELSE <<source.id, m.ticker, m.from, m.to, m.known>>
DefinitionRow(d) == [d EXCEPT !.id = IF d.id # "" THEN d.id ELSE d.hash]
KnownAt(source, m) == IF m.known = Unsaid THEN source.observed ELSE m.known
MemberRow(source, m) == [source |-> source.id, ticker |-> m.ticker, from |-> m.from,
                         to |-> m.to, known |-> KnownAt(source, m)]

DocumentMembers(doc) ==
  UNION {{<<MemberId(doc.sources[i], m), MemberRow(doc.sources[i], m)>> :
            m \in doc.sources[i].members} : i \in DOMAIN doc.sources}

\* No two rows of a document have one id: which of them came last is left out.
ThemeAssumption ==
  /\ Days \subseteq Nat
  /\ \A doc \in Documents :
       /\ doc.definition \in [id : {doc.definition.id}, hash : {doc.definition.hash},
                              version : Nat, from : Nat, to : Nat, known : Nat]
       /\ \A p, q \in DocumentMembers(doc) : p[1] = q[1] => p = q
       /\ doc.sources \in Seq({doc.sources[i] : i \in DOMAIN doc.sources})
       /\ doc.sources # <<>>
       /\ \A i \in DOMAIN doc.sources :
            /\ doc.sources[i].observed \in Nat
            /\ \A m \in doc.sources[i].members : m.known \in Nat \cup {Unsaid}

VARIABLES
  definitions,  \* theme_definitions
  sources,      \* theme_sources: id -> [column, payload], each as imported
  memberships,  \* theme_memberships: id -> [column, payload], each a MemberRow
  universes,    \* theme_universe_snapshots
  desk,         \* the requests at work
  themeWork,    \* requests made so far
  fresh         \* the snapshots nothing was imported for since they were begun (history)

themeVars == <<definitions, sources, memberships, universes, desk, themeWork, fresh>>

AtRest == [pc |-> "idle"]

ThemeInit ==
  /\ definitions = {}
  /\ sources = [i \in {} |-> 0]
  /\ memberships = [i \in {} |-> 0]
  /\ universes = {}
  /\ desk = [t \in Desks |-> AtRest]
  /\ themeWork = 0
  /\ fresh = {}

(***************************************************************************)
(* Queries.                                                                *)
(***************************************************************************)
ValidOn(row, day) == row.from <= day /\ day <= row.to

\* latest_definition with a date and a cutoff: the highest version.
Knowable(day, cutoff) == {d \in definitions : ValidOn(d, day) /\ d.known <= cutoff}
LatestDefinition(day, cutoff) ==
  CHOOSE d \in Knowable(day, cutoff) : \A e \in Knowable(day, cutoff) : e.version <= d.version

\* Mutant: the cutoff is forgotten.
ListMemberships_AnyTime(day, cutoff) ==
  {memberships[i].payload : i \in {j \in DOMAIN memberships : ValidOn(memberships[j].column, day)}}

\* list_memberships filters on the columns and returns the payloads.
ListMemberships(day, cutoff) ==
  {memberships[i].payload :
     i \in {j \in DOMAIN memberships : /\ ValidOn(memberships[j].column, day)
                                       /\ memberships[j].column.known <= cutoff}}

\* snapshot's loop: per source and ticker the row known last.  Which of several known at
\* once is kept shows in its names and weights only, which are left out.
LatestPerKey(rows) ==
  {r \in rows : \A q \in rows :
     (q.source = r.source /\ q.ticker = r.ticker) => q.known <= r.known}

\* The sources a snapshot uses are those whose payload was observed by the cutoff.
Observed(cutoff) == {i \in DOMAIN sources : sources[i].payload.observed <= cutoff}

Member(ticker, rows) ==
  LET mine == {r \in rows : r.ticker = ticker} IN
  [ticker     |-> ticker,
   source_ids |-> {r.source : r \in mine},
   recognised |-> \E r \in mine : sources[r.source].payload.kind # "evidence_graph",
   exposed    |-> \E r \in mine : sources[r.source].payload.kind = "evidence_graph"]

\* The universe made of membership rows read before and of the sources of now.
Universe(rows, cutoff) ==
  LET used == {r \in LatestPerKey(rows) : r.source \in Observed(cutoff)} IN
  [members |-> {Member(k, used) : k \in {r.ticker : r \in used}},
   missing |-> {i \in Observed(cutoff) :
                  sources[i].payload.coverage \in {"blocked", "unsupported"}},
   partial |-> \E i \in Observed(cutoff) : sources[i].payload.coverage # "complete"]

-----------------------------------------------------------------------------

Busy(t, pc) == desk[t].pc = pc
Start(t) == desk[t] = AtRest /\ themeWork < MaxThemeWork /\ themeWork' = themeWork + 1
Goto(t, job) == desk' = [desk EXCEPT ![t] = job]

\* Nothing a cutoff could know is among what a save changes.
Outdates(known) == fresh' = {s \in fresh : s.cutoff < known}

\* find_definition_hash
Registered(hash) == \E e \in definitions : e.hash = hash

\* persist_import looks for the hash of the definition; one that is known is kept.
ImportDefinition(t, doc) ==
  LET then == [pc |-> "sources", doc |-> doc, next |-> 1] IN
  /\ Start(t)
  /\ Goto(t, IF Registered(doc.definition.hash)
             THEN then
             ELSE [pc |-> "define", definition |-> DefinitionRow(doc.definition), then |-> then])
  /\ UNCHANGED <<definitions, sources, memberships, universes, fresh>>

\* save_source: a new id whose content another id has is refused; a known id has its
\* payload replaced, and the columns stay.
Content(source) == [source EXCEPT !.id = "any"]

Upsert(rows, id, new) ==
  [i \in DOMAIN rows \cup {id} |->
     IF i # id THEN rows[i]
     ELSE [column |-> IF id \in DOMAIN rows THEN rows[id].column ELSE new, payload |-> new]]

ImportSource(t) ==
  LET job == desk[t]
      s == job.doc.sources[job.next]
      clash == s.id \notin DOMAIN sources
               /\ \E i \in DOMAIN sources : Content(sources[i].column) = Content(s)
  IN
  /\ Busy(t, "sources")
  /\ IF clash
     THEN Goto(t, AtRest) /\ UNCHANGED <<sources, fresh>>
     ELSE /\ sources' = Upsert(sources, s.id, s)
          /\ Outdates(IF s.id \in DOMAIN sources
                      THEN Min({s.observed, sources[s.id].payload.observed})
                      ELSE s.observed)
          /\ Goto(t, IF job.next < Len(job.doc.sources)
                     THEN [job EXCEPT !.next = job.next + 1]
                     ELSE [job EXCEPT !.pc = "members"])
  /\ UNCHANGED <<definitions, memberships, universes, themeWork>>

\* save_memberships: all of them in one transaction, which fails as a whole when a
\* new id has the unique key (source, ticker, valid_from, known_at) of another row; a
\* known id has its payload replaced, by a row of another source or ticker too.
Key(row) == <<row.source, row.ticker, row.from, row.known>>

ImportMembers(t) ==
  LET job == desk[t]
      new == DocumentMembers(job.doc)
      clash == \E p \in new : /\ p[1] \notin DOMAIN memberships
                              /\ \/ \E i \in DOMAIN memberships :
                                      Key(memberships[i].column) = Key(p[2])
                                 \/ \E q \in new : /\ q # p /\ q[1] \notin DOMAIN memberships
                                                   /\ Key(q[2]) = Key(p[2])
      ids == {p[1] : p \in new}
      row(id) == (CHOOSE p \in new : p[1] = id)[2]
      column(id) == IF id \in DOMAIN memberships THEN memberships[id].column ELSE row(id)
  IN
  /\ Busy(t, "members")
  /\ IF clash \/ new = {}
     THEN UNCHANGED <<memberships, fresh>>
     ELSE /\ memberships' = [i \in DOMAIN memberships \cup ids |->
               IF i \notin ids THEN memberships[i]
               ELSE [column |-> column(i), payload |-> row(i)]]
          /\ Outdates(Min({column(i).known : i \in ids}))
  /\ Goto(t, AtRest)
  /\ UNCHANGED <<definitions, sources, universes, themeWork>>

\* register_definition: the hash is looked for and the latest version read, one step
\* here: a definition saved between the two moves the number on, or the save clashes.
Register(t, d) ==
  /\ Start(t)
  /\ ~Registered(d.hash)
  /\ Goto(t, [pc |-> "define", then |-> AtRest, definition |->
                [d EXCEPT !.id = d.hash,
                          !.version = IF definitions = {} THEN 1
                                      ELSE Max({e.version : e \in definitions}) + 1]])
  /\ UNCHANGED <<definitions, sources, memberships, universes, fresh>>

\* save_definition: a plain insert, refused when the id, the version or the hash is taken,
\* as it is for the second of two at once; the refusal ends the request.
SaveDefinition(t) ==
  LET d == desk[t].definition IN
  /\ Busy(t, "define")
  /\ IF \E e \in definitions : e.id = d.id \/ e.version = d.version \/ e.hash = d.hash
     THEN UNCHANGED <<definitions, fresh>> /\ Goto(t, AtRest)
     ELSE definitions' = definitions \cup {d} /\ Outdates(d.known) /\ Goto(t, desk[t].then)
  /\ UNCHANGED <<sources, memberships, universes, themeWork>>

\* snapshot: the definition, or a refusal; the memberships; the sources and the save.
BeginSnapshot(t, day, cutoff) ==
  /\ Start(t)
  /\ Knowable(day, cutoff) # {}
  /\ LET job == [pc |-> "memberships", day |-> day, cutoff |-> cutoff,
                 definition |-> LatestDefinition(day, cutoff).id]
     IN Goto(t, job) /\ fresh' = fresh \cup {[desk |-> t, cutoff |-> cutoff]}
  /\ UNCHANGED <<definitions, sources, memberships, universes>>

ReadMemberships(t) ==
  LET job == desk[t] IN
  /\ Busy(t, "memberships")
  /\ Goto(t, [pc |-> "save", day |-> job.day, cutoff |-> job.cutoff,
              definition |-> job.definition, rows |-> ListMemberships(job.day, job.cutoff)])
  /\ UNCHANGED <<definitions, sources, memberships, universes, themeWork, fresh>>

SaveSnapshotRow(t) ==
  LET job == desk[t]
      row == [day |-> job.day, cutoff |-> job.cutoff, definition |-> job.definition,
              universe |-> Universe(job.rows, job.cutoff)]
      begun == [desk |-> t, cutoff |-> job.cutoff]
  IN
  /\ Busy(t, "save")
  /\ universes' = universes \cup {row}
  /\ fresh' = (fresh \ {begun})
              \cup (IF begun \in fresh THEN {[row |-> row, cutoff |-> job.cutoff]} ELSE {})
  /\ Goto(t, AtRest)
  /\ UNCHANGED <<definitions, sources, memberships, themeWork>>

\* The POST endpoints of /api/v1/themes, and the CLI's register.
ThemeRequests ==
  \E t \in Desks :
    \/ \E doc \in Documents : ImportDefinition(t, doc)
    \/ \E doc \in Documents : Register(t, doc.definition)
    \/ \E d, c \in Days : BeginSnapshot(t, d, c)

ThemeSteps ==
  \E t \in Desks :
    \/ ImportSource(t) \/ ImportMembers(t) \/ SaveDefinition(t)
    \/ ReadMemberships(t) \/ SaveSnapshotRow(t)

ThemeNext == ThemeRequests \/ ThemeSteps

ThemeSpec == ThemeInit /\ [][ThemeNext]_themeVars

-----------------------------------------------------------------------------

\* A snapshot can be made again: as long as nothing that could be known at its cutoff
\* is imported after it was begun, the same date and cutoff give the same universe and
\* the same definition, although its three reads race with imports of later knowledge
\* (snapshot, service.py:93).
SnapshotsReproducible ==
  \A s \in universes :
    [row |-> s, cutoff |-> s.cutoff] \in fresh =>
      /\ s.universe = Universe(ListMemberships(s.day, s.cutoff), s.cutoff)
      /\ s.definition = LatestDefinition(s.day, s.cutoff).id
=============================================================================
