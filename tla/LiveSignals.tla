---------------------------- MODULE LiveSignals ----------------------------
(***************************************************************************)
(* Canonical live signals: LiveSignalService.ingest_observation            *)
(* (live/service.py) and LiveResearchBridge._append_signal_state           *)
(* (live/bridge.py) over LiveSignalStore (live/store.py).                  *)
(*                                                                         *)
(* Observations from two equal-priority channels are merged into an        *)
(* append-only sequence of versions per signal key; each version is        *)
(* assessed by rules and may raise the key's one alert.  MCP polls, the    *)
(* WebSocket worker, replays and bridge requests run in threads of their   *)
(* own.  Every store call is a transaction, nothing is locked between two  *)
(* of them, and a process may die between any two: one action here is one  *)
(* store call with the computation up to the next.                         *)
(*                                                                         *)
(* Observation rows never change, so what a version says of channels,      *)
(* title and match status is a function of its observation ids and is left *)
(* out.  The score of the rules is a free choice of the verdict.           *)
(***************************************************************************)
EXTENDS Integers, Sequences, SequencesExt

CONSTANTS
  Keys,                \* signal keys (hashes of an observation's event key)
  Observations,        \* what the channels deliver, any number of times
  Polled,              \* those an MCP poll finds again at the head of its stream
  KeyOf,               \* the signal key of each observation
  VerificationStates,  \* "signal_only" and what the bridge decides
  Decisions,           \* what the bridge records in a version: a task and its outcome
  StateOf,             \* the verification state each decision leads to
  Ingesters,           \* threads that ingest
  Bridges,             \* threads that change a verification state
  MaxVersions,         \* bound of the model: the bridge decides below this version
  MaxCrashes           \* bound of the model: crashes and aborted calls

ASSUME DeliveryAssumption ==
  Observations # {} /\ Polled \subseteq Observations /\ KeyOf \in [Observations -> Keys]
ASSUME StatesAssumption ==
  "signal_only" \in VerificationStates /\ StateOf \in [Decisions -> VerificationStates]
ASSUME ThreadsAssumption == Ingesters \cap Bridges = {}
ASSUME LimitsAssumption == MaxVersions \in Nat /\ MaxCrashes \in Nat

Threads == Ingesters \cup Bridges

VARIABLES
  observed,   \* rows of live_signal_observations
  versions,   \* per key: its rows of live_signal_versions, in version order
  assessed,   \* per key, alongside: the assessment of each version
  alerts,     \* rows of live_alert_deliveries, in the order of their ids
  pc,         \* per thread: its next store call
  mem,        \* per thread: its local variables
  returned,   \* history: observations whose ingestion has returned
  crashes     \* history: crashes so far

vars == <<observed, versions, assessed, alerts, pc, mem, returned, crashes>>

-----------------------------------------------------------------------------
\* A version: the observations it links, its verification state, the bridge
\* metadata (the decisions merged into it; an ingestion starts over).
Versions == [obs : SUBSET Observations, state : VerificationStates, bridge : SUBSET Decisions]
Verdicts == {"none", "quiet", "alert"}

\* mem[t]: the key at work, the observation ingested, the version read (its
\* number: 0, none), the version built on it.
Locals == [key : Keys, obs : Observations, base : Nat, new : Versions]

PCs == {"idle", "save_observation", "latest", "save_signal", "save_assessment",
        "create_alert", "append", "copy"}

\* The tables with their unique keys: no two versions of a key are alike, and
\* a key has one alert at most.
TypeOK ==
  /\ observed \subseteq Observations
  /\ versions \in [Keys -> Seq(Versions)]
  /\ assessed \in [Keys -> Seq(Verdicts)]
  /\ \A k \in Keys : IsInjective(versions[k]) /\ Len(assessed[k]) = Len(versions[k])
  /\ alerts \in Seq(Keys) /\ IsInjective(alerts)
  /\ pc \in [Threads -> PCs]
  /\ mem \in [Threads -> Locals]
  /\ returned \subseteq Observations
  /\ crashes \in 0..MaxCrashes

Blank == [key |-> CHOOSE k \in Keys : TRUE, obs |-> CHOOSE o \in Observations : TRUE,
          base |-> 0, new |-> [obs |-> {}, state |-> "signal_only", bridge |-> {}]]

Init ==
  /\ observed = {}
  /\ versions = [k \in Keys |-> <<>>]
  /\ assessed = [k \in Keys |-> <<>>]
  /\ alerts = <<>>
  /\ pc = [t \in Threads |-> "idle"]
  /\ mem = [t \in Threads |-> Blank]
  /\ returned = {}
  /\ crashes = 0

-----------------------------------------------------------------------------
\* latest_signal: an unknown key has no observations and is signal_only.
Latest(k) == IF versions[k] = <<>> THEN Blank.new ELSE Last(versions[k])

\* signal_for_observation: some version links the observation.
Linked(o) == \E v \in 1..Len(versions[KeyOf[o]]) : o \in versions[KeyOf[o]][v].obs

Goto(t, label) == pc' = [pc EXCEPT ![t] = label]
Remember(t, m) == mem' = [mem EXCEPT ![t] = m]
Leave(t) == Goto(t, "idle") /\ Remember(t, Blank)

\* The unique keys of live_signal_versions: (signal_key, version) and
\* (signal_key, version_hash).  A version read before another thread's
\* insert has a number that is taken.
Free(k, number, new) ==
  /\ number = Len(versions[k]) + 1
  /\ \A v \in 1..Len(versions[k]) : versions[k][v] # new

-----------------------------------------------------------------------------
(* ingest_observation                                                      *)

\* Mutant: a known observation is taken for an ingested one.
Receive_TrustsRow(i, o) ==
  /\ pc[i] = "idle"
  /\ IF o \in observed
     THEN returned' = returned \cup {o} /\ UNCHANGED <<pc, mem>>
     ELSE /\ Goto(i, "save_observation")
          /\ Remember(i, [Blank EXCEPT !.key = KeyOf[o], !.obs = o])
          /\ UNCHANGED returned
  /\ UNCHANGED <<observed, versions, assessed, alerts, crashes>>

\* An observation some version links already is a duplicate delivery.
Receive(i, o) ==
  /\ pc[i] = "idle"
  /\ IF o \in observed /\ Linked(o)
     THEN returned' = returned \cup {o} /\ UNCHANGED <<pc, mem>>
     ELSE /\ Goto(i, "save_observation")
          /\ Remember(i, [Blank EXCEPT !.key = KeyOf[o], !.obs = o])
          /\ UNCHANGED returned
  /\ UNCHANGED <<observed, versions, assessed, alerts, crashes>>

SaveObservation(i) ==
  /\ pc[i] = "save_observation"
  /\ observed' = observed \cup {mem[i].obs}
  /\ Goto(i, "latest")
  /\ UNCHANGED <<versions, assessed, alerts, mem, returned, crashes>>

\* Mutant: the new version starts from this observation alone.
Merged_DropsHistory(latest, o) ==
  [latest EXCEPT !.obs = {o}, !.bridge = {}]

\* The version an observation makes of the latest one: the verification
\* state is carried over, the metadata is built anew without the bridge's.
Merged(latest, o) == [latest EXCEPT !.obs = latest.obs \cup {o}, !.bridge = {}]

\* Read the latest version and build the next; the same content is no news.
ReadLatest(i) ==
  /\ pc[i] = "latest"
  /\ LET new == Merged(Latest(mem[i].key), mem[i].obs)
     IN  IF versions[mem[i].key] # <<>> /\ new = Latest(mem[i].key)
         THEN Leave(i) /\ returned' = returned \cup {mem[i].obs}
         ELSE /\ Remember(i, [mem[i] EXCEPT !.base = Len(versions[mem[i].key]), !.new = new])
              /\ Goto(i, "save_signal")
              /\ UNCHANGED returned
  /\ UNCHANGED <<observed, versions, assessed, alerts, crashes>>

\* Mutant: the version is appended whatever was inserted since the read.
AppendVersion_Blindly(t, next) ==
  /\ versions' = [versions EXCEPT ![mem[t].key] = Append(@, mem[t].new)]
  /\ assessed' = [assessed EXCEPT ![mem[t].key] = Append(@, "none")]
  /\ Goto(t, next)
  /\ UNCHANGED mem

\* save_signal: the version and its observation links, in one transaction;
\* a violated unique key raises IntegrityError through the caller.
AppendVersion(t, next) ==
  IF Free(mem[t].key, mem[t].base + 1, mem[t].new)
  THEN /\ versions' = [versions EXCEPT ![mem[t].key] = Append(@, mem[t].new)]
       /\ assessed' = [assessed EXCEPT ![mem[t].key] = Append(@, "none")]
       /\ Goto(t, next)
       /\ UNCHANGED mem
  ELSE Leave(t) /\ UNCHANGED <<versions, assessed>>

SaveSignal(i) ==
  /\ pc[i] = "save_signal"
  /\ AppendVersion(i, "save_assessment")
  /\ UNCHANGED <<observed, alerts, returned, crashes>>

\* save_assessment: INSERT OR IGNORE, one row per version.
Assessment(k, number, verdict) ==
  assessed' = [assessed EXCEPT ![k][number] = IF @ = "none" THEN verdict ELSE @]

\* The rules score the version against the settings; the title cooldown can
\* only turn an alert into a quiet verdict.
Assess(i, verdict) ==
  /\ pc[i] = "save_assessment"
  /\ Assessment(mem[i].key, mem[i].base + 1, verdict)
  /\ IF verdict = "alert"
     THEN Goto(i, "create_alert") /\ UNCHANGED <<mem, returned>>
     ELSE Leave(i) /\ returned' = returned \cup {mem[i].obs}
  /\ UNCHANGED <<observed, versions, alerts, crashes>>

\* Mutant: only a key's first version is alerted.
CreateAlert_FirstVersion(i) ==
  /\ pc[i] = "create_alert"
  /\ alerts' = IF Contains(alerts, mem[i].key) \/ mem[i].base # 0
               THEN alerts ELSE Append(alerts, mem[i].key)
  /\ returned' = returned \cup {mem[i].obs}
  /\ Leave(i)
  /\ UNCHANGED <<observed, versions, assessed, crashes>>

\* create_alert: INSERT OR IGNORE, one row per key, AUTOINCREMENT id.
CreateAlert(i) ==
  /\ pc[i] = "create_alert"
  /\ alerts' = IF Contains(alerts, mem[i].key) THEN alerts ELSE Append(alerts, mem[i].key)
  /\ returned' = returned \cup {mem[i].obs}
  /\ Leave(i)
  /\ UNCHANGED <<observed, versions, assessed, crashes>>

-----------------------------------------------------------------------------
(* _append_signal_state                                                    *)

\* A decision joins the metadata of the latest version.  One that changes
\* nothing returns the version read.
Transition(b, k, d) ==
  /\ pc[b] = "idle" /\ Len(versions[k]) \in 1..(MaxVersions - 1)
  /\ LET new == [Latest(k) EXCEPT !.state = StateOf[d], !.bridge = @ \cup {d}]
     IN  /\ new # Latest(k)
         /\ Remember(b, [Blank EXCEPT !.key = k, !.base = Len(versions[k]), !.new = new])
  /\ Goto(b, "append")
  /\ UNCHANGED <<observed, versions, assessed, alerts, returned, crashes>>

AppendState(b) ==
  /\ pc[b] = "append"
  /\ AppendVersion(b, "copy")
  /\ UNCHANGED <<observed, alerts, returned, crashes>>

\* The assessment of the version read, if it has one by now, is copied.
CopyAssessment(b) ==
  /\ pc[b] = "copy"
  /\ Assessment(mem[b].key, mem[b].base + 1, assessed[mem[b].key][mem[b].base])
  /\ Leave(b)
  /\ UNCHANGED <<observed, versions, alerts, returned, crashes>>

-----------------------------------------------------------------------------
\* The process dies, or a store error aborts the call, between two calls.
Crash(t) ==
  /\ pc[t] # "idle" /\ crashes < MaxCrashes
  /\ crashes' = crashes + 1
  /\ Leave(t)
  /\ UNCHANGED <<observed, versions, assessed, alerts, returned>>

Ingest(i) ==
  \/ SaveObservation(i) \/ ReadLatest(i) \/ SaveSignal(i)
  \/ \E verdict \in {"quiet", "alert"} : Assess(i, verdict)
  \/ CreateAlert(i)

Reclassify(b) == AppendState(b) \/ CopyAssessment(b)

Next ==
  \/ \E i \in Ingesters : Ingest(i) \/ \E o \in Observations : Receive(i, o)
  \/ \E b \in Bridges : \/ Reclassify(b)
                        \/ \E k \in Keys, d \in Decisions : Transition(b, k, d)
  \/ \E t \in Threads : Crash(t)

Spec == Init /\ [][Next]_vars

\* A thread at work keeps going.  An MCP poll reads the head of its stream,
\* whatever its checkpoint says ("head_refresh", live/mcp.py), so it delivers
\* an item again; the WebSocket delivers it once.
Fairness == /\ \A i \in Ingesters : WF_vars(Ingest(i))
            /\ \A b \in Bridges : WF_vars(Reclassify(b))
            /\ \A o \in Polled : WF_vars(\E i \in Ingesters : Receive(i, o))
FairSpec == Spec /\ Fairness

-----------------------------------------------------------------------------
(* Properties                                                              *)

\* A delivery that was acknowledged is part of the signal: the version read
\* last links every observation whose ingestion returned, whatever crashed
\* or raced before (service.py lines 69-73, 78-79, 104).
ReturnedIsLinked == \A o \in returned : o \in observed /\ o \in Latest(KeyOf[o]).obs

\* "Every new signal version receives an immutable rules assessment"
\* (docs/ARCHITECTURE.md), once the threads at work are done.
EveryVersionAssessed ==
  (\A t \in Threads : pc[t] = "idle") =>
    \A k \in Keys : \A v \in 1..Len(versions[k]) : assessed[k][v] # "none"

\* What the polls keep delivering becomes part of its signal in the end,
\* although ingestions race for the version and crash half way
\* (service.py lines 69-75: a saved row is no proof of a finished ingestion).
DeliveredInTheEnd == \A o \in Polled : <>Linked(o)

\* A version assessed as alerting leads to the alert of its key, unless the
\* process dies in between (service.py lines 175-177).
AlertInTheEnd ==
  \A k \in Keys : (\E v \in 1..Len(versions[k]) : assessed[k][v] = "alert") ~>
                     Contains(alerts, k) \/ crashes > 0

\* The interleaved reads and inserts amount to atomic updates of the signal:
\* an ingestion never undoes a decision of the bridge, nor the other way
\* round, and no observation is lost (service.py lines 76-142, bridge.py
\* lines 150-193, the unique keys of live_signal_versions).
Log == INSTANCE SignalLog WITH
         signal <- [k \in Keys |-> [obs |-> Latest(k).obs, state |-> Latest(k).state]]
ImplementsLog == Log!Spec
=============================================================================
