----------------------------- MODULE TypeProofs -----------------------------
(***************************************************************************)
(* The types of the components of the workbench, each from the invariant   *)
(* of its component.                                                       *)
(***************************************************************************)
EXTENDS ServiceProofs

-----------------------------------------------------------------------------
(* MarketData.                                                             *)

\* A sync with the prices it fetched.
Fetching(j) ==
  \/ j = Market!Idle
  \/ j.pc = "fetch"
  \/ /\ j = [pc |-> j.pc, end |-> j.end, target |-> j.target, batch |-> j.batch]
     /\ j.pc \in {"save", "check"}
     /\ DOMAIN j.batch \subseteq Market!Dates /\ \A d \in DOMAIN j.batch : j.batch[d] \in 0..MaxAdjustments

MarketTypes ==
  /\ Market!MarketTypeOK
  /\ IsOn(sync, Syncers) /\ \A t \in Syncers : Fetching(sync[t])

LEMMA Grading ==
  /\ \A s, e, warns : Market!Quality(s, e, warns) \in {"none", "pass", "warn", "fail"}
  /\ \A stored, j, warns : Market!Checked(stored, j, warns) \in {"none", "pass", "warn", "fail"}
BY DEF Market!Quality, Market!Checked

LEMMA SyncTyped ==
  ASSUME MarketTypes, NEW t \in Syncers, NEW j, Fetching(j), sync' = [sync EXCEPT ![t] = j],
         day' = day, adjustments' = adjustments, syncs' \in 0..MaxSyncs,
         DOMAIN bars' \subseteq Market!Dates, \A d \in DOMAIN bars' : bars'[d] \in 0..MaxAdjustments,
         report' \in {"none", "pass", "warn", "fail"}
  PROVE  MarketTypes'
<1>1. IsOn(sync', Syncers) /\ \A u \in Syncers : sync'[u] = j \/ sync'[u] = sync[u]
  BY DEF MarketTypes, IsOn
<1>2. \A u \in Syncers : Fetching(sync'[u])
  BY <1>1 DEF MarketTypes
<1>3. ASSUME NEW k, Fetching(k) PROVE k.pc \in {"idle", "fetch", "save", "check"}
  BY <1>3 DEF Fetching, Market!Idle
<1> QED BY <1>1, <1>2, <1>3 DEF MarketTypes, Market!MarketTypeOK

LEMMA MarketTyped ==
  ASSUME MarketTypes, [Market!MarketNext]_Market!marketVars
  PROVE  MarketTypes'
<1> USE DEF MarketTypes, Market!MarketTypeOK
<1>1. ASSUME NEW t \in Syncers, NEW w \in Windows, Market!BeginSync(t, w) PROVE MarketTypes'
  <2>1. PICK j : j.pc = "fetch" /\ sync' = [sync EXCEPT ![t] = j]
    BY <1>1 DEF Market!BeginSync
  <2>2. syncs' \in 0..MaxSyncs /\ UNCHANGED <<day, adjustments, bars, report>>
    BY <1>1, WorkbenchAssumption DEF Market!BeginSync, Market!MarketAssumption
  <2> QED BY <2>1, <2>2, SyncTyped DEF Fetching
<1>2. ASSUME NEW t \in Syncers, NEW last \in 0..LastDay, NEW warns \in BOOLEAN,
             Market!Fetch(t, last, warns)
      PROVE  MarketTypes'
  <2> DEFINE batch == Market!Fetched(sync[t].start, last)
  <2> DEFINE j == IF Market!Quality(batch, sync[t].end, warns) = "fail" THEN Market!Idle
                  ELSE [pc |-> "save", end |-> sync[t].end, target |-> sync[t].target, batch |-> batch]
  <2>1. DOMAIN batch \subseteq Market!Dates /\ \A d \in DOMAIN batch : batch[d] \in 0..MaxAdjustments
    BY DEF Market!Fetched
  <2>2. sync' = [sync EXCEPT ![t] = j] /\ UNCHANGED <<day, adjustments, bars, syncs>>
        /\ report' = Market!Quality(batch, sync[t].end, warns)
    BY <1>2 DEF Market!Fetch, Market!SaveQuality
  <2> HIDE DEF batch
  <2>3. Fetching(j)
    BY <2>1 DEF Fetching
  <2> HIDE DEF j
  <2> QED BY <2>2, <2>3, SyncTyped, Grading
<1>3. ASSUME NEW t \in Syncers, Market!FetchRefused(t) PROVE MarketTypes'
  BY <1>3, SyncTyped DEF Market!FetchRefused, Market!Ends, Fetching
<1>4. ASSUME NEW t \in Syncers, Market!SaveBars(t) PROVE MarketTypes'
  <2>1. /\ sync[t] = [pc |-> "save", end |-> sync[t].end, target |-> sync[t].target,
                      batch |-> sync[t].batch]
        /\ DOMAIN sync[t].batch \subseteq Market!Dates
        /\ \A d \in DOMAIN sync[t].batch : sync[t].batch[d] \in 0..MaxAdjustments
    BY <1>4 DEF Market!SaveBars, Market!At, Fetching, Market!Idle
  <2>2. PICK j : j = [pc |-> "check", end |-> sync[t].end, target |-> sync[t].target,
                      batch |-> sync[t].batch]
    OBVIOUS
  <2>3. Fetching(j)
    BY <2>1, <2>2 DEF Fetching
  <2>4. sync' = [sync EXCEPT ![t] = j]
    <3>1. [sync[t] EXCEPT !.pc = "check"] = j
      BY <2>1, <2>2
    <3> QED BY <1>4, <3>1 DEF Market!SaveBars
  <2>5. DOMAIN bars' \subseteq Market!Dates /\ \A d \in DOMAIN bars' : bars'[d] \in 0..MaxAdjustments
    BY <1>4, <2>1 DEF Market!SaveBars, Market!Upserted
  <2> QED BY <1>4, <2>3, <2>4, <2>5, SyncTyped DEF Market!SaveBars
<1>5. ASSUME NEW t \in Syncers, NEW warns \in BOOLEAN, Market!ReturnMerged(t, warns)
      PROVE  MarketTypes'
  BY <1>5, SyncTyped, Grading DEF Market!ReturnMerged, Market!SaveQuality, Market!Ends, Fetching
<1>6. ASSUME NEW t \in Syncers, Market!Die(t) PROVE MarketTypes'
  BY <1>6, SyncTyped DEF Market!Die, Market!Ends, Fetching
<1>7. CASE Market!NextDay
  BY <1>7, WorkbenchAssumption DEF Market!NextDay, Market!Dates, Market!MarketAssumption
<1>8. CASE Market!Adjust
  BY <1>8, WorkbenchAssumption DEF Market!Adjust, Market!MarketAssumption
<1>9. CASE UNCHANGED Market!marketVars
  BY <1>9 DEF Market!marketVars
<1> QED BY <1>1, <1>2, <1>3, <1>4, <1>5, <1>6, <1>7, <1>8, <1>9
        DEF Market!MarketNext, Market!MarketRequests, Market!SyncSteps

LEMMA MarketTypeStart ==
  ASSUME Init
  PROVE  MarketTypes
BY WorkbenchAssumption DEF Init, Market!MarketInit, Market!MarketAssumption, MarketTypes, IsOn, Fetching,
   Market!MarketTypeOK, Market!Dates, Market!Idle

-----------------------------------------------------------------------------
(* FinancialFacts.                                                         *)

Rows == [attached : SUBSET Facts!Responses, latest : Facts!Responses \cup {0}]

\* What a request holds at each of its points.
Holding(r) ==
  /\ r.pc \in {"load", "attach", "add", "reload", "name"} => r.response \in Facts!Responses
  /\ r.pc \in {"attach", "name"} => r.run \in Rows
  /\ r.pc = "accept" => "pc" \in DOMAIN r

FactTypes ==
  /\ disclosure \in [text : Texts \cup {"none"}, reviewed : BOOLEAN]
  /\ \A c \in DOMAIN candidates : candidates[c].status \in {"pending", "accepted", "rejected"}
  /\ run \in Rows /\ served \in Facts!Responses
  /\ IsOn(request, Threads) /\ \A t \in Threads : Holding(request[t])

\* Thread t moves, and what is stored keeps its types.
LEMMA FactTyped ==
  ASSUME FactTypes, NEW t \in Threads, NEW r, Holding(r), Facts!Goto(t, r),
         disclosure' = disclosure, served' = served, run' \in Rows,
         \A c \in DOMAIN candidates' : candidates'[c].status \in {"pending", "accepted", "rejected"}
  PROVE  FactTypes'
<1>1. IsOn(request', Threads) /\ \A u \in Threads : request'[u] = r \/ request'[u] = request[u]
  BY DEF FactTypes, Facts!Goto, IsOn
<1> QED BY <1>1 DEF FactTypes

LEMMA CandidateTyped ==
  ASSUME FactTypes, NEW c, NEW r, r.status \in {"pending", "accepted", "rejected"},
         candidates' = Facts!With(candidates, c, r)
  PROVE  \A d \in DOMAIN candidates' : candidates'[d].status \in {"pending", "accepted", "rejected"}
BY DEF Facts!With, FactTypes

LEMMA DisclosuresTyped ==
  ASSUME FactTypes, NEW t \in Threads,
         \/ Facts!Preview(t)
         \/ \E c \in DOMAIN request[t].found : Facts!SaveCandidate(t, c)
         \/ \E c \in DOMAIN candidates, yes \in BOOLEAN : Facts!Decide(t, c, yes)
         \/ Facts!AddFact(t) \/ Facts!SaveDecision(t)
  PROVE  FactTypes'
<1>1. CASE Facts!Preview(t)
  BY <1>1, FactTyped DEF Facts!Preview, Holding, FactTypes
<1>2. ASSUME NEW c, Facts!SaveCandidate(t, c) PROVE FactTypes'
  <2>1. PICK place : candidates' = Facts!With(candidates, c, [status |-> "pending", place |-> place])
    BY <1>2 DEF Facts!SaveCandidate
  <2>2. PICK r : Facts!Goto(t, r) /\ r.pc \in {"idle", "save"}
    BY <1>2 DEF Facts!SaveCandidate, Facts!Idle
  <2>3. Holding(r)
    BY <2>2 DEF Holding
  <2>4. \A d \in DOMAIN candidates' : candidates'[d].status \in {"pending", "accepted", "rejected"}
    BY <2>1, CandidateTyped
  <2> QED BY <1>2, <2>2, <2>3, <2>4, FactTyped DEF Facts!SaveCandidate, FactTypes
<1>3. ASSUME NEW c, NEW yes, Facts!Decide(t, c, yes) PROVE FactTypes'
  <2>1. PICK r : Facts!Goto(t, r) /\ r.pc \in {"accept", "decided"} /\ "pc" \in DOMAIN r
    BY <1>3 DEF Facts!Decide
  <2>2. Holding(r)
    BY <2>1 DEF Holding
  <2> QED BY <1>3, <2>1, <2>2, FactTyped DEF Facts!Decide, FactTypes
<1>4. CASE Facts!AddFact(t)
  <2>1. PICK r : Facts!Goto(t, r) /\ (r = Facts!Idle \/ r = [request[t] EXCEPT !.pc = "decided"])
    BY <1>4 DEF Facts!AddFact
  <2>2. r.pc \in {"idle", "decided"}
    BY <2>1, <1>4 DEF Holding, Facts!Idle, Facts!AddFact, Facts!At, FactTypes
  <2>3. Holding(r)
    BY <2>2 DEF Holding
  <2> QED BY <1>4, <2>1, <2>3, FactTyped DEF Facts!AddFact, FactTypes
<1>5. CASE Facts!SaveDecision(t)
  <2>1. PICK r : /\ r.status \in {"pending", "accepted", "rejected"}
                 /\ candidates' = Facts!With(candidates, request[t].candidate, r)
    BY <1>5 DEF Facts!SaveDecision
  <2> QED BY <1>5, <2>1, FactTyped, CandidateTyped DEF Facts!SaveDecision, Holding, Facts!Idle, FactTypes
<1> QED BY <1>1, <1>2, <1>3, <1>4, <1>5

LEMMA ExtractionTyped ==
  ASSUME FactTypes, NEW t \in Threads,
         \/ Facts!Extract(t) \/ Facts!LoadRun(t) \/ Facts!Attach(t)
         \/ Facts!AddFacts(t) \/ Facts!Reload(t) \/ Facts!NameFacts(t)
  PROVE  FactTypes'
<1>1. CASE Facts!Extract(t)
  <2>1. \E r : Facts!Goto(t, r) /\ r.pc \in {"load", "reload"} /\ r.response = served
    <3>1. ASSUME NEW failed, Facts!Goto(t, [pc |-> "load", response |-> served, failed |-> failed])
          PROVE  \E r : Facts!Goto(t, r) /\ r.pc \in {"load", "reload"} /\ r.response = served
      BY <3>1
    <3>2. ASSUME Facts!Goto(t, [pc |-> "reload", response |-> served, failed |-> TRUE])
          PROVE  \E r : Facts!Goto(t, r) /\ r.pc \in {"load", "reload"} /\ r.response = served
      BY <3>2
    <3> QED BY <1>1, <3>1, <3>2 DEF Facts!Extract
  <2>2. PICK r : Facts!Goto(t, r) /\ r.pc \in {"load", "reload"} /\ r.response = served
    BY <2>1
  <2> QED BY <1>1, <2>2, FactTyped DEF Facts!Extract, Holding, FactTypes
<1>2. CASE Facts!LoadRun(t) \/ Facts!Reload(t)
  <2>1. PICK r : /\ Facts!Goto(t, r) /\ r.pc \in {"attach", "name"}
                 /\ r.response = request[t].response /\ r.run = run
    BY <1>2 DEF Facts!LoadRun, Facts!Reload
  <2>2. Holding(r)
    BY <1>2, <2>1 DEF Facts!LoadRun, Facts!Reload, Facts!At, Holding, FactTypes
  <2> QED BY <1>2, <2>1, <2>2, FactTyped DEF Facts!LoadRun, Facts!Reload, FactTypes
<1>3. CASE Facts!Attach(t)
  <2>1. request[t].pc = "attach" /\ Holding(request[t])
    BY <1>3 DEF Facts!Attach, Facts!At, FactTypes
  <2>2. PICK r : Facts!Goto(t, r) /\ r.pc \in {"reload", "add"} /\ r.response = request[t].response
    BY <1>3 DEF Facts!Attach, Facts!Work
  <2>3. run' \in Rows
    BY <1>3, <2>1 DEF Facts!Attach, Holding, Rows
  <2> QED BY <1>3, <2>1, <2>2, <2>3, FactTyped DEF Facts!Attach, Holding, FactTypes
<1>4. CASE Facts!AddFacts(t)
  <2>1. request[t].pc = "add" /\ Holding(request[t])
    BY <1>4 DEF Facts!AddFacts, Facts!At, FactTypes
  <2>2. PICK r : Facts!Goto(t, r) /\ r.pc = "reload" /\ r.response = request[t].response
    BY <1>4 DEF Facts!AddFacts, Facts!Work
  <2> QED BY <1>4, <2>1, <2>2, FactTyped DEF Facts!AddFacts, Holding, FactTypes
<1>5. CASE Facts!NameFacts(t)
  <2>1. request[t].pc = "name" /\ Holding(request[t])
    BY <1>5 DEF Facts!NameFacts, Facts!At, FactTypes
  <2>2. run' \in Rows
    BY <1>5, <2>1 DEF Facts!NameFacts, Holding, Rows
  <2> QED BY <1>5, <2>2, FactTyped DEF Facts!NameFacts, Facts!Idle, Holding, FactTypes
<1> QED BY <1>1, <1>2, <1>3, <1>4, <1>5

LEMMA FactsTyped ==
  ASSUME FactTypes, [Facts!FactsNext]_Facts!factVars
  PROVE  FactTypes'
<1>1. ASSUME NEW t \in Threads, Facts!Die(t) PROVE FactTypes'
  BY <1>1, FactTyped DEF Facts!Die, Facts!Idle, Holding, FactTypes
<1>2. ASSUME NEW text \in Texts, Facts!Capture(text) PROVE FactTypes'
  BY <1>2 DEF Facts!Capture, FactTypes
<1>3. CASE Facts!Review
  BY <1>3 DEF Facts!Review, FactTypes
<1>4. CASE Facts!Files
  BY <1>4 DEF Facts!Files, FactTypes
<1>5. CASE UNCHANGED Facts!factVars
  BY <1>5 DEF Facts!factVars, FactTypes
<1> QED BY <1>1, <1>2, <1>3, <1>4, <1>5, DisclosuresTyped, ExtractionTyped
        DEF Facts!FactsNext, Facts!FactRequests, Facts!RequestSteps

LEMMA FactTypeStart ==
  ASSUME Init
  PROVE  FactTypes
BY WorkbenchAssumption DEF Init, Facts!FactsInit, Facts!FactsAssumption, FactTypes, IsOn, Holding, Rows,
   Facts!Idle, Facts!NoText
-----------------------------------------------------------------------------
(* LiveStream.                                                             *)

StreamPhases == {"connecting", "connected", "authenticating", "subscribing", "open", "failed",
           "returned", "backoff", "dead", "stopped"}

\* The worker, and where a poll will send it.
Directed ==
  /\ phase \in StreamPhases /\ kept \subseteq News
  /\ poll # Stream!NoPoll => poll.then \in StreamPhases /\ poll.else \in StreamPhases

LEMMA StreamTyped ==
  ASSUME StreamInv, Directed, [Stream!StreamNext]_Stream!streamVars
  PROVE  Directed'
<1> USE DEF Directed
<1>1. ASSUME NEW from, NEW then \in StreamPhases, NEW else \in StreamPhases, Stream!Poll(from, then, else)
      PROVE  poll'.then \in StreamPhases /\ poll'.else \in StreamPhases
  BY <1>1 DEF Stream!Poll
<1>2. ASSUME NEW health, NEW then \in StreamPhases, NEW else \in StreamPhases, Stream!Report(health, then, else),
             kept' = kept
      PROVE  Directed'
  BY <1>1, <1>2 DEF Stream!Report
<1>3. ASSUME NEW i \in DOMAIN Stream!Handshake, Stream!Acknowledged(i) PROVE Directed'
  <2>1. CASE i < Len(Stream!Handshake)
    <3>1. phase' = Stream!Handshake[i + 1] /\ UNCHANGED <<poll, kept>>
      BY <1>3, <2>1 DEF Stream!Acknowledged
    <3>2. Stream!Handshake[i + 1] \in StreamPhases
      BY <2>1 DEF Stream!Handshake, StreamPhases
    <3> QED BY <3>1, <3>2
  <2>2. CASE ~(i < Len(Stream!Handshake))
    BY <1>2, <1>3, <2>2 DEF Stream!Acknowledged, StreamPhases
  <2> QED BY <2>1, <2>2
<1>4. ASSUME NEW m \in News, Stream!Message(m) PROVE Directed'
  BY <1>1, <1>4 DEF Stream!Message, StreamPhases
<1>5. CASE Stream!Malformed \/ Stream!Failed
  BY <1>2, <1>5 DEF Stream!Malformed, Stream!Failed, StreamPhases
<1>6. CASE Stream!Breaks \/ Stream!Closes \/ Stream!Returned \/ Stream!Retry \/ Stream!Stop
           \/ Stream!Restart
  BY <1>6 DEF Stream!Breaks, Stream!Closes, Stream!Returned, Stream!Retry, Stream!Stop,
     Stream!Restart, StreamPhases
<1>7. CASE Stream!Read
  <2>1. poll # Stream!NoPoll
    BY <1>7 DEF Stream!Read, Stream!NoPoll
  <2> QED BY <1>7, <2>1 DEF Stream!Read
<1>8. CASE Stream!IngestOne
  <2>1. poll.pc = "ingest" /\ poll # Stream!NoPoll /\ poll.batch # <<>>
    BY <1>8 DEF Stream!IngestOne, Stream!NoPoll
  <2>2. /\ poll = [pc |-> "ingest", then |-> poll.then, else |-> poll.else, batch |-> poll.batch,
                   next |-> poll.next]
        /\ poll.batch \in Seq(News)
    BY <2>1 DEF StreamInv, Owed, Fresh
  <2>3. poll'.then = poll.then /\ poll'.else = poll.else
    BY <1>8, <2>2 DEF Stream!IngestOne
  <2>4. kept' \subseteq News
    BY <1>8, <2>1, <2>2 DEF Stream!IngestOne
  <2> QED BY <1>8, <2>1, <2>3, <2>4 DEF Stream!IngestOne
<1>9. CASE Stream!SaveCheckpoint
  <2>1. poll # Stream!NoPoll
    BY <1>9 DEF Stream!SaveCheckpoint, Stream!NoPoll
  <2> QED BY <1>9, <2>1 DEF Stream!SaveCheckpoint
<1>10. CASE Stream!PollFails
  BY <1>10 DEF Stream!PollFails, Stream!Raise
<1>11. ASSUME NEW m \in News, Stream!Missed(m) PROVE Directed'
  BY <1>11 DEF Stream!Missed
<1>12. CASE UNCHANGED Stream!streamVars
  BY <1>12 DEF Stream!streamVars
<1> QED BY <1>3, <1>4, <1>5, <1>6, <1>7, <1>8, <1>9, <1>10, <1>11, <1>12 DEF Stream!StreamNext

LEMMA StreamTypesHold ==
  ASSUME StreamInv, Directed
  PROVE  Stream!StreamTypeOK
BY DEF StreamInv, Directed, StreamPhases, Fresh, Stream!StreamTypeOK

-----------------------------------------------------------------------------
(* CodexServer.                                                            *)

Launched ==
  /\ server \in 0..launched /\ launched \in 0..MaxLaunches /\ live \subseteq 1..launched
  /\ startLock \in Callers \cup {Codex!Nobody}
  /\ DOMAIN pending \subseteq 1..nextId
  /\ \A c \in Callers : call[c].method # "initialize"

\* A caller goes on with the method it has, or none.
LEMMA CallTyped ==
  ASSUME CodexInv, Launched, NEW c \in Callers, NEW r, call' = [call EXCEPT ![c] = r],
         r.method # "initialize"
  PROVE  \A d \in Callers : call'[d].method # "initialize"
BY DEF CodexInv, CodexTypes, Launched

LEMMA SameMethod ==
  ASSUME CodexInv, Launched, NEW c \in Callers, NEW label, Codex!Goto(c, label)
  PROVE  \A d \in Callers : call'[d].method # "initialize"
<1>1. call[c] \in Calls /\ call[c].method # "initialize"
  BY DEF CodexInv, CodexTypes, Launched
<1>2. [call[c] EXCEPT !.pc = label].method = call[c].method
  BY <1>1 DEF Calls
<1> QED BY <1>1, <1>2, CallTyped DEF Codex!Goto

LEMMA Registers ==
  ASSUME CodexInv, Launched, NEW c \in Callers, NEW label, Codex!Register(c, label),
         UNCHANGED <<server, launched, live, startLock>>
  PROVE  Launched'
<1>1. call[c] \in Calls /\ call[c].method # "initialize" /\ nextId \in Nat
  BY DEF CodexInv, CodexTypes, Launched
<1> DEFINE r == [call[c] EXCEPT !.pc = label, !.id = nextId', !.answer = Codex!NoAnswer]
<1>2. call' = [call EXCEPT ![c] = r] /\ r.method = call[c].method
  BY <1>1 DEF Codex!Register, Calls
<1>3. \A d \in Callers : call'[d].method # "initialize"
  <2> HIDE DEF r
  <2> QED BY <1>1, <1>2, CallTyped
<1>4. nextId' = nextId + 1 /\ DOMAIN pending' = DOMAIN pending \cup {nextId + 1}
  BY DEF Codex!Register
<1>5. DOMAIN pending' \subseteq 1..nextId'
  BY <1>1, <1>4 DEF Launched
<1> QED BY <1>3, <1>5 DEF Launched

LEMMA Sends ==
  ASSUME CodexInv, Launched, NEW c \in Callers, NEW label, NEW method, Codex!Sent(c, label, method)
  PROVE  \A d \in Callers : call'[d].method # "initialize"
<1>1. call[c] \in Calls /\ call[c].method # "initialize"
  BY DEF CodexInv, CodexTypes, Launched
<1> DEFINE r == [call[c] EXCEPT !.pc = label, !.asked = server]
<1>2. call' = [call EXCEPT ![c] = r] /\ r.method = call[c].method
  BY <1>1 DEF Codex!Sent, Calls
<1> HIDE DEF r
<1> QED BY <1>1, <1>2, CallTyped

LEMMA Leaves ==
  ASSUME CodexInv, Launched, NEW c \in Callers, call' = [call EXCEPT ![c] = Codex!Idle]
  PROVE  \A d \in Callers : call'[d].method # "initialize"
<1>1. Codex!Idle.method # "initialize"
  BY DEF Codex!Idle
<1> QED BY <1>1, CallTyped

LEMMA CallerTyped ==
  ASSUME CodexInv, Launched, NEW c \in Callers,
         \/ Codex!Start(c) \/ Codex!TakeLock(c) \/ Codex!Launch(c) \/ Codex!LaunchFails(c)
         \/ Codex!Hello(c) \/ Codex!SendHello(c) \/ Codex!Initialized(c)
         \/ Codex!InitializationFails(c) \/ Codex!TakeId(c) \/ Codex!SendRequest(c)
         \/ Codex!Receive(c) \/ Codex!start_chatgpt_login(c)
  PROVE  Launched'
<1>0. MaxLaunches \in Nat /\ nextId \in Nat
  BY WorkbenchAssumption DEF Codex!ServerAssumption, CodexInv, CodexTypes
<1>1. CASE Codex!Start(c)
  BY <1>1, SameMethod DEF Codex!Start, Launched
<1>2. CASE Codex!TakeLock(c)
  BY <1>2, SameMethod DEF Codex!TakeLock, Launched
<1>3. CASE Codex!Launch(c)
  BY <1>0, <1>3, SameMethod DEF Codex!Launch, Launched
<1>4. CASE Codex!LaunchFails(c) \/ Codex!InitializationFails(c)
  <2>1. /\ server' = 0 /\ live' = live \ {server} /\ launched' = launched /\ nextId' = nextId
        /\ startLock' = Codex!Nobody /\ DOMAIN pending' \subseteq DOMAIN pending
        /\ call' = [call EXCEPT ![c] = Codex!Idle]
    BY <1>4 DEF Codex!LaunchFails, Codex!InitializationFails, Codex!close, Codex!Ends, Codex!Pop
  <2>2. \A d \in Callers : call'[d].method # "initialize"
    BY <2>1, Leaves
  <2> QED BY <1>0, <2>1, <2>2 DEF Launched
<1>5. CASE Codex!Hello(c) \/ Codex!TakeId(c)
  BY <1>5, Registers DEF Codex!Hello, Codex!TakeId
<1>6. CASE Codex!SendHello(c)
  BY <1>6, Sends DEF Codex!SendHello, Launched
<1>7. CASE Codex!Initialized(c)
  BY <1>7, SameMethod DEF Codex!Initialized, Codex!Pop, Launched
<1>8. CASE Codex!SendRequest(c)
  BY <1>8, Sends, Leaves DEF Codex!SendRequest, Codex!Ends, Codex!Pop, Launched
<1>9. CASE Codex!Receive(c)
  BY <1>9, SameMethod, Leaves DEF Codex!Receive, Codex!Ends, Codex!Pop, Launched
<1>10. CASE Codex!start_chatgpt_login(c)
  BY <1>10, Leaves DEF Codex!start_chatgpt_login, Launched
<1> QED BY <1>1, <1>2, <1>3, <1>4, <1>5, <1>6, <1>7, <1>8, <1>9, <1>10

LEMMA CodexTyped ==
  ASSUME CodexInv, Launched, [Codex!ServerNext]_Codex!serverVars
  PROVE  Launched'
<1>1. ASSUME NEW c \in Callers, NEW method \in Codex!Methods, Codex!Ask(c, method)
      PROVE  Launched'
  <2> DEFINE r == [Codex!Idle EXCEPT !.pc = "start", !.method = method]
  <2>1. call' = [call EXCEPT ![c] = r] /\ r.method = method
    BY <1>1 DEF Codex!Ask, Codex!Idle
  <2> HIDE DEF r
  <2>2. \A d \in Callers : call'[d].method # "initialize"
    BY <2>1, CallTyped DEF Codex!Methods
  <2> QED BY <1>1, <2>2 DEF Codex!Ask, Launched
<1>2. ASSUME NEW p \in Codex!Processes, Codex!reader(p)
      PROVE  Launched'
  <2> DEFINE message == Head(stdout[p])
             id == message.of[2]
  <2>1. call' = call \/ (id \in DOMAIN pending /\
                         call' = [call EXCEPT ![pending[id]] = [call[pending[id]] EXCEPT !.answer = message]])
    BY <1>2 DEF Codex!reader
  <2>2. ASSUME id \in DOMAIN pending,
               call' = [call EXCEPT ![pending[id]] = [call[pending[id]] EXCEPT !.answer = message]]
        PROVE  \A d \in Callers : call'[d].method # "initialize"
    <3>1. pending[id] \in Callers
      BY <2>2 DEF CodexInv, CodexTypes
    <3>2. [call[pending[id]] EXCEPT !.answer = message].method # "initialize"
      BY <3>1 DEF CodexInv, CodexTypes, Calls, Launched
    <3> QED BY <2>2, <3>1, <3>2, CallTyped
  <2>3. \A d \in Callers : call'[d].method # "initialize"
    BY <2>1, <2>2 DEF Launched
  <2> QED BY <1>2, <2>3 DEF Codex!reader, Launched
<1>3. ASSUME NEW p, Codex!ProcessDies(p) PROVE Launched'
  BY <1>3 DEF Codex!ProcessDies, Launched
<1>4. ASSUME NEW p, NEW r, Codex!Answer(p, r) PROVE Launched'
  BY <1>4 DEF Codex!Answer, Launched
<1>5. ASSUME NEW login, Codex!CompleteLogin(login) PROVE Launched'
  BY <1>5 DEF Codex!CompleteLogin, Launched
<1>6. CASE UNCHANGED Codex!serverVars
  BY <1>6 DEF Codex!serverVars, Launched
<1> QED BY <1>1, <1>2, <1>3, <1>4, <1>5, <1>6, CallerTyped
        DEF Codex!ServerNext, Codex!ConnectionRequests

LEMMA CodexTypesHold ==
  ASSUME CodexInv, Launched
  PROVE  Codex!ServerTypeOK
BY DEF CodexInv, CodexTypes, Calls, CodexMethods, Launched, Codex!ServerTypeOK, Codex!Methods


LEMMA ChoiceTypesHold ==
  ASSUME ChoiceInv
  PROVE  Choice!ChoiceTypeOK
BY DEF ChoiceInv, ChoiceShape, ChoiceRuns, Choice!ChoiceTypeOK, Choice!None

FileTyped(d) ==
  /\ d.applied \subseteq 1..12
  /\ \A c \in d.names : c.table \in d.tables
  /\ d.ledger \in BOOLEAN /\ d.run \in BOOLEAN

StoreTyped == \A x \in Store!Paths : FileTyped(file[x])

LEMMA NoFileTyped == FileTyped(Store!NoFile)
BY DEF FileTyped, Store!NoFile

\* The database is written, with at least the tables it has.
LEMMA TypedWrite ==
  ASSUME StoreInv, StoreTyped, NEW d, Store!Write(d), FileTyped(d)
  PROVE  StoreTyped'
BY PathsApart DEF StoreInv, StoreTyped, Store!Write, IsOn

\* Fields change one by one.
LEMMA FileParts ==
  ASSUME NEW d, IsOn(d, Fields), FileTyped(d), NEW e, IsOn(e, Fields),
         d.tables \subseteq e.tables, e.applied \subseteq 1..12,
         \A c \in e.names : c \in d.names \/ c.table \in d.tables,
         e.ledger \in BOOLEAN, e.run \in BOOLEAN
  PROVE  FileTyped(e)
BY DEF FileTyped

LEMMA DatabaseTyped ==
  ASSUME StoreInv, StoreTyped
  PROVE  IsOn(file["database"], Fields) /\ FileTyped(file["database"])
BY PathsApart DEF StoreInv, StoreTyped, Sane

LEMMA TypedLedger ==
  ASSUME StoreInv, StoreTyped, NEW p \in StoreProcesses, Store!CreateLedger(p)
  PROVE  StoreTyped'
<1> DEFINE d == file["database"]
           e == [d EXCEPT !.ledger = TRUE]
<1>1. Store!Write(e) /\ IsOn(d, Fields) /\ FileTyped(d)
  BY DatabaseTyped DEF Store!CreateLedger
<1>2. /\ e.tables = d.tables /\ e.applied = d.applied /\ e.names = d.names /\ e.run = d.run
      /\ e.ledger = TRUE
  BY <1>1 DEF IsOn, Fields
<1> HIDE DEF e
<1>3. FileTyped(e)
  BY <1>1, <1>2 DEF FileTyped
<1> QED BY <1>1, <1>3, TypedWrite

LEMMA TypedMigration ==
  ASSUME StoreInv, StoreTyped, NEW p \in StoreProcesses, Store!Migrate(p)
  PROVE  StoreTyped'
<1> DEFINE d == file["database"]
           v == CHOOSE w \in process[p].todo : \A u \in process[p].todo : w <= u
           e == [d EXCEPT !.tables = d.tables \cup Store!TablesOf({v}),
                          !.applied = d.applied \cup {v}]
<1>1. /\ process[p].pc = "migrate" /\ process[p].todo # {}
      /\ UNCHANGED file \/ Store!Write(e)
  BY DEF Store!Migrate, Store!Here
<1>2. PICK a \in 0..KnownTo[p] : a < KnownTo[p] /\ v = a + 1
  BY <1>1, NextVersion
<1>3. v \in 1..12
  BY <1>2, VersionsKnown
<1>4. IsOn(d, Fields) /\ FileTyped(d)
  BY DatabaseTyped
<1> HIDE DEF v
<1>5. /\ e.tables = d.tables \cup Store!TablesOf({v}) /\ e.applied = d.applied \cup {v}
      /\ e.names = d.names /\ e.run = d.run /\ e.ledger = d.ledger
  BY <1>4 DEF IsOn, Fields
<1> HIDE DEF e
<1>6. FileTyped(e)
  BY <1>3, <1>4, <1>5 DEF FileTyped
<1> QED BY <1>1, <1>6, TypedWrite DEF StoreTyped

\* What a store does with the run.
LEMMA TypedUse ==
  ASSUME StoreInv, StoreTyped, NEW p \in StoreProcesses,
         Store!SaveRun(p) \/ Store!NameRun(p) \/ Store!DeleteEmptyRun(p)
  PROVE  StoreTyped'
<1> DEFINE d == file["database"]
<1>1. IsOn(d, Fields) /\ FileTyped(d)
  BY DatabaseTyped
<1>2. ASSUME NEW held \in BOOLEAN, Store!Write([d EXCEPT !.run = held])
      PROVE  StoreTyped'
  <2> DEFINE e == [d EXCEPT !.run = held]
  <2>1. /\ e.tables = d.tables /\ e.applied = d.applied /\ e.names = d.names /\ e.run = held
        /\ e.ledger = d.ledger
    BY <1>1 DEF IsOn, Fields
  <2>2. FileTyped(e)
    BY <1>1, <2>1 DEF FileTyped
  <2> QED BY <1>2, <2>2, TypedWrite
<1>3. ASSUME NEW c \in Store!RunColumns(d.tables), Store!Write([d EXCEPT !.names = {c}])
      PROVE  StoreTyped'
  <2> DEFINE e == [d EXCEPT !.names = {c}]
  <2>1. /\ e.tables = d.tables /\ e.applied = d.applied /\ e.names = {c} /\ e.run = d.run
        /\ e.ledger = d.ledger
    BY <1>1 DEF IsOn, Fields
  <2>2. c.table \in d.tables
    BY DEF Store!RunColumns
  <2>3. FileTyped(e)
    BY <1>1, <2>1, <2>2 DEF FileTyped
  <2> QED BY <1>3, <2>3, TypedWrite
<1>4. ASSUME NEW names, names \subseteq d.names,
             Store!Write([d EXCEPT !.run = FALSE, !.names = names])
      PROVE  StoreTyped'
  <2> DEFINE e == [d EXCEPT !.run = FALSE, !.names = names]
  <2>1. /\ e.tables = d.tables /\ e.applied = d.applied /\ e.names = names /\ e.run = FALSE
        /\ e.ledger = d.ledger
    BY <1>1 DEF IsOn, Fields
  <2>2. FileTyped(e)
    BY <1>1, <1>4, <2>1 DEF FileTyped
  <2> QED BY <1>4, <2>2, TypedWrite
<1>5. CASE Store!SaveRun(p)
  BY <1>2, <1>5 DEF Store!SaveRun
<1>6. CASE Store!NameRun(p)
  BY <1>3, <1>6 DEF Store!NameRun
<1>7. CASE Store!DeleteEmptyRun(p)
  BY <1>4, <1>7 DEF Store!DeleteEmptyRun
<1> QED BY <1>5, <1>6, <1>7

\* Files are copied and renamed as a whole.
LEMMA TypedCopies ==
  ASSUME StoreInv, StoreTyped, NEW p \in StoreProcesses,
         \/ \E flag \in BOOLEAN : Store!Backup(p, flag) \/ Store!Restore(p, flag)
         \/ Store!Rename(p) \/ Store!CopyFails(p)
  PROVE  StoreTyped'
<1>1. p \in Store!Paths /\ {"database", "backup"} \subseteq Store!Paths /\ IsOn(file, Store!Paths)
  BY PathsApart DEF StoreInv
<1>2. ASSUME NEW x \in Store!Paths, NEW y \in Store!Paths, file' = [file EXCEPT ![x] = file[y]]
      PROVE  StoreTyped'
  BY <1>1, <1>2 DEF IsOn, StoreTyped
<1>3. CASE \E flag \in BOOLEAN : Store!Backup(p, flag) \/ Store!Restore(p, flag)
  BY <1>1, <1>2, <1>3 DEF Store!Backup, Store!Restore, Store!Copy
<1>4. CASE Store!CopyFails(p)
  BY <1>1, <1>4, NoFileTyped DEF Store!CopyFails, IsOn, StoreTyped
<1>5. CASE Store!Rename(p)
  <2>1. PICK to \in {"database", "backup"} : to = process[p].to
    BY <1>5, InformedOf DEF StoreInv, Store!Rename, Store!Here
  <2>2. file' = [file EXCEPT ![to] = file[p], ![p] = Store!NoFile]
    BY <1>5, <2>1 DEF Store!Rename
  <2> QED BY <1>1, <2>1, <2>2, NoFileTyped DEF IsOn, StoreTyped
<1> QED BY <1>3, <1>4, <1>5

LEMMA StoreTypedStep ==
  ASSUME StoreInv, StoreTyped, [Store!DatabaseNext]_Store!databaseVars
  PROVE  StoreTyped'
<1>1. CASE UNCHANGED file
  BY <1>1 DEF StoreTyped
<1>2. CASE Store!DatabaseNext
  BY <1>1, <1>2, TypedLedger, TypedMigration, TypedUse, TypedCopies
     DEF Store!DatabaseNext, Store!Open, Store!ReadApplied, Store!MigrationFails, Store!FinishUpgrade,
         Store!Stop
<1> QED BY <1>1, <1>2 DEF Store!databaseVars

LEMMA LegacyKnown == Store!LEGACY_TABLES \subseteq Store!TablesOf(1..12)
<1>1. Store!LEGACY_TABLES = Store!TablesOf({1}) /\ {1} \subseteq 1..12
  BY TablesMore
<1> QED BY <1>1 DEF Store!TablesOf

LEMMA StoreTypesHold ==
  ASSUME StoreInv, StoreTyped
  PROVE  Store!DatabaseTypeOK
<1>1. ASSUME NEW x \in Store!Paths
      PROVE  file[x].tables \subseteq Store!TablesOf(1..12)
  <2>1. PICK k \in Nat : Through(file[x], k)
    BY DEF StoreInv, Sane
  <2>2. 1..k \subseteq 1..12
    BY <2>1 DEF Through, StoreTyped, FileTyped
  <2>3. Store!TablesOf(1..k) \subseteq Store!TablesOf(1..12)
    BY <2>2 DEF Store!TablesOf
  <2> QED BY <2>1, <2>3, LegacyKnown DEF Through
<1>2. \A d \in Store!Range(file) : \E x \in Store!Paths : d = file[x]
  BY DEF StoreInv, IsOn, Store!Range
<1> QED BY <1>1, <1>2, RegistryEntries DEF StoreTyped, FileTyped, Store!DatabaseTypeOK

LEMMA StoreTypeStart ==
  ASSUME Init
  PROVE  StoreTyped
<1>1. FileTyped(Store!Legacy)
  BY DEF FileTyped, Store!Legacy
<1>2. PICK d \in {Store!NoFile, Store!Legacy} :
        file = [p \in Store!Paths |-> IF p = "database" THEN d ELSE Store!NoFile]
  BY DEF Init, Store!DatabaseInit
<1> QED BY <1>1, <1>2, NoFileTyped DEF StoreTyped


Boards == [stage : Tracked!Stages \cup {"none"}, price : Prices \cup {0},
           benchmark : Prices \cup {0}]
EventRows == [value : Int, acknowledged : BOOLEAN]
MetricNames == {"price", "return_pct", "benchmark_return_pct", "alpha_pct"}

\* A request at work is about prices of a known date, and there is a baseline.
JobTyped(j, base) ==
  /\ j # Tracked!Idle => j.date \in TrackingDates /\ j.quote \in Tracked!Quotes /\ base.price # 0
  /\ j.pc = "events" => \A i \in 1..Len(j.todo) : j.todo[i].metric \in MetricNames

TrackTyped ==
  /\ candidate \in Boards /\ (candidate.price = 0 <=> candidate.benchmark = 0)
  /\ \A d \in TrackingDates : snapshots[d] \in Tracked!Quotes \cup {Tracked!NoSnapshot}
  /\ \A k \in DOMAIN triggered : triggered[k] \in EventRows
  /\ cutShort \subseteq TrackingDates
  /\ \A t \in Trackers : JobTyped(tracking[t], candidate)

LEMMA PricesPositive == Prices \subseteq Nat \ {0} /\ TrackingDates \subseteq Nat
BY WorkbenchAssumption DEF Tracked!TrackingAssumption

LEMMA MetricTyped ==
  ASSUME NEW base \in Boards, base.price # 0, base.benchmark # 0, NEW q \in Tracked!Quotes,
         NEW m \in MetricNames
  PROVE  Tracked!Metrics(base, q)[m] \in Int
<1>1. /\ base.price \in Nat \ {0} /\ base.benchmark \in Nat \ {0}
      /\ q.price \in Nat /\ q.benchmark \in Nat
  BY PricesPositive DEF Boards, Tracked!Quotes
<1>2. ASSUME NEW v \in Nat, NEW b \in Nat \ {0}
      PROVE  Tracked!ReturnPct(v, b) \in Int
  <2>1. 100 * v \in Int
    OBVIOUS
  <2>2. (100 * v) \div b \in Int
    BY <2>1
  <2> QED BY <2>2 DEF Tracked!ReturnPct
<1>3. /\ Tracked!ReturnPct(q.price, base.price) \in Int
      /\ Tracked!ReturnPct(q.benchmark, base.benchmark) \in Int
  BY <1>1, <1>2
<1>4. CASE m = "price"
  BY <1>1, <1>4 DEF Tracked!Metrics
<1>5. CASE m = "return_pct"
  BY <1>3, <1>5 DEF Tracked!Metrics
<1>6. CASE m = "benchmark_return_pct"
  BY <1>3, <1>6 DEF Tracked!Metrics
<1>7. CASE m = "alpha_pct"
  <2>1. Tracked!ReturnPct(q.price, base.price) - Tracked!ReturnPct(q.benchmark, base.benchmark) \in Int
    BY <1>3
  <2> QED BY <1>7, <2>1 DEF Tracked!Metrics
<1> QED BY <1>4, <1>5, <1>6, <1>7 DEF MetricNames

\* A set of dates that is finite and not empty has a last one.
LEMMA LastOf ==
  ASSUME NEW S, S \subseteq Nat, IsFiniteSet(S), S # {}
  PROVE  \E d \in S : \A e \in S : e <= d
<1> DEFINE Has(n) == \A T \in SUBSET S : IsFiniteSet(T) /\ Cardinality(T) = n /\ T # {}
                       => \E d \in T : \A e \in T : e <= d
           Bad == {n \in Nat : ~Has(n)}
<1>1. SUFFICES ASSUME Bad # {} PROVE FALSE
  <2>1. Cardinality(S) \in Nat
    BY FS_CardinalityType
  <2>2. Has(Cardinality(S)) => \E d \in S : \A e \in S : e <= d
    OBVIOUS
  <2> QED BY <2>1, <2>2
<1>2. PICK n \in Bad : \A m \in Bad : n <= m
  <2>1. Bad \subseteq Nat
    OBVIOUS
  <2> HIDE DEF Bad
  <2> QED BY <1>1, <2>1, Least
<1>3. n \in Nat /\ ~Has(n)
  BY <1>2
<1>4. PICK T \in SUBSET S : /\ IsFiniteSet(T) /\ Cardinality(T) = n /\ T # {}
                            /\ ~ \E d \in T : \A e \in T : e <= d
  BY <1>3
<1>5. PICK x \in T : TRUE
  BY <1>4
<1>6. IsFiniteSet(T \ {x}) /\ Cardinality(T \ {x}) = n - 1
  BY <1>4, <1>5, FS_RemoveElement
<1>7. T \ {x} # {}
  BY <1>4, <1>5
<1>8. n - 1 \in Nat
  BY <1>6, FS_CardinalityType
<1>9. Has(n - 1)
  <2>1. n - 1 \notin Bad
    BY <1>2, <1>3, <1>8
  <2> QED BY <1>8, <2>1
<1>10. PICK d \in T \ {x} : \A e \in T \ {x} : e <= d
  BY <1>6, <1>7, <1>9
<1>11. d \in Nat /\ x \in Nat /\ T \subseteq Nat
  BY <1>4
<1>12. CASE x <= d
  BY <1>4, <1>10, <1>12
<1>13. CASE d < x
  <2>1. \A e \in T : e <= x
    BY <1>10, <1>11, <1>13
  <2> QED BY <1>4, <1>5, <2>1
<1> QED BY <1>11, <1>12, <1>13

LEMMA FeedPrices ==
  ASSUME NEW f \in Feeds, Tracked!Common(f) # {}
  PROVE  LET d == Tracked!LastCommon(f) IN
         /\ d \in TrackingDates
         /\ [price |-> f.primary[d], benchmark |-> f.benchmark[d]] \in Tracked!Quotes
<1> DEFINE S == Tracked!Common(f)
           d == Tracked!LastCommon(f)
<1>1. \A prices \in {f.primary, f.benchmark} :
        /\ Tracked!IsFiniteSet(DOMAIN prices) /\ DOMAIN prices \subseteq TrackingDates
        /\ \A e \in DOMAIN prices : prices[e] \in Prices
  BY WorkbenchAssumption DEF Tracked!TrackingAssumption
<1>2. IsFiniteSet(DOMAIN f.primary)
  BY <1>1 DEF Tracked!IsFiniteSet, IsFiniteSet
<1>3. IsFiniteSet(S)
  BY <1>2, FS_Subset DEF Tracked!Common
<1>4. S \subseteq Nat
  BY <1>1, PricesPositive DEF Tracked!Common
<1>5. \E e \in S : \A x \in S : x <= e
  <2> HIDE DEF S
  <2> QED BY <1>3, <1>4, LastOf DEF S
<1>6. d \in S
  BY <1>5 DEF Tracked!LastCommon
<1> QED BY <1>1, <1>6 DEF Tracked!Common, Tracked!Quotes

\* The baseline, once there, stays.
Priced == candidate.price # 0 => candidate'.price = candidate.price

LEMMA JobStays ==
  ASSUME NEW j, NEW b, NEW c, JobTyped(j, b), b.price # 0 => c.price = b.price
  PROVE  JobTyped(j, c)
BY DEF JobTyped

\* The jobs are typed after a step of request t.
LEMMA JobsTyped ==
  ASSUME TrackInv, TrackTyped, Priced, NEW t \in Trackers, NEW j,
         tracking' = [tracking EXCEPT ![t] = j], JobTyped(j, candidate')
  PROVE  \A u \in Trackers : JobTyped(tracking'[u], candidate')
<1>1. tracking'[t] = j /\ \A u \in Trackers \ {t} : tracking'[u] = tracking[u]
  BY DEF TrackInv, IsOn
<1>2. \A u \in Trackers \ {t} : JobTyped(tracking[u], candidate')
  BY JobStays DEF TrackTyped, Priced
<1> QED BY <1>1, <1>2

LEMMA IdleTyped == \A base : JobTyped(Tracked!Idle, base)
BY DEF JobTyped, Tracked!Idle

LEMMA SnapshotTyped ==
  ASSUME NEW base, base.price # 0, NEW d \in TrackingDates, NEW q \in Tracked!Quotes
  PROVE  JobTyped([pc |-> "snapshot", date |-> d, quote |-> q], base)
BY DEF JobTyped

\* A request begins.
LEMMA BeginTyped ==
  ASSUME TrackInv, TrackTyped, Priced, UNCHANGED <<snapshots, cutShort, triggered>>,
         candidate' \in Boards, candidate'.price = 0 <=> candidate'.benchmark = 0,
         NEW t \in Trackers,
         \/ UNCHANGED tracking
         \/ Tracked!Done(t)
         \/ /\ candidate'.price # 0
            /\ \E d \in TrackingDates, q \in Tracked!Quotes : Tracked!Snapshot(t, d, q)
  PROVE  TrackTyped'
<1>1. \A u \in Trackers : JobTyped(tracking'[u], candidate')
  <2>1. CASE UNCHANGED tracking
    BY <2>1, JobStays DEF TrackTyped, Priced
  <2>2. CASE Tracked!Done(t)
    BY <2>2, IdleTyped, JobsTyped DEF Tracked!Done
  <2>3. ASSUME candidate'.price # 0, NEW d \in TrackingDates, NEW q \in Tracked!Quotes,
               Tracked!Snapshot(t, d, q)
        PROVE  \A u \in Trackers : JobTyped(tracking'[u], candidate')
    <3> DEFINE j == [pc |-> "snapshot", date |-> d, quote |-> q]
    <3>1. tracking' = [tracking EXCEPT ![t] = j] /\ JobTyped(j, candidate')
      BY <2>3, SnapshotTyped DEF Tracked!Snapshot
    <3> HIDE DEF j
    <3> QED BY <3>1, JobsTyped
  <2> QED BY <2>1, <2>2, <2>3
<1> QED BY <1>1 DEF TrackTyped

\* A candidate is put on the board, unless it is there.
LEMMA PutOnBoard ==
  ASSUME TrackTyped, NEW price \in Prices \cup {0}, NEW benchmark \in Prices \cup {0},
         price = 0 <=> benchmark = 0,
         candidate' = IF candidate = Tracked!NoCandidate
                      THEN [stage |-> "watch", price |-> price, benchmark |-> benchmark]
                      ELSE candidate
  PROVE  /\ Priced /\ candidate' \in Boards /\ (candidate'.price = 0 <=> candidate'.benchmark = 0)
<1>1. CASE candidate = Tracked!NoCandidate
  BY <1>1 DEF Priced, Boards, Tracked!Stages, Tracked!NoCandidate
<1>2. CASE candidate # Tracked!NoCandidate
  BY <1>2 DEF Priced, TrackTyped
<1> QED BY <1>1, <1>2

LEMMA RequestsTyped ==
  ASSUME TrackInv, TrackTyped, Tracked!TrackingRequests
  PROVE  TrackTyped'
<1>1. ASSUME NEW t \in Trackers, NEW d \in TrackingDates, NEW q \in Tracked!Quotes,
             Tracked!TrackWithPrices(t, d, q)
      PROVE  TrackTyped'
  <2>1. q.price \in Prices /\ q.benchmark \in Prices /\ q.price # 0 /\ q.benchmark # 0
    BY PricesPositive DEF Tracked!Quotes
  <2>2. /\ Priced /\ candidate' \in Boards /\ (candidate'.price = 0 <=> candidate'.benchmark = 0)
    BY <1>1, <2>1, PutOnBoard DEF Tracked!TrackWithPrices, Tracked!AddCandidate
  <2>3. /\ UNCHANGED <<snapshots, cutShort, triggered>>
        /\ IF candidate'.price = 0 THEN Tracked!Done(t) ELSE Tracked!Snapshot(t, d, q)
    BY <1>1 DEF Tracked!TrackWithPrices
  <2> QED BY <2>2, <2>3, BeginTyped
<1>2. ASSUME NEW t \in Trackers, Tracked!TrackWithout(t)
      PROVE  TrackTyped'
  <2>1. /\ Priced /\ candidate' \in Boards /\ (candidate'.price = 0 <=> candidate'.benchmark = 0)
    BY <1>2, PutOnBoard DEF Tracked!TrackWithout, Tracked!AddCandidate
  <2> QED BY <1>2, <2>1, BeginTyped DEF Tracked!TrackWithout
<1>3. ASSUME NEW t \in Trackers, NEW d \in TrackingDates, NEW q \in Tracked!Quotes,
             candidate.price # 0, UNCHANGED <<candidate, snapshots, cutShort, triggered>>,
             Tracked!Snapshot(t, d, q)
      PROVE  TrackTyped'
  <2>1. Priced /\ candidate' \in Boards /\ (candidate'.price = 0 <=> candidate'.benchmark = 0)
    BY <1>3 DEF Priced, TrackTyped
  <2> QED BY <1>3, <2>1, BeginTyped
<1>4. ASSUME NEW t \in Trackers, NEW d \in TrackingDates, NEW q \in Tracked!Quotes,
             Tracked!AddSnapshot(t, d, q)
      PROVE  TrackTyped'
  BY <1>3, <1>4 DEF Tracked!AddSnapshot
<1>5. ASSUME NEW t \in Trackers, NEW f \in Feeds, Tracked!CaptureLive(t, f)
      PROVE  TrackTyped'
  BY <1>3, <1>5, FeedPrices DEF Tracked!CaptureLive
<1>6. ASSUME NEW s \in Tracked!Stages, Tracked!UpdateStage(s)
      PROVE  TrackTyped'
  <2>1. /\ candidate' = [candidate EXCEPT !.stage = s]
        /\ UNCHANGED <<snapshots, cutShort, triggered, tracking>>
    BY <1>6 DEF Tracked!UpdateStage
  <2>2. /\ candidate' \in Boards
        /\ candidate'.price = candidate.price /\ candidate'.benchmark = candidate.benchmark
    BY <2>1 DEF TrackTyped, Boards
  <2>3. \A u \in Trackers : JobTyped(tracking'[u], candidate')
    BY <2>1, <2>2, JobStays DEF TrackTyped
  <2> QED BY <2>1, <2>2, <2>3 DEF TrackTyped
<1>7. ASSUME NEW k \in DOMAIN triggered, Tracked!AcknowledgeEvent(k)
      PROVE  TrackTyped'
  <2>1. /\ triggered' = [triggered EXCEPT ![k].acknowledged = TRUE]
        /\ UNCHANGED <<candidate, snapshots, cutShort, tracking>>
    BY <1>7 DEF Tracked!AcknowledgeEvent
  <2>2. \A i \in DOMAIN triggered' : triggered'[i] \in EventRows
    BY <2>1 DEF TrackTyped, EventRows
  <2> QED BY <2>1, <2>2 DEF TrackTyped
<1> QED BY <1>1, <1>2, <1>4, <1>5, <1>6, <1>7 DEF Tracked!TrackingRequests

LEMMA SaveSnapshotTyped ==
  ASSUME TrackInv, TrackTyped, NEW t \in Trackers, Tracked!SaveSnapshot(t)
  PROVE  TrackTyped'
<1> DEFINE q == tracking[t].quote
           d == tracking[t].date
           holding == {g \in Triggers : Tracked!Holds(g, Tracked!Metrics(candidate, q))}
           s == Tracked!SetToSeq(holding)
           j == [pc |-> "events", date |-> d, quote |-> q, todo |-> s]
<1>1. /\ tracking[t].pc = "snapshot" /\ snapshots' = [snapshots EXCEPT ![d] = q]
      /\ cutShort' = cutShort \ {d} /\ tracking' = [tracking EXCEPT ![t] = j]
      /\ UNCHANGED <<candidate, triggered>>
  BY DEF Tracked!SaveSnapshot, Tracked!At
<1>2. d \in TrackingDates /\ q \in Tracked!Quotes /\ candidate.price # 0
  BY <1>1 DEF TrackTyped, JobTyped, Tracked!Idle
<1>3. \A g \in holding : g.metric \in MetricNames
  BY DEF Tracked!Holds, Tracked!Metrics, MetricNames
<1>4. s \in Seq(holding)
  <2>1. Tracked!IsFiniteSet(Triggers)
    BY WorkbenchAssumption DEF Tracked!TrackingAssumption
  <2>2. IsFiniteSet(holding)
    BY <2>1, FS_Subset DEF Tracked!IsFiniteSet, IsFiniteSet
  <2> QED BY <2>2, SequenceOfSet
<1>5. \A i \in 1..Len(s) : s[i].metric \in MetricNames
  <2> HIDE DEF s, holding
  <2> QED BY <1>3, <1>4
<1>6. JobTyped(j, candidate)
  <2> HIDE DEF s, d, q
  <2> QED BY <1>2, <1>5 DEF JobTyped
<1>7. Priced /\ candidate' = candidate
  BY <1>1 DEF Priced
<1> HIDE DEF j
<1>8. \A u \in Trackers : JobTyped(tracking'[u], candidate')
  BY <1>1, <1>6, <1>7, JobsTyped
<1>9. \A e \in TrackingDates : snapshots'[e] \in Tracked!Quotes \cup {Tracked!NoSnapshot}
  BY <1>1, <1>2 DEF TrackInv, IsOn, TrackTyped
<1> QED BY <1>1, <1>8, <1>9 DEF TrackTyped

LEMMA SaveEventTyped ==
  ASSUME TrackInv, TrackTyped, NEW t \in Trackers, Tracked!SaveEvent(t)
  PROVE  TrackTyped'
<1> DEFINE k == tracking[t]
           g == Head(k.todo)
           row1 == [value |-> Tracked!Metrics(candidate, k.quote)[g.metric], acknowledged |-> FALSE]
           j == [k EXCEPT !.todo = Tail(k.todo)]
<1>1. /\ k.pc = "events" /\ k.todo # <<>> /\ UNCHANGED <<candidate, snapshots, cutShort>>
      /\ triggered' = Tracked!InsertEvent(Tracked!EventKey(g, k.date), row1)
      /\ tracking' = [tracking EXCEPT ![t].todo = Tail(k.todo)]
  BY DEF Tracked!SaveEvent, Tracked!At
<1>2. /\ k = [pc |-> "events", date |-> k.date, quote |-> k.quote, todo |-> k.todo]
      /\ k.todo \in Seq(Triggers)
      /\ j = [pc |-> "events", date |-> k.date, quote |-> k.quote, todo |-> Tail(k.todo)]
  BY <1>1, EventsShape DEF TrackInv
<1>3. /\ k.date \in TrackingDates /\ k.quote \in Tracked!Quotes /\ candidate.price # 0
      /\ \A i \in 1..Len(k.todo) : k.todo[i].metric \in MetricNames
  BY <1>1 DEF TrackTyped, JobTyped, Tracked!Idle
<1>4. tracking' = [tracking EXCEPT ![t] = j]
  BY <1>1 DEF TrackInv, IsOn
<1>5. g.metric \in MetricNames
  <2> DEFINE s == k.todo
  <2>1. s \in Seq(Triggers) /\ s # <<>> /\ \A i \in 1..Len(s) : s[i].metric \in MetricNames
    BY <1>1, <1>2, <1>3
  <2> HIDE DEF s
  <2>2. Head(s).metric \in MetricNames
    BY <2>1
  <2> QED BY <2>2 DEF s
<1>6. \A i \in 1..Len(Tail(k.todo)) : Tail(k.todo)[i].metric \in MetricNames
  <2> DEFINE s == k.todo
  <2>1. s \in Seq(Triggers) /\ s # <<>> /\ \A i \in 1..Len(s) : s[i].metric \in MetricNames
    BY <1>1, <1>2, <1>3
  <2> HIDE DEF s
  <2>2. \A i \in 1..Len(Tail(s)) : i + 1 \in 1..Len(s) /\ Tail(s)[i] = s[i + 1]
    BY <2>1
  <2>3. \A i \in 1..Len(Tail(s)) : Tail(s)[i].metric \in MetricNames
    BY <2>1, <2>2
  <2> QED BY <2>3 DEF s
<1>7. JobTyped(j, candidate)
  BY <1>2, <1>3, <1>6 DEF JobTyped
<1>8. Priced
  BY <1>1 DEF Priced
<1>9. row1 \in EventRows
  BY <1>3, <1>5, MetricTyped DEF TrackTyped, EventRows
<1>10. \A i \in DOMAIN triggered' : triggered'[i] \in EventRows
  <2> HIDE DEF row1
  <2> QED BY <1>1, <1>9 DEF Tracked!InsertEvent, TrackTyped
<1> HIDE DEF j
<1>11. \A u \in Trackers : JobTyped(tracking'[u], candidate')
  BY <1>1, <1>4, <1>7, <1>8, JobsTyped
<1> QED BY <1>1, <1>10, <1>11 DEF TrackTyped

LEMMA LeaveTyped ==
  ASSUME TrackInv, TrackTyped, NEW t \in Trackers, Tracked!Answer(t) \/ Tracked!Die(t)
  PROVE  TrackTyped'
<1>1. /\ Tracked!Done(t) /\ UNCHANGED <<candidate, snapshots, triggered>>
      /\ \/ UNCHANGED cutShort
         \/ tracking[t].pc = "events" /\ cutShort' = cutShort \cup {tracking[t].date}
  BY DEF Tracked!Answer, Tracked!Die, Tracked!At
<1>2. tracking[t].pc = "events" => tracking[t].date \in TrackingDates
  BY DEF TrackTyped, JobTyped, Tracked!Idle
<1>3. Priced
  BY <1>1 DEF Priced
<1>4. \A u \in Trackers : JobTyped(tracking'[u], candidate')
  BY <1>1, <1>3, IdleTyped, JobsTyped DEF Tracked!Done
<1> QED BY <1>1, <1>2, <1>4 DEF TrackTyped

LEMMA TrackTypedStep ==
  ASSUME TrackInv, TrackTyped, [Tracked!TrackingNext]_Tracked!trackingVars
  PROVE  TrackTyped'
<1>1. CASE UNCHANGED Tracked!trackingVars
  BY <1>1 DEF Tracked!trackingVars, TrackTyped
<1> QED BY <1>1, RequestsTyped, SaveSnapshotTyped, SaveEventTyped, LeaveTyped DEF Tracked!TrackingNext

LEMMA TrackTypesHold ==
  ASSUME TrackInv, TrackTyped
  PROVE  Tracked!TrackingTypeOK
<1>1. snapshots \in [TrackingDates -> Tracked!Quotes \cup {Tracked!NoSnapshot}]
  BY DEF TrackInv, IsOn, TrackTyped
<1> QED BY <1>1 DEF TrackTyped, Boards, EventRows, Tracked!TrackingTypeOK

LEMMA TrackTypeStart ==
  ASSUME Init
  PROVE  TrackTyped
BY IdleTyped DEF Init, Tracked!TrackingInit, Tracked!NoCandidate, TrackTyped, Boards


MonitorRowsTyped ==
  /\ jobs \in [Monitor!Jobs -> Monitor!JobRows]
  /\ assessments \in Seq(Monitor!Assessments)
  /\ \A a, b \in DOMAIN assessments : assessments[a] = assessments[b] => a = b
  /\ events \subseteq DOMAIN assessments /\ acked \subseteq events
  /\ proposals \subseteq Monitor!Proposals
  /\ attempts \in 0..MaxJobAttempts /\ decisions \in 0..MaxDecisions

HandsTyped == worker \in [Hands -> Monitor!PCs] /\ job \in [Hands -> Monitor!Locals]

LEMMA HandMoves ==
  ASSUME HandsTyped, NEW t \in Hands, NEW label \in Monitor!PCs, NEW m \in Monitor!Locals,
         Monitor!Goto(t, label, m)
  PROVE  HandsTyped'
BY DEF HandsTyped, Monitor!Goto

LEMMA BlankTyped == Monitor!Blank \in Monitor!Locals /\ Monitor!NoProposal \in Monitor!Proposals
<1>1. /\ (CHOOSE m \in Markets : TRUE) \in Markets
      /\ (CHOOSE d \in MarketDays : TRUE) \in MarketDays
      /\ (CHOOSE d \in Data : TRUE) \in Data
  BY WorkbenchAssumption DEF Monitor!DaysAssumption, Monitor!GradesAssumption
<1>2. Monitor!Nowhere \in Monitor!Assessments
  BY <1>1 DEF Monitor!Nowhere, Monitor!Assessments, Monitor!States
<1>3. <<Monitor!Nowhere.market, Monitor!Nowhere.day>> \in Monitor!Jobs
  BY <1>2 DEF Monitor!Assessments, Monitor!Jobs
<1>4. Monitor!NoProposal \in Monitor!Proposals
  BY DEF Monitor!NoProposal, Monitor!Proposals, Monitor!Human
<1> QED BY <1>2, <1>3, <1>4 DEF Monitor!Blank, Monitor!Locals

LEMMA LeaveTypes ==
  ASSUME HandsTyped, NEW t \in Hands, Monitor!Leave(t)
  PROVE  HandsTyped'
BY BlankTyped, HandMoves DEF Monitor!Leave, Monitor!PCs

LEMMA HandTyped ==
  ASSUME HandsTyped, NEW t \in Hands
  PROVE  worker[t] \in Monitor!PCs /\ job[t] \in Monitor!Locals
BY DEF HandsTyped

LEMMA AssessmentTyped ==
  ASSUME MonitorRowsTyped, NEW a \in DOMAIN assessments
  PROVE  assessments[a] \in Monitor!Assessments
<1> DEFINE X == Monitor!Assessments
<1>1. assessments \in Seq(X)
  BY DEF MonitorRowsTyped
<1> HIDE DEF X
<1>2. assessments[a] \in X
  BY <1>1
<1> QED BY <1>2 DEF X

\* Of some assessments, the one made last of the latest day.
LEMMA LatestOf ==
  ASSUME MonitorRowsTyped, NEW rs, rs \subseteq DOMAIN assessments
  PROVE  /\ rs = {} => Monitor!Latest(rs) = 0
         /\ rs # {} => Monitor!Latest(rs) \in rs
<1>1. rs = {} => Monitor!Latest(rs) = 0
  BY DEF Monitor!Latest
<1>2. ASSUME rs # {}
      PROVE  Monitor!Latest(rs) \in rs
  <2> DEFINE n == Len(assessments)
             Day(a) == assessments[a].day
             dates == {Day(a) : a \in rs}
  <2>1. n \in Nat /\ DOMAIN assessments = 1..n
    BY DEF MonitorRowsTyped
  <2>2. \A a \in rs : a \in Nat /\ Day(a) \in Nat
    <3>1. \A a \in rs : a \in 1..n /\ assessments[a] \in Monitor!Assessments
      BY <2>1, AssessmentTyped
    <3>2. MarketDays \subseteq Nat
      BY WorkbenchAssumption DEF Monitor!DaysAssumption
    <3>3. \A a \in rs : Day(a) \in Nat
      BY <3>1, <3>2 DEF Monitor!Assessments
    <3> HIDE DEF n, Day
    <3>4. \A a \in rs : a \in Nat
      BY <2>1, <3>1
    <3> QED BY <3>3, <3>4
  <2>3. IsFiniteSet(rs)
    <3>1. IsFiniteSet(1..n) /\ rs \subseteq 1..n
      BY <2>1, FS_Interval
    <3> QED BY <3>1, FS_Subset
  <2>4. IsFiniteSet(dates)
    <3> DEFINE f == [a \in rs |-> Day(a)]
    <3>1. f \in Surjection(rs, dates)
      BY DEF Surjection
    <3> HIDE DEF f, dates
    <3> QED BY <2>3, <3>1, FS_Surjection
  <2>5. PICK d \in dates : \A e \in dates : e <= d
    <3>1. dates # {} /\ dates \subseteq Nat
      BY <1>2, <2>2
    <3> HIDE DEF dates
    <3> QED BY <2>4, <3>1, LastOf
  <2> DEFINE last == {a \in rs : Day(a) = d}
  <2>6. PICK a \in last : \A b \in last : b <= a
    <3>1. last # {} /\ last \subseteq Nat /\ last \subseteq rs
      BY <2>2, <2>5
    <3>2. IsFiniteSet(last)
      BY <2>3, <3>1, FS_Subset
    <3> HIDE DEF last
    <3> QED BY <3>1, <3>2, LastOf
  <2>7. \A b \in rs : \/ assessments[b].day < assessments[a].day
                      \/ assessments[b].day = assessments[a].day /\ b <= a
    <3> SUFFICES ASSUME NEW b \in rs
                 PROVE  \/ Day(b) < Day(a)
                        \/ Day(b) = Day(a) /\ b <= a
      OBVIOUS
    <3>1. Day(b) <= d /\ Day(a) = d /\ Day(b) \in Nat /\ d \in Nat
      BY <2>2, <2>5, <2>6
    <3>2. Day(b) = d => b <= a
      BY <2>6
    <3> QED BY <3>1, <3>2
  <2>8. a \in rs
    BY <2>6
  <2> QED BY <1>2, <2>7, <2>8 DEF Monitor!Latest
<1> QED BY <1>1, <1>2

LEMMA PreviousTyped ==
  ASSUME MonitorRowsTyped, NEW d
  PROVE  Monitor!Previous(d) \in Monitor!States \cup {"none"}
<1> DEFINE rs == Monitor!Before(d)
           a == Monitor!Latest(rs)
<1>1. rs \subseteq DOMAIN assessments
  BY DEF Monitor!Before
<1>2. rs = {} => a = 0
  BY <1>1, LatestOf
<1>3. rs # {} => a \in DOMAIN assessments
  BY <1>1, LatestOf
<1>4. a \in DOMAIN assessments => assessments[a].state \in Monitor!States
  BY AssessmentTyped DEF Monitor!Assessments
<1> QED BY <1>2, <1>3, <1>4 DEF Monitor!Previous

LEMMA NextStateTyped ==
  ASSUME NEW grade, NEW previous
  PROVE  Monitor!NextState(grade, previous) \in Monitor!States
BY DEF Monitor!NextState, Monitor!States

\* A step that moves hand t and leaves the rows alone.
LEMMA TypedRun ==
  ASSUME MonitorRowsTyped, HandsTyped, NEW t \in Hands, NEW j \in Monitor!Jobs, Monitor!Run(t, j)
  PROVE  MonitorRowsTyped' /\ HandsTyped'
<1>1. [Monitor!Blank EXCEPT !.job = j] \in Monitor!Locals
  BY BlankTyped DEF Monitor!Locals
<1>2. HandsTyped'
  BY <1>1, HandMoves DEF Monitor!Run, Monitor!PCs
<1>3. attempts' \in 0..MaxJobAttempts
  BY WorkbenchAssumption DEF MonitorRowsTyped, Monitor!Run, Monitor!MonitorBounds
<1> QED BY <1>2, <1>3 DEF MonitorRowsTyped, Monitor!Run, Monitor!tables

LEMMA TypedSaveJob ==
  ASSUME MonitorRowsTyped, HandsTyped, NEW t \in Hands,
         NEW status \in {"running", "failed"} \cup Monitor!Done, Monitor!SaveJob(t, status),
         UNCHANGED <<assessments, events, acked, proposals, attempts, decisions>>
  PROVE  MonitorRowsTyped'
<1>1. job[t].assessment \in Nat /\ job[t].job \in Monitor!Jobs
  BY HandTyped DEF Monitor!Locals
<1>2. [status |-> status, assessment |-> job[t].assessment] \in Monitor!JobRows
  BY <1>1 DEF Monitor!JobRows
<1>3. jobs' \in [Monitor!Jobs -> Monitor!JobRows]
  BY <1>1, <1>2 DEF Monitor!SaveJob, MonitorRowsTyped
<1> QED BY <1>3 DEF MonitorRowsTyped

LEMMA TypedRunning ==
  ASSUME MonitorRowsTyped, HandsTyped, NEW t \in Hands, Monitor!SaveRunning(t)
  PROVE  MonitorRowsTyped' /\ HandsTyped'
<1>1. MonitorRowsTyped'
  BY TypedSaveJob DEF Monitor!SaveRunning
<1>2. ASSUME NEW d \in Data
      PROVE  [job[t] EXCEPT !.new.data = d] \in Monitor!Locals
  <2>1. job[t].new \in Monitor!Assessments /\ job[t] \in Monitor!Locals
    BY HandTyped DEF Monitor!Locals
  <2>2. [job[t].new EXCEPT !.data = d] \in Monitor!Assessments
    BY <2>1 DEF Monitor!Assessments
  <2>3. [job[t] EXCEPT !.new.data = d] = [job[t] EXCEPT !.new = [job[t].new EXCEPT !.data = d]]
    BY <2>1
  <2> QED BY <2>1, <2>2, <2>3 DEF Monitor!Locals
<1>3. HandsTyped'
  BY <1>2, HandTyped, HandMoves DEF Monitor!SaveRunning, Monitor!PCs
<1> QED BY <1>1, <1>3

LEMMA TypedAssess ==
  ASSUME MonitorRowsTyped, HandsTyped, NEW t \in Hands, Monitor!Assess(t)
  PROVE  MonitorRowsTyped' /\ HandsTyped'
<1> DEFINE m == job[t]
           previous == Monitor!Previous(Monitor!DayOf(m.job))
           n == [market |-> Monitor!MarketOf(m.job), day |-> Monitor!DayOf(m.job), data |-> m.new.data,
                 previous |-> previous, state |-> Monitor!NextState(GradeOf[m.new.data], previous)]
<1>1. Monitor!Goto(t, "save_assessment", [m EXCEPT !.new = n])
      /\ UNCHANGED <<jobs, assessments, events, acked, proposals, attempts, decisions>>
  BY DEF Monitor!Assess, Monitor!tables
<1>2. m \in Monitor!Locals /\ m.job \in Monitor!Jobs /\ m.new.data \in Data
  BY HandTyped DEF Monitor!Locals, Monitor!Assessments
<1>3. previous \in Monitor!States \cup {"none"}
  BY PreviousTyped
<1>4. Monitor!NextState(GradeOf[m.new.data], previous) \in Monitor!States
  BY NextStateTyped
<1>5. n \in Monitor!Assessments
  <2> HIDE DEF previous
  <2> QED BY <1>2, <1>3, <1>4
          DEF Monitor!Assessments, Monitor!Jobs, Monitor!MarketOf, Monitor!DayOf
<1> HIDE DEF n
<1>6. [m EXCEPT !.new = n] \in Monitor!Locals
  BY <1>2, <1>5 DEF Monitor!Locals
<1>7. HandsTyped'
  BY <1>1, <1>6, HandMoves DEF Monitor!PCs
<1> QED BY <1>1, <1>7 DEF MonitorRowsTyped

LEMMA TypedSaveAssessment ==
  ASSUME MonitorRowsTyped, HandsTyped, NEW t \in Hands, Monitor!SaveAssessment(t)
  PROVE  MonitorRowsTyped' /\ HandsTyped'
<1> DEFINE X == Monitor!Assessments
           n == job[t].new
<1>1. n \in X /\ job[t] \in Monitor!Locals /\ assessments \in Seq(X)
  BY HandTyped DEF Monitor!Locals, MonitorRowsTyped
<1>2. /\ \/ UNCHANGED assessments
         \/ /\ \A a \in DOMAIN assessments : assessments[a] # n
            /\ assessments' = Append(assessments, n)
      /\ \E a \in DOMAIN assessments' :
           Monitor!Goto(t, "transition", [job[t] EXCEPT !.assessment = a])
      /\ UNCHANGED <<jobs, events, acked, proposals, attempts, decisions>>
  BY DEF Monitor!SaveAssessment
<1>3. \A a, b \in DOMAIN assessments : assessments[a] = assessments[b] => a = b
  BY DEF MonitorRowsTyped
<1> HIDE DEF X, n
<1>4. /\ assessments' \in Seq(X) /\ DOMAIN assessments \subseteq DOMAIN assessments'
      /\ \A a, b \in DOMAIN assessments' : assessments'[a] = assessments'[b] => a = b
  <2>1. CASE UNCHANGED assessments
    BY <1>1, <1>3, <2>1
  <2>2. CASE /\ \A a \in DOMAIN assessments : assessments[a] # n
             /\ assessments' = Append(assessments, n)
    BY <1>1, <1>3, <2>2
  <2> QED BY <1>2, <2>1, <2>2
<1>5. PICK a \in DOMAIN assessments' :
        Monitor!Goto(t, "transition", [job[t] EXCEPT !.assessment = a])
  BY <1>2
<1>6. a \in Nat
  BY <1>4
<1>7. [job[t] EXCEPT !.assessment = a] \in Monitor!Locals
  BY <1>1, <1>6 DEF Monitor!Locals
<1>8. HandsTyped'
  BY <1>5, <1>7, HandMoves DEF Monitor!PCs
<1>9. MonitorRowsTyped'
  BY <1>2, <1>4 DEF MonitorRowsTyped, X
<1> QED BY <1>8, <1>9

LEMMA TypedTransition ==
  ASSUME MonitorInv, MonitorRowsTyped, HandsTyped, NEW t \in Hands, Monitor!RecordTransition(t)
  PROVE  MonitorRowsTyped' /\ HandsTyped'
<1>1. job[t].assessment \in DOMAIN assessments
  BY DEF MonitorInv, MonitorKnows, Monitor!RecordTransition
<1>2. HandsTyped'
  BY HandTyped, HandMoves DEF Monitor!RecordTransition, Monitor!PCs
<1>3. events' \subseteq DOMAIN assessments /\ acked' \subseteq events'
  BY <1>1 DEF Monitor!RecordTransition, Monitor!SaveStateEvent, MonitorRowsTyped
<1> QED BY <1>2, <1>3 DEF MonitorRowsTyped, Monitor!RecordTransition, Monitor!SaveStateEvent

LEMMA TypedSaveProposal ==
  ASSUME MonitorRowsTyped, NEW p \in Monitor!Proposals,
         UNCHANGED proposals \/ Monitor!SaveProposal(p),
         UNCHANGED <<jobs, assessments, events, acked, attempts, decisions>>
  PROVE  MonitorRowsTyped'
BY DEF MonitorRowsTyped, Monitor!SaveProposal

LEMMA TypedPropose ==
  ASSUME MonitorRowsTyped, HandsTyped, NEW t \in Hands, Monitor!Propose(t)
  PROVE  MonitorRowsTyped' /\ HandsTyped'
<1> DEFINE action == Monitor!ActionFor(job[t].assessment)
           p == [Monitor!NoProposal EXCEPT !.assessment = job[t].assessment, !.action = action]
<1>1. HandsTyped'
  BY HandTyped, HandMoves DEF Monitor!Propose, Monitor!PCs
<1>2. job[t].assessment \in Nat
  BY HandTyped DEF Monitor!Locals
<1>3. action # "none" => action \in {"theme_scan", "reevaluate_candidates"}
  BY DEF Monitor!ActionFor
<1>4. ASSUME action # "none"
      PROVE  p \in Monitor!Proposals
  <2> HIDE DEF action
  <2> QED BY <1>2, <1>3, <1>4, BlankTyped DEF Monitor!Proposals
<1>5. /\ UNCHANGED <<jobs, assessments, events, acked, attempts, decisions>>
      /\ \/ UNCHANGED proposals
         \/ action # "none" /\ Monitor!SaveProposal(p)
  BY DEF Monitor!Propose
<1> HIDE DEF p
<1>6. CASE UNCHANGED proposals
  BY <1>1, <1>5, <1>6 DEF MonitorRowsTyped
<1> QED BY <1>1, <1>4, <1>5, <1>6, TypedSaveProposal

\* A job ends, is given up, or dies.
LEMMA TypedEnds ==
  ASSUME MonitorRowsTyped, HandsTyped, NEW t \in Hands,
         Monitor!Finish(t) \/ Monitor!SaveFailed(t) \/ Monitor!Fail(t) \/ Monitor!Crash(t)
  PROVE  MonitorRowsTyped' /\ HandsTyped'
<1>1. CASE Monitor!Finish(t) \/ Monitor!SaveFailed(t)
  BY <1>1, TypedSaveJob, LeaveTypes DEF Monitor!Finish, Monitor!SaveFailed
<1>2. CASE Monitor!Fail(t)
  BY <1>2, HandTyped, HandMoves DEF Monitor!Fail, Monitor!PCs, Monitor!tables, MonitorRowsTyped
<1>3. CASE Monitor!Crash(t)
  BY <1>3, LeaveTypes DEF Monitor!Crash, Monitor!tables, MonitorRowsTyped
<1> QED BY <1>1, <1>2, <1>3

\* The analyst and the calendar.
LEMMA TypedUser ==
  ASSUME MonitorRowsTyped, HandsTyped, NEW u \in Hands,
         \/ \E a \in events : Monitor!Acknowledge(u, a)
         \/ \E p \in proposals, h \in {"accepted", "rejected"} : Monitor!Decide(u, p, h)
         \/ \E f \in MonitorFilings : Monitor!Link(u, f)
         \/ Monitor!SaveUserProposal(u)
  PROVE  MonitorRowsTyped' /\ HandsTyped'
<1>1. ASSUME NEW p \in Monitor!Proposals
      PROVE  [Monitor!Blank EXCEPT !.proposal = p] \in Monitor!Locals
  BY BlankTyped DEF Monitor!Locals
<1>2. ASSUME NEW a \in events, Monitor!Acknowledge(u, a)
      PROVE  MonitorRowsTyped' /\ HandsTyped'
  BY <1>2 DEF Monitor!Acknowledge, MonitorRowsTyped, HandsTyped
<1>3. ASSUME NEW p \in proposals, NEW h \in {"accepted", "rejected"}, Monitor!Decide(u, p, h)
      PROVE  MonitorRowsTyped' /\ HandsTyped'
  <2>1. [p EXCEPT !.human = h] \in Monitor!Proposals
    BY DEF MonitorRowsTyped, Monitor!Proposals, Monitor!Human
  <2>2. HandsTyped'
    BY <1>1, <1>3, <2>1, HandMoves DEF Monitor!Decide, Monitor!PCs
  <2>3. decisions' \in 0..MaxDecisions
    BY <1>3, WorkbenchAssumption DEF Monitor!Decide, MonitorRowsTyped, Monitor!MonitorBounds
  <2> QED BY <1>3, <2>2, <2>3 DEF Monitor!Decide, Monitor!tables, MonitorRowsTyped
<1>4. ASSUME NEW f \in MonitorFilings, Monitor!Link(u, f)
      PROVE  MonitorRowsTyped' /\ HandsTyped'
  <2> DEFINE a == Monitor!Latest(DOMAIN assessments)
             p == [assessment |-> a, action |-> "reevaluate_candidates", origin |-> f,
                   human |-> "pending"]
  <2>1. a \in Nat
    <3>1. DOMAIN assessments = {} => a = 0
      BY LatestOf
    <3>2. DOMAIN assessments # {} => a \in DOMAIN assessments
      BY LatestOf
    <3>3. DOMAIN assessments \subseteq Nat
      BY DEF MonitorRowsTyped
    <3> QED BY <3>1, <3>2, <3>3
  <2>2. Monitor!Goto(u, "link", [Monitor!Blank EXCEPT !.proposal = p])
    BY <1>4 DEF Monitor!Link
  <2> HIDE DEF a
  <2>3. p \in Monitor!Proposals
    BY <2>1 DEF Monitor!Proposals, Monitor!Human
  <2> HIDE DEF p
  <2>4. HandsTyped'
    BY <1>1, <2>2, <2>3, HandMoves DEF Monitor!PCs
  <2> QED BY <1>4, <2>4 DEF Monitor!Link, Monitor!tables, MonitorRowsTyped
<1>5. CASE Monitor!SaveUserProposal(u)
  <2>1. job[u].proposal \in Monitor!Proposals
    BY HandTyped DEF Monitor!Locals
  <2> QED BY <1>5, <2>1, LeaveTypes, TypedSaveProposal DEF Monitor!SaveUserProposal
<1> QED BY <1>2, <1>3, <1>4, <1>5

LEMMA MonitorTypedStep ==
  ASSUME MonitorInv, MonitorRowsTyped, HandsTyped, [Monitor!Next]_Monitor!vars
  PROVE  MonitorRowsTyped' /\ HandsTyped'
<1>1. CASE UNCHANGED Monitor!vars
  BY <1>1 DEF Monitor!vars, MonitorRowsTyped, HandsTyped
<1>2. ASSUME NEW t \in Workers, Monitor!Work(t) \/ \E j \in Monitor!Jobs : Monitor!Run(t, j)
      PROVE  MonitorRowsTyped' /\ HandsTyped'
  BY <1>2, TypedRun, TypedRunning, TypedAssess, TypedSaveAssessment, TypedTransition, TypedPropose,
     TypedEnds DEF Monitor!Work, Hands
<1> QED BY <1>1, <1>2, TypedUser, TypedEnds DEF Monitor!Next, Hands

LEMMA MonitorTypesHold ==
  ASSUME MonitorInv, MonitorRowsTyped, HandsTyped
  PROVE  Monitor!TypeOK
BY DEF MonitorInv, MonitorRowsTyped, HandsTyped, Hands, Monitor!TypeOK

LEMMA MonitorTypeStart ==
  ASSUME Init
  PROVE  MonitorRowsTyped /\ HandsTyped
<1>1. /\ assessments = <<>> /\ events = {} /\ acked = {} /\ proposals = {}
      /\ attempts = 0 /\ decisions = 0
      /\ jobs = [j \in Monitor!Jobs |-> [status |-> "absent", assessment |-> 0]]
      /\ worker = [t \in Hands |-> "idle"] /\ job = [t \in Hands |-> Monitor!Blank]
  BY DEF Init, Monitor!Init, Hands
<1>2. attempts \in 0..MaxJobAttempts /\ decisions \in 0..MaxDecisions
  BY <1>1, WorkbenchAssumption DEF Monitor!MonitorBounds
<1>3. HandsTyped
  BY <1>1, BlankTyped DEF HandsTyped, Monitor!PCs
<1>4. jobs \in [Monitor!Jobs -> Monitor!JobRows]
  BY <1>1 DEF Monitor!JobRows
<1>5. assessments \in Seq(Monitor!Assessments) /\ DOMAIN assessments = {}
  BY <1>1
<1> QED BY <1>1, <1>2, <1>3, <1>4, <1>5 DEF MonitorRowsTyped

-----------------------------------------------------------------------------
(* The workbench: each component's types, with its invariant.              *)

LEMMA StreamTypeStart ==
  ASSUME Init
  PROVE  Directed
BY DEF Init, Stream!StreamInit, Directed, StreamPhases

LEMMA CodexTypeStart ==
  ASSUME Init
  PROVE  Launched
<1>1. /\ server = 0 /\ launched = 0 /\ live = {} /\ pending = <<>> /\ startLock = Codex!Nobody
      /\ call = [c \in Callers |-> Codex!Idle]
  BY DEF Init, Codex!ServerInit
<1>2. Codex!Idle.method # "initialize"
  BY DEF Codex!Idle
<1> QED BY <1>1, <1>2, WorkbenchAssumption DEF Launched, Codex!ServerAssumption

LEMMA TrackingTyped == Spec => []Tracked!TrackingTypeOK
<1>1. Init => TrackInv /\ TrackTyped
  BY TrackStart, TrackTypeStart
<1>2. TrackInv /\ TrackTyped /\ [Next]_rows => TrackInv' /\ TrackTyped'
  BY TrackAtWork, TrackStep, TrackTypedStep
<1>3. TrackInv /\ TrackTyped => Tracked!TrackingTypeOK
  BY TrackTypesHold
<1> QED BY <1>1, <1>2, <1>3, PTL DEF Spec

LEMMA CalendarTyped == Spec => []Calendar!CalendarTypeOK
<1>1. Init => CalendarInv
  BY CalendarStart
<1>2. CalendarInv /\ [Next]_rows => CalendarInv'
  BY CalendarAtWork, CalendarStep
<1>3. CalendarInv => Calendar!CalendarTypeOK
  BY DEF CalendarInv, FilingRows, Calendar!CalendarTypeOK
<1> QED BY <1>1, <1>2, <1>3, PTL DEF Spec

LEMMA FilesTyped == Spec => []Store!DatabaseTypeOK
<1>1. Init => StoreInv /\ StoreTyped
  BY StoreStart, StoreTypeStart
<1>2. StoreInv /\ StoreTyped /\ [Next]_rows => StoreInv' /\ StoreTyped'
  BY StoreAtWork, StoreStep, StoreTypedStep
<1>3. StoreInv /\ StoreTyped => Store!DatabaseTypeOK
  BY StoreTypesHold
<1> QED BY <1>1, <1>2, <1>3, PTL DEF Spec

LEMMA WorkerTyped == Spec => []Stream!StreamTypeOK
<1>1. Init => StreamInv /\ Directed
  BY StreamStart, StreamTypeStart
<1>2. StreamInv /\ Directed /\ [Next]_rows => StreamInv' /\ Directed'
  BY StreamAtWork, StreamStep, StreamTyped
<1>3. StreamInv /\ Directed => Stream!StreamTypeOK
  BY StreamTypesHold
<1> QED BY <1>1, <1>2, <1>3, PTL DEF Spec

LEMMA ServerTyped == Spec => []Codex!ServerTypeOK
<1>1. Init => CodexInv /\ Launched
  BY CodexStart, CodexTypeStart
<1>2. CodexInv /\ Launched /\ [Next]_rows => CodexInv' /\ Launched'
  BY CodexAtWork, CodexStep, CodexTyped
<1>3. CodexInv /\ Launched => Codex!ServerTypeOK
  BY CodexTypesHold
<1> QED BY <1>1, <1>2, <1>3, PTL DEF Spec

LEMMA ChoiceTyped == Spec => []Choice!ChoiceTypeOK
<1>1. Init => ChoiceInv
  BY ChoiceStart
<1>2. ChoiceInv /\ [Next]_rows => ChoiceInv'
  BY ChoiceAtWork, ChoiceStep
<1>3. ChoiceInv => Choice!ChoiceTypeOK
  BY ChoiceTypesHold
<1> QED BY <1>1, <1>2, <1>3, PTL DEF Spec

LEMMA SyncsTyped == Spec => []Market!MarketTypeOK
<1>1. Init => MarketTypes
  BY MarketTypeStart
<1>2. MarketTypes /\ [Next]_rows => MarketTypes'
  BY MarketAtWork, MarketTyped
<1>3. MarketTypes => Market!MarketTypeOK
  BY DEF MarketTypes
<1> QED BY <1>1, <1>2, <1>3, PTL DEF Spec

LEMMA DecisionsTyped == Spec => []Facts!FactsTypeOK
<1>1. Init => FactTypes
  BY FactTypeStart
<1>2. FactTypes /\ [Next]_rows => FactTypes'
  BY FactsAtWork, FactsTyped
<1>3. FactTypes => Facts!FactsTypeOK
  BY DEF FactTypes, Rows, Facts!FactsTypeOK, Facts!NoText
<1> QED BY <1>1, <1>2, <1>3, PTL DEF Spec

LEMMA MonitorTyped == Spec => []Monitor!TypeOK
<1>1. Init => MonitorInv /\ MonitorRowsTyped /\ HandsTyped
  BY MonitorStart, MonitorTypeStart
<1>2. /\ MonitorInv /\ MonitorRowsTyped /\ HandsTyped /\ [Next]_rows
      => MonitorInv' /\ MonitorRowsTyped' /\ HandsTyped'
  BY MonitorAtWork, MonitorStep, MonitorTypedStep
<1>3. MonitorInv /\ MonitorRowsTyped /\ HandsTyped => Monitor!TypeOK
  BY MonitorTypesHold
<1> QED BY <1>1, <1>2, <1>3, PTL DEF Spec

LEMMA QueueTyped == Spec => []Queue!QueueTypeOK
<1>1. Init => Analysis!QInv
  <2> SUFFICES ASSUME Init PROVE Analysis!QInv
    OBVIOUS
  <2>1. Analysis!QueueInit
    BY SameValues DEF Init, Queue!QueueInit, Analysis!QueueInit
  <2> QED BY <2>1, SameAssumptions, Analysis!QueueInitial
<1>2. Analysis!QInv /\ [Next]_rows => Analysis!QInv'
  BY QueueAtWork, SameAssumptions, Analysis!QueueInductive
<1>3. Queue!Suggestions = Analysis!Suggestions
  BY DEF Queue!Suggestions, Analysis!Suggestions, Queue!Statuses, Analysis!Statuses
<1>4. Queue!Ledgers = Analysis!Ledgers
  BY DEF Queue!Ledgers, Analysis!Ledgers, Queue!Evidence, Analysis!Evidence
<1>5. Queue!Locals = Analysis!Locals /\ Queue!PCs = Analysis!PCs
  BY <1>3, <1>4 DEF Queue!Locals, Analysis!Locals, Queue!PCs, Analysis!PCs
<1>6. Analysis!QInv => Queue!QueueTypeOK
  BY <1>3, <1>4, <1>5, SameValues DEF Analysis!QInv, Analysis!QueueTypeOK, Queue!QueueTypeOK
<1> QED BY <1>1, <1>2, <1>6, PTL DEF Spec

\* The rows of the components of the workbench, and what their requests hold, have their types,
\* whatever threads and processes meet, fail or die: a quote is a price of its day
\* (tracking/service.py), a call has an id its process was given (codex_cli.py), a
\* database file has tables the registry knows (runtime/migrations/manager.py), and no
\* two suggestions of a run share a canonical URL (sources/store.py).
THEOREM TypeCorrect == Spec => []TypeOK
<1>1. BootInv => Bootstrap!BootstrapTypeOK
  BY DEF BootInv
<1>2. /\ Tracked!TrackingTypeOK /\ Calendar!CalendarTypeOK /\ Store!DatabaseTypeOK
      /\ Stream!StreamTypeOK /\ Codex!ServerTypeOK /\ Choice!ChoiceTypeOK
      /\ Market!MarketTypeOK /\ Facts!FactsTypeOK /\ Monitor!TypeOK /\ Queue!QueueTypeOK
      /\ Bootstrap!BootstrapTypeOK
      => TypeOK
  BY DEF TypeOK
<1> QED BY <1>1, <1>2, TrackingTyped, CalendarTyped, FilesTyped, WorkerTyped, ServerTyped,
        ChoiceTyped, SyncsTyped, DecisionsTyped, MonitorTyped, QueueTyped, Booted, PTL
=============================================================================
