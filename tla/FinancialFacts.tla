---------------------------- MODULE FinancialFacts ---------------------------
(***************************************************************************)
(* The financial facts of one run.  They come from two places: candidates  *)
(* parsed from a reviewed disclosure, which an analyst accepts or rejects  *)
(* (financials/extraction.py), and structured company facts of a provider, *)
(* extracted together with the response they were read from                *)
(* (financials/service.py, providers/filings/sec.py).  A fact is stored    *)
(* once and never changed (financials/store.py).                           *)
(*                                                                         *)
(* Candidates and facts are named by hashes of what they say, so the same  *)
(* value read from another place has the name it had.  Requests overlap,   *)
(* and each may die between two of its writes.                             *)
(***************************************************************************)
EXTENDS Naturals

CONSTANTS
  Threads,
  Texts,       \* contents of the disclosure
  Parsed,      \* text -> (candidate found in it -> its place in the text)
  Reported,    \* sequence of the provider's responses, each a set of facts
  MaxReviews,  \* bounds on the captures of the disclosure,
  MaxRequests  \* and on the requests

VARIABLES
  disclosure,  \* the Evidence: its text, and whether it was reviewed since its capture
  captures,    \* captures so far
  candidates,  \* disclosure_fact_candidates: candidate -> status and place
  facts,       \* financial_facts: fact -> where it was read
  run,         \* the run's Evidence of responses, and the response its manifest names
  served,      \* the provider's present response
  request,     \* the request of each thread
  requests     \* requests so far

factVars ==
  <<disclosure, captures, candidates, facts, run, served, request, requests>>

Responses == DOMAIN Reported
\* The provider has a response.
FactsAssumption == 1 \in Responses

\* the facts of a candidate and of a response
Accepted(c) == <<"accepted", c>>
Stated(response) == {<<"reported", f>> : f \in Reported[response]}
Idle == [pc |-> "idle"]
NoText == "none"

FactsInit ==
  /\ disclosure = [text |-> NoText, reviewed |-> FALSE]
  /\ captures = 0
  /\ candidates = [c \in {} |-> Idle]
  /\ facts = [f \in {} |-> 0]
  /\ run = [attached |-> {}, latest |-> 0]
  /\ served = 1
  /\ request = [t \in Threads |-> Idle]
  /\ requests = 0

With(f, x, y) == [z \in DOMAIN f \cup {x} |-> IF z = x THEN y ELSE f[z]]
At(t, pc) == request[t].pc = pc
Goto(t, new) == request' = [request EXCEPT ![t] = new]
Arrives(t) == At(t, "idle") /\ requests < MaxRequests /\ requests' = requests + 1

-----------------------------------------------------------------------------
(* Candidates *)

\* preview: of reviewed Evidence that is linked to an official suggestion
Preview(t) ==
  /\ Arrives(t)
  /\ disclosure.reviewed
  /\ Goto(t, [pc |-> "save", found |-> Parsed[disclosure.text]])
  /\ UNCHANGED <<disclosure, captures, candidates, facts, run, served>>

\* Candidates are saved one by one, each as pending, over the row it may have.
SaveCandidate(t, c) ==
  /\ At(t, "save")
  /\ LET found == request[t].found
         rest == DOMAIN found \ {c}
     IN  /\ c \in DOMAIN found
         /\ candidates' = With(candidates, c, [status |-> "pending", place |-> found[c]])
         /\ Goto(t, IF rest = {} THEN Idle ELSE [pc |-> "save", found |-> [d \in rest |-> found[d]]])
  /\ UNCHANGED <<disclosure, captures, facts, run, served, requests>>

\* decide, with the candidate as it is read here
Decide(t, c, accepted) ==
  /\ Arrives(t)
  /\ c \in DOMAIN candidates
  /\ candidates[c].status = "pending"
  /\ Goto(t, [pc |-> IF accepted THEN "accept" ELSE "decided", candidate |-> c,
              place |-> candidates[c].place, accepted |-> accepted])
  /\ UNCHANGED <<disclosure, captures, candidates, facts, run, served>>

\* Facts that are there already must be the same; otherwise none of them is added.
Conflict(new) == \E f \in DOMAIN new \cap DOMAIN facts : facts[f] # new[f]
AddMany(new) ==
  facts' = [f \in DOMAIN facts \cup DOMAIN new |-> IF f \in DOMAIN facts THEN facts[f] ELSE new[f]]

\* The fact of an accepted candidate is added before the decision is saved.  It is refused
\* when it conflicts, or when the suggestion's link to the Evidence has gone.
AddFact(t) ==
  /\ At(t, "accept")
  /\ LET new == [f \in {Accepted(request[t].candidate)} |-> request[t].place]
     IN  \/ ~Conflict(new) /\ AddMany(new) /\ Goto(t, [request[t] EXCEPT !.pc = "decided"])
         \/ UNCHANGED facts /\ Goto(t, Idle)
  /\ UNCHANGED <<disclosure, captures, candidates, run, served, requests>>

\* Mutant: the decision is saved first.
SaveDecision_First(t) ==
  /\ request[t].pc \in {"accept", "decided"}
  /\ LET r == request[t]
         status == IF r.accepted THEN "accepted" ELSE "rejected"
     IN  /\ candidates' = With(candidates, r.candidate, [status |-> status, place |-> r.place])
         /\ Goto(t, IF r.accepted THEN [r EXCEPT !.pc = "accept"] ELSE Idle)
  /\ UNCHANGED <<disclosure, captures, facts, run, served, requests>>

SaveDecision(t) ==
  /\ At(t, "decided")
  /\ LET r == request[t]
         status == IF r.accepted THEN "accepted" ELSE "rejected"
     IN  candidates' = With(candidates, r.candidate, [status |-> status, place |-> r.place])
  /\ Goto(t, Idle)
  /\ UNCHANGED <<disclosure, captures, facts, run, served, requests>>

-----------------------------------------------------------------------------
(* Company facts *)

\* extract: the provider's response, kept as a file.  A provider may fail with the response
\* in its hands or without one; what failed is noted in the run.
Work(t, pc, failed) == [pc |-> pc, response |-> request[t].response, failed |-> failed]

Extract(t) ==
  /\ Arrives(t)
  /\ \/ \E failed \in BOOLEAN : Goto(t, [pc |-> "load", response |-> served, failed |-> failed])
     \/ Goto(t, [pc |-> "reload", response |-> served, failed |-> TRUE])
  /\ UNCHANGED <<disclosure, captures, candidates, facts, run, served>>

\* attach_collected_document reads the run and saves all of it with the response.
LoadRun(t) ==
  /\ At(t, "load")
  /\ Goto(t, [pc |-> "attach", response |-> request[t].response, failed |-> request[t].failed,
              run |-> run])
  /\ UNCHANGED <<disclosure, captures, candidates, facts, run, served, requests>>

Attach(t) ==
  /\ At(t, "attach")
  /\ run' = [request[t].run EXCEPT !.attached = @ \cup {request[t].response}]
  /\ Goto(t, Work(t, IF request[t].failed THEN "reload" ELSE "add", request[t].failed))
  /\ UNCHANGED <<disclosure, captures, candidates, facts, served, requests>>

\* The identity of a fact leaves out the response it cites; one that is stored with another
\* response refuses them all.
AddFacts(t) ==
  /\ At(t, "add")
  /\ LET response == request[t].response
         new == [f \in Stated(response) |-> response]
     IN  /\ Goto(t, Work(t, "reload", Conflict(new)))
         /\ IF Conflict(new) THEN UNCHANGED facts ELSE AddMany(new)
  /\ UNCHANGED <<disclosure, captures, candidates, run, served, requests>>

\* The run is read again; the artifacts are written, and its manifest names the response, or
\* the failure.
Reload(t) ==
  /\ At(t, "reload")
  /\ Goto(t, [pc |-> "name", response |-> request[t].response, failed |-> request[t].failed,
              run |-> run])
  /\ UNCHANGED <<disclosure, captures, candidates, facts, run, served, requests>>

NameFacts(t) ==
  LET r == request[t] IN
  /\ At(t, "name")
  /\ run' = IF r.failed THEN r.run ELSE [r.run EXCEPT !.latest = r.response]
  /\ Goto(t, Idle)
  /\ UNCHANGED <<disclosure, captures, candidates, facts, served, requests>>

-----------------------------------------------------------------------------
(* Around them *)

\* The disclosure is captured again, and reviewed again.
Capture(text) ==
  /\ captures < MaxReviews
  /\ captures' = captures + 1
  /\ disclosure' = [text |-> text, reviewed |-> FALSE]
  /\ UNCHANGED <<candidates, facts, run, served, request, requests>>

Review ==
  /\ disclosure.text # NoText /\ ~disclosure.reviewed
  /\ disclosure' = [disclosure EXCEPT !.reviewed = TRUE]
  /\ UNCHANGED <<captures, candidates, facts, run, served, request, requests>>

\* The company files: the provider's response is another one.
Files ==
  /\ served + 1 \in Responses
  /\ served' = served + 1
  /\ UNCHANGED <<disclosure, captures, candidates, facts, run, request, requests>>

Die(t) ==
  /\ request[t] # Idle
  /\ Goto(t, Idle)
  /\ UNCHANGED <<disclosure, captures, candidates, facts, run, served, requests>>

FactRequests ==
  \E t \in Threads :
    \/ Preview(t) \/ Extract(t)
    \/ \E c \in DOMAIN candidates, accepted \in BOOLEAN : Decide(t, c, accepted)

RequestSteps ==
  \E t \in Threads :
    \/ At(t, "save") /\ \E c \in DOMAIN request[t].found : SaveCandidate(t, c)
    \/ AddFact(t) \/ SaveDecision(t)
    \/ LoadRun(t) \/ Attach(t) \/ AddFacts(t) \/ Reload(t) \/ NameFacts(t)
    \/ Die(t)

FactsNext ==
  \/ FactRequests
  \/ RequestSteps
  \/ \E text \in Texts : Capture(text)
  \/ Review
  \/ Files

FactsSpec == FactsInit /\ [][FactsNext]_factVars

-----------------------------------------------------------------------------
FactsTypeOK ==
  /\ disclosure.text \in Texts \cup {NoText} /\ disclosure.reviewed \in BOOLEAN
  /\ \A c \in DOMAIN candidates : candidates[c].status \in {"pending", "accepted", "rejected"}
  /\ run.attached \subseteq Responses /\ run.latest \in Responses \cup {0}
  /\ served \in Responses

\* A candidate that reads as accepted has its fact, wherever a decision died, whatever was
\* previewed again and however two decisions on it raced: the decision is never saved ahead
\* of the fact it stands for.
AcceptedIsFact ==
  \A c \in DOMAIN candidates :
    candidates[c].status = "accepted" => Accepted(c) \in DOMAIN facts
=============================================================================
