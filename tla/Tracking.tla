------------------------------ MODULE Tracking ------------------------------
(***************************************************************************)
(* Candidate tracking: tracking/service.py and tracking/store.py for one   *)
(* tracked candidate.  A candidate is put on the board with a baseline (a  *)
(* price of its own and one of its benchmark) or without; every later      *)
(* snapshot is compared with that baseline, and each trigger of the        *)
(* candidate that holds of it leaves one event for the analyst.            *)
(*                                                                         *)
(* The snapshot and its events are transactions of their own, so a request *)
(* is a thread with a program counter, and a request may die in between.   *)
(***************************************************************************)
EXTENDS Integers, FiniteSets, Sequences, SequencesExt

CONSTANTS
  Trackers,     \* requests that may be at work at one time
  Dates,        \* market dates
  Prices,       \* prices of the candidate and of its benchmark
  Triggers,     \* the candidate's triggers: [metric, operator, value]
  Feeds,        \* answers of the market provider: [primary, benchmark], each a
                \* function from the dates it knows to a price
  MaxTracking   \* bound on the requests

TrackingAssumption ==
  /\ Dates \subseteq Nat
  /\ Prices \subseteq Nat \ {0}
  /\ IsFiniteSet(Triggers)
  /\ \A t \in Triggers : t.operator \in {">", ">=", "<", "<=", "=="}
  /\ \A f \in Feeds : \A prices \in {f.primary, f.benchmark} :
       /\ IsFiniteSet(DOMAIN prices) /\ DOMAIN prices \subseteq Dates
       /\ \A d \in DOMAIN prices : prices[d] \in Prices

VARIABLES
  candidate,    \* the row of tracked_candidates, or NoCandidate
  snapshots,    \* tracking_snapshots: date -> prices, or NoSnapshot
  events,       \* trigger_events: key -> [value, acknowledged]
  tracking,     \* the requests at work
  requested,    \* requests made so far
  cutShort      \* dates whose evaluation died with its request (history)

trackingVars == <<candidate, snapshots, events, tracking, requested, cutShort>>

NoCandidate == [stage |-> "none", price |-> 0, benchmark |-> 0]
NoSnapshot == [price |-> 0, benchmark |-> 0]
Stages == {"research", "watch", "validated", "triggered", "invalidated", "archived"}

\* No prices: TrackedCandidate.call_price and call_benchmark_price are None.
Quotes == [price : Prices, benchmark : Prices]

Idle == [pc |-> "idle"]

(***************************************************************************)
(* The numbers, as whole percentages of the baseline (prices of a run are  *)
(* chosen so that they are whole).                                         *)
(***************************************************************************)
ReturnPct(value, baseline) == (100 * value) \div baseline - 100

Metrics(base, s) ==
  [price                |-> s.price,
   return_pct           |-> ReturnPct(s.price, base.price),
   benchmark_return_pct |-> ReturnPct(s.benchmark, base.benchmark),
   alpha_pct            |-> ReturnPct(s.price, base.price)
                              - ReturnPct(s.benchmark, base.benchmark)]

Compare(value, operator, threshold) ==
  \/ operator \in {">", ">="} /\ value > threshold
  \/ operator \in {"<", "<="} /\ value < threshold
  \/ operator \in {">=", "<=", "=="} /\ value = threshold

\* A trigger on a metric nobody computes never holds.
Holds(trigger, metrics) ==
  /\ trigger.metric \in DOMAIN metrics
  /\ Compare(metrics[trigger.metric], trigger.operator, trigger.value)

\* The UNIQUE key of trigger_events.
EventKey(trigger, date) == <<trigger, date>>

\* _pair_prices: the last date both instruments have a price for.
Common(feed) == DOMAIN feed.primary \cap DOMAIN feed.benchmark
LastCommon(feed) == CHOOSE d \in Common(feed) : \A e \in Common(feed) : e <= d

TrackingInit ==
  /\ candidate = NoCandidate
  /\ snapshots = [d \in Dates |-> NoSnapshot]
  /\ events = [k \in {} |-> 0]
  /\ tracking = [t \in Trackers |-> Idle]
  /\ requested = 0
  /\ cutShort = {}

-----------------------------------------------------------------------------

Begin(t) == tracking[t] = Idle /\ requested < MaxTracking /\ requested' = requested + 1

At(t, pc) == tracking[t].pc = pc

Snapshot(t, date, quote) ==
  tracking' = [tracking EXCEPT ![t] = [pc |-> "snapshot", date |-> date, quote |-> quote]]

Done(t) == tracking' = [tracking EXCEPT ![t] = Idle]

\* add_candidate: the row is inserted unless there is one.
AddCandidate(price, benchmark) ==
  candidate' = IF candidate = NoCandidate
               THEN [stage |-> "watch", price |-> price, benchmark |-> benchmark]
               ELSE candidate

\* track_run_candidate with prices (given by hand, or the provider's): a first snapshot
\* follows, whether the row is new or not.
TrackWithPrices(t, date, quote) ==
  /\ Begin(t)
  /\ AddCandidate(quote.price, quote.benchmark)
  \* add_snapshot refuses a stored row without a baseline.
  /\ IF candidate'.price = 0 THEN Done(t) ELSE Snapshot(t, date, quote)
  /\ UNCHANGED <<snapshots, events, cutShort>>

\* track_run_candidate(capture_live=False) without prices.
TrackWithout(t) ==
  /\ Begin(t)
  /\ AddCandidate(0, 0)
  /\ UNCHANGED <<snapshots, events, tracking, cutShort>>

\* add_snapshot up to the save.
AddSnapshot(t, date, quote) ==
  /\ candidate # NoCandidate /\ candidate.price # 0
  /\ Begin(t)
  /\ Snapshot(t, date, quote)
  /\ UNCHANGED <<candidate, snapshots, events, cutShort>>

\* capture_live_snapshot: the provider is asked between the two reads of the row.
CaptureLive(t, feed) ==
  /\ candidate # NoCandidate /\ candidate.price # 0
  /\ Common(feed) # {}
  /\ Begin(t)
  /\ LET d == LastCommon(feed)
     IN Snapshot(t, d, [price |-> feed.primary[d], benchmark |-> feed.benchmark[d]])
  /\ UNCHANGED <<candidate, snapshots, events, cutShort>>

\* Mutant: triggers are evaluated for the first snapshot of a date only.
SaveSnapshot_EvaluateNew(t) ==
  LET job == tracking[t]
      fresh == snapshots[job.date] = NoSnapshot
      holding == {g \in Triggers : fresh /\ Holds(g, Metrics(candidate, job.quote))}
  IN
  /\ At(t, "snapshot")
  /\ snapshots' = [snapshots EXCEPT ![job.date] = job.quote]
  /\ cutShort' = cutShort \ {job.date}
  /\ tracking' = [tracking EXCEPT ![t] =
       [pc |-> "events", date |-> job.date, quote |-> job.quote, todo |-> SetToSeq(holding)]]
  /\ UNCHANGED <<candidate, events, requested>>

\* save_snapshot: inserted or updated under (candidate, date); what is evaluated
\* next are the metrics of this snapshot, against the triggers read before.
SaveSnapshot(t) ==
  LET job == tracking[t]
      holding == {g \in Triggers : Holds(g, Metrics(candidate, job.quote))}
  IN
  /\ At(t, "snapshot")
  /\ snapshots' = [snapshots EXCEPT ![job.date] = job.quote]
  /\ cutShort' = cutShort \ {job.date}
  /\ tracking' = [tracking EXCEPT ![t] =
       [pc |-> "events", date |-> job.date, quote |-> job.quote, todo |-> SetToSeq(holding)]]
  /\ UNCHANGED <<candidate, events, requested>>

\* save_event: INSERT OR IGNORE, one event after the other.
InsertEvent(key, row) ==
  [k \in DOMAIN events \cup {key} |-> IF k \in DOMAIN events THEN events[k] ELSE row]

SaveEvent(t) ==
  LET job == tracking[t]
      g == Head(job.todo)
      row == [value |-> Metrics(candidate, job.quote)[g.metric], acknowledged |-> FALSE]
  IN
  /\ At(t, "events") /\ job.todo # <<>>
  /\ events' = InsertEvent(EventKey(g, job.date), row)
  /\ tracking' = [tracking EXCEPT ![t].todo = Tail(job.todo)]
  /\ UNCHANGED <<candidate, snapshots, requested, cutShort>>

Answer(t) ==
  /\ At(t, "events") /\ tracking[t].todo = <<>>
  /\ Done(t)
  /\ UNCHANGED <<candidate, snapshots, events, requested, cutShort>>

\* The process dies, or the store fails, between two of the saves.
Die(t) ==
  /\ tracking[t] # Idle
  /\ cutShort' = IF At(t, "events") /\ tracking[t].todo # <<>>
                 THEN cutShort \cup {tracking[t].date}
                 ELSE cutShort
  /\ Done(t)
  /\ UNCHANGED <<candidate, snapshots, events, requested>>

\* update_stage and acknowledge_event, one transaction each.
UpdateStage(stage) ==
  /\ candidate # NoCandidate /\ requested < MaxTracking
  /\ candidate' = [candidate EXCEPT !.stage = stage]
  /\ requested' = requested + 1
  /\ UNCHANGED <<snapshots, events, tracking, cutShort>>

AcknowledgeEvent(key) ==
  /\ key \in DOMAIN events
  /\ events' = [events EXCEPT ![key].acknowledged = TRUE]
  /\ UNCHANGED <<candidate, snapshots, tracking, requested, cutShort>>

\* The endpoints of /api/v1/tracking that write.
TrackingRequests ==
  \/ \E t \in Trackers, d \in Dates, q \in Quotes : TrackWithPrices(t, d, q) \/ AddSnapshot(t, d, q)
  \/ \E t \in Trackers : TrackWithout(t)
  \/ \E t \in Trackers, f \in Feeds : CaptureLive(t, f)
  \/ \E s \in Stages : UpdateStage(s)
  \/ \E k \in DOMAIN events : AcknowledgeEvent(k)

TrackingNext ==
  \/ TrackingRequests
  \/ \E t \in Trackers : SaveSnapshot(t) \/ SaveEvent(t) \/ Answer(t) \/ Die(t)

TrackingSpec == TrackingInit /\ [][TrackingNext]_trackingVars

-----------------------------------------------------------------------------

\* The rows hold what their columns admit.
TrackingTypeOK ==
  /\ candidate \in [stage : Stages \cup {"none"}, price : Prices \cup {0}, benchmark : Prices \cup {0}]
  /\ snapshots \in [Dates -> Quotes \cup {NoSnapshot}]
  /\ \A k \in DOMAIN events : events[k].value \in Int /\ events[k].acknowledged \in BOOLEAN
  /\ cutShort \subseteq Dates

\* A trigger that holds of the snapshot stored for a date has its event of that
\* date, unless the request that stored the snapshot is still at it or died: two
\* requests for one date, and one that corrects an earlier price, do not keep each
\* other's triggers from firing (add_snapshot, service.py:115).
TriggersFire ==
  \A d \in Dates, g \in Triggers :
    (/\ snapshots[d] # NoSnapshot
     /\ Holds(g, Metrics(candidate, snapshots[d]))
     /\ d \notin cutShort)
    => \/ EventKey(g, d) \in DOMAIN events
       \/ \E t \in Trackers : /\ At(t, "events")
                              /\ tracking[t].date = d
                              /\ Contains(tracking[t].todo, g)
=============================================================================
