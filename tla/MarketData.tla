------------------------------ MODULE MarketData -----------------------------
(***************************************************************************)
(* The daily bars of one ticker and one provider (market/service.py, sync; *)
(* market/store.py; market/quality.py).  A sync chooses where to start     *)
(* from what is stored, fetches, checks what it fetched, upserts it, and   *)
(* checks and returns what is then stored for the window it was asked for. *)
(*                                                                         *)
(* A bar is the number of splits and dividends its adjusted close accounts *)
(* for: a provider adjusts all history at each, and a series whose bars    *)
(* account for different ones shows a return that never was.  The quality  *)
(* check knows it only by its size: a split is large when the return it    *)
(* leaves between two bars is at least 50% whatever the price did between  *)
(* them, and no other undoes it; a dividend, a 3:2 split or a 2:1 split on *)
(* a day that rises may pass.  Every day is a session; the provider may    *)
(* not have today's yet, and may fail.  Syncs of several threads overlap,  *)
(* and a process may die at any point.                                     *)
(***************************************************************************)
EXTENDS Naturals

CONSTANTS
  Syncers,    \* threads that sync
  Windows,    \* days of history asked for
  Overlap,    \* days fetched again
  StaleAfter, \* days after which a history is stale
  FirstDay,   \* the day of the first sync
  LastDay,    \* bounds
  MaxAdjustments,
  MaxSyncs,
  LargeSplits \* which splits and dividends, in their order, are large splits

MarketAssumption ==
  /\ Windows \subseteq Nat /\ Overlap \in Nat /\ StaleAfter \in Nat
  /\ LastDay \in Nat /\ FirstDay \in 1..LastDay
  /\ MaxAdjustments \in Nat /\ MaxSyncs \in Nat
  /\ LargeSplits \subseteq 1..MaxAdjustments

VARIABLES
  day,         \* today
  adjustments, \* splits and dividends so far
  bars,        \* market_bars: date -> how many of them its adjusted close accounts for
  report,      \* status of the latest quality report
  sync,        \* the sync of each thread
  returned,    \* the result returned last, if any
  syncs        \* syncs so far

marketVars == <<day, adjustments, bars, report, sync, returned, syncs>>

Dates == 1..LastDay
Idle == [pc |-> "idle"]

MarketInit ==
  /\ day = FirstDay
  /\ adjustments = 0
  /\ bars = [d \in {} |-> 0]
  /\ report = "none"
  /\ sync = [t \in Syncers |-> Idle]
  /\ returned = {}
  /\ syncs = 0

-----------------------------------------------------------------------------
Earliest(ds) == CHOOSE d \in ds : \A e \in ds : d <= e
Latest(ds) == CHOOSE d \in ds : \A e \in ds : e <= d
Less(d, n) == IF d > n THEN d - n ELSE 0
Later(d, e) == IF d > e THEN d ELSE e

\* _fetch_start, of what date_bounds returns
FetchStart(stored, target) ==
  IF stored = {} \/ Earliest(stored) > target THEN target
  ELSE Later(target, Less(Latest(stored), Overlap))

\* fetch_history: what the provider has by now, of the sessions up to `last`.
Fetched(start, last) ==
  [d \in {e \in Dates : start <= e /\ e <= last} |-> adjustments]

\* save_bars: an upsert by date
Upserted(new) ==
  [d \in DOMAIN bars \cup DOMAIN new |-> IF d \in DOMAIN new THEN new[d] ELSE bars[d]]

\* list_bars
Listed(stored, start, end) ==
  [d \in {e \in DOMAIN stored : start <= e /\ e <= end} |-> stored[d]]

\* Two adjusted closes account for the same large splits.
OneBasis(a, b) == \A i \in LargeSplits : i <= a <=> i <= b

\* extreme_adjusted_return: a large split lies between two bars that follow each other.
Broken(series) ==
  \E d, e \in DOMAIN series :
    /\ d < e
    /\ ~\E f \in DOMAIN series : d < f /\ f < e
    /\ ~OneBasis(series[d], series[e])

\* evaluate_market_quality.  warns: it finds anything else to warn of (an extreme return that
\* was, one left by a smaller split, raw and adjusted returns that diverge, a session or an
\* adjusted close that is missing).
Stale(series, end) == Latest(DOMAIN series) < Less(end, StaleAfter)
Quality(series, end, warns) ==
  IF DOMAIN series = {} THEN "fail"
  ELSE IF Broken(series) \/ Stale(series, end) \/ warns THEN "warn"
  ELSE "pass"

\* Mutant: the returned quality is the one of the bars just fetched.
Checked_Batch(stored, s, warns) == Quality(s.batch, s.end, warns)

\* The quality of what is stored for the window asked for.
Checked(stored, s, warns) == Quality(Listed(stored, s.target, s.end), s.end, warns)

-----------------------------------------------------------------------------
At(t, pc) == sync[t].pc = pc
Ends(t) == sync' = [sync EXCEPT ![t] = Idle]

\* sync: the start is chosen from the bounds stored now, and the call to the provider follows.
BeginSync(t, window) ==
  /\ syncs < MaxSyncs
  /\ At(t, "idle")
  /\ syncs' = syncs + 1
  /\ LET target == Less(day, window)
     IN  sync' = [sync EXCEPT ![t] = [pc |-> "fetch", end |-> day, target |-> target,
                                      start |-> FetchStart(DOMAIN bars, target)]]
  /\ UNCHANGED <<day, adjustments, bars, report, returned>>

\* save_quality: what latest_quality reads from then on.
SaveQuality(status) == report' = status

\* The batch's report is saved; a batch that fails it goes no further.
Fetch(t, last, warns) ==
  /\ At(t, "fetch")
  /\ last \in {Less(sync[t].end, 1), sync[t].end}
  /\ LET s == sync[t]
         batch == Fetched(s.start, last)
     IN  /\ SaveQuality(Quality(batch, s.end, warns))
         /\ sync' = [sync EXCEPT ![t] =
              IF Quality(batch, s.end, warns) = "fail" THEN Idle
              ELSE [pc |-> "save", end |-> s.end, target |-> s.target, batch |-> batch]]
  /\ UNCHANGED <<day, adjustments, bars, returned, syncs>>

\* The provider fails, or returns bars that are no bars: the report says so.
FetchRefused(t) ==
  /\ At(t, "fetch")
  /\ report' \in {report, "fail"}
  /\ Ends(t)
  /\ UNCHANGED <<day, adjustments, bars, returned, syncs>>

SaveBars(t) ==
  /\ At(t, "save")
  /\ bars' = Upserted(sync[t].batch)
  /\ sync' = [sync EXCEPT ![t].pc = "check"]
  /\ UNCHANGED <<day, adjustments, report, returned, syncs>>

\* The stored bars of the window are listed, checked, reported and returned.
ReturnMerged(t, warns) ==
  /\ At(t, "check")
  /\ LET s == sync[t]
     IN  /\ SaveQuality(Checked(bars, s, warns))
         /\ returned' =
              {[bars |-> Listed(bars, s.target, s.end), quality |-> Checked(bars, s, warns),
                target |-> s.target, end |-> s.end]}
  /\ Ends(t)
  /\ UNCHANGED <<day, adjustments, bars, syncs>>

Die(t) ==
  /\ sync[t] # Idle
  /\ Ends(t)
  /\ UNCHANGED <<day, adjustments, bars, report, returned, syncs>>

NextDay ==
  /\ day < LastDay
  /\ day' = day + 1
  /\ UNCHANGED <<adjustments, bars, report, sync, returned, syncs>>

\* A split or a dividend.
Adjust ==
  /\ adjustments < MaxAdjustments
  /\ adjustments' = adjustments + 1
  /\ UNCHANGED <<day, bars, report, sync, returned, syncs>>

\* POST /api/v1/market/sync, and the capture of a run's market snapshot
MarketRequests == \E t \in Syncers, window \in Windows : BeginSync(t, window)

SyncSteps ==
  \E t \in Syncers :
    \/ \E warns \in BOOLEAN :
         ReturnMerged(t, warns) \/ \E last \in 0..LastDay : Fetch(t, last, warns)
    \/ FetchRefused(t) \/ SaveBars(t) \/ Die(t)

MarketNext == MarketRequests \/ SyncSteps \/ NextDay \/ Adjust

MarketSpec == MarketInit /\ [][MarketNext]_marketVars

-----------------------------------------------------------------------------
MarketTypeOK ==
  /\ day \in Dates /\ adjustments \in 0..MaxAdjustments /\ syncs \in 0..MaxSyncs
  /\ DOMAIN bars \subseteq Dates /\ \A d \in DOMAIN bars : bars[d] \in 0..MaxAdjustments
  /\ report \in {"none", "pass", "warn", "fail"}
  /\ \A t \in Syncers : sync[t].pc \in {"idle", "fetch", "save", "check"}

\* No two bars of a series returned as sound lie on different sides of a large split, however
\* far apart, although an incremental sync leaves old bars as they were, although smaller
\* splits and dividends pass unseen between them and although syncs overlap: the check is made
\* of the stored series that is returned.
SoundSeesLargeSplits ==
  \A r \in returned : r.quality = "pass" =>
    \A d, e \in DOMAIN r.bars : OneBasis(r.bars[d], r.bars[e])

\* A sync returns every session of the window it was asked for, up to the last bar it has: where
\* the requested window extends farther back than what is stored, it is backfilled
\* (docs/MARKET_DATA.md, persistence).
RequestedHistoryIsThere ==
  \A r \in returned : \A d \in Dates :
    r.target <= d /\ d <= Latest(DOMAIN r.bars) => d \in DOMAIN r.bars
=============================================================================
