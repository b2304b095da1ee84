-------------------------- MODULE MCResearchBridge -------------------------
(***************************************************************************)
(* ResearchBridge with interchangeable signals, tasks, downloads and users,*)
(* and sources that name two URLs.  The first state chooses between two    *)
(* regimes: one request at a time over the whole instance with a crash, or *)
(* overlapping requests about one signal without one.                      *)
(***************************************************************************)
EXTENDS ResearchBridge, TLC

CONSTANT MaxOverlapping  \* requests of a behaviour whose requests overlap

VARIABLE alone

MCUrlOf == [s \in Sources |-> IF s = "filing" THEN "u2" ELSE "u1"]
Interchangeable == Permutations(Signals) \cup Permutations(Tasks)
                     \cup Permutations(Contents) \cup Permutations(Users)

-----------------------------------------------------------------------------
\* All requests are one user's.
OneAtATime ==
  \E t \in Users : \A u \in Users \ {t} : at'[u] = "idle" /\ pc'[u] = "idle" /\ mem'[u] = Blank

\* One signal, no redirected download, no crash.
Overlapping ==
  /\ crashes' = 0 /\ requests' <= MaxOverlapping
  /\ Cardinality(({tasks'[k].signal : k \in Tasks} \cup {job'[t].row.signal : t \in Users})
                   \ {"none"}) <= 1
  /\ \A t \in Users : mem'[t].url # "u2"

MCInit == Init /\ alone \in BOOLEAN

MCNext ==
  \/ alone /\ Next /\ OneAtATime /\ UNCHANGED alone
  \/ ~alone /\ Next /\ Overlapping /\ UNCHANGED alone

MCSpec == MCInit /\ [][MCNext]_<<vars, alone>>

-----------------------------------------------------------------------------
\* Two requests at once may break both of these.

\* A signal waits for its official source exactly while a task of it is open
\* (bridge.py lines 264-282 and 503-513).
AlonePendingMeansOpen == alone => PendingMeansOpen

\* A rejection creates no link (bridge.py lines 494-523).
AloneRejectedHasNoLink == alone => RejectedHasNoLink
=============================================================================
