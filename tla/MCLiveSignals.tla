--------------------------- MODULE MCLiveSignals ---------------------------
(***************************************************************************)
(* LiveSignals with at most two keys: a flash, delivered by two channels   *)
(* (observations 1 and 2), and a calendar entry (observation 3); and a     *)
(* bridge that opens a verification task, links its evidence or rejects it.*)
(***************************************************************************)
EXTENDS LiveSignals, TLC

MCKeyOf == [o \in Observations |-> IF o = 3 THEN "calendar" ELSE "flash"]
MCStateOf == [d \in Decisions |-> CASE d = "opened" -> "official_source_pending"
                                    [] d = "linked" -> "evidence_linked"
                                    [] OTHER -> "signal_only"]
Interchangeable == Permutations(Ingesters) \cup Permutations(Bridges)
=============================================================================
