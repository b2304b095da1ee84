------------------------- MODULE MCMainlineMonitor -------------------------
(***************************************************************************)
(* Instances of MainlineMonitor for TLC.                                   *)
(***************************************************************************)
EXTENDS MainlineMonitor

MCGradeOf == [d \in Data |-> d]
===========================================================================
