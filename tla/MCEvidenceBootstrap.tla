------------------------- MODULE MCEvidenceBootstrap -------------------------
(***************************************************************************)
(* One company with one filing, an attempt of the agent and a request of a *)
(* user beside it.                                                         *)
(***************************************************************************)
EXTENDS EvidenceBootstrap

FilingOfX == [f \in Filings |-> "x"]
=============================================================================
