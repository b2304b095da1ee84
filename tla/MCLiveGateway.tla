--------------------------- MODULE MCLiveGateway ---------------------------
(***************************************************************************)
(* Instances of LiveGateway for TLC.                                       *)
(***************************************************************************)
EXTENDS LiveGateway
===========================================================================
