--------------------------- MODULE MCSourceQueue ---------------------------
(* SourceQueue with interchangeable downloads and users, and sources that  *)
(* name two URLs: a web page, the same page found by an official index,    *)
(* and a filing the index finds.                                           *)
EXTENDS SourceQueue, TLC

MCUrlOf == [s \in Sources |-> IF s = "filing" THEN "u2" ELSE "u1"]
Interchangeable == Permutations(Contents) \cup Permutations(Users)
=============================================================================
