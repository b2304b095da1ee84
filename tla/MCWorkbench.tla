----------------------------- MODULE MCWorkbench -----------------------------
(***************************************************************************)
(* Each component of Workbench in its own small instance.                  *)
(***************************************************************************)
EXTENDS Workbench, TLC

CONSTANTS t1, t2  \* threads, as model values

MCTriggers == {[metric |-> "return_pct", operator |-> ">=", value |-> 50],
               [metric |-> "alpha_pct", operator |-> "<", value |-> 0],
               [metric |-> "volume", operator |-> ">", value |-> 1]}
MCFeeds == {[primary |-> 1 :> 20 @@ 2 :> 10, benchmark |-> 1 :> 10],
            [primary |-> 1 :> 20, benchmark |-> 2 :> 10]}

\* A list observed twice, once with the evidence graph and under a definition that names
\* its id; the same list under a second id, which takes a membership's id over, with a
\* definition whose id may be taken.
Definition(id, h, v, k) == [id |-> id, hash |-> h, version |-> v, from |-> 1, to |-> 1000, known |-> k]
Membership(id, ticker, from, to, k) ==
  [id |-> id, ticker |-> ticker, from |-> from, to |-> to, known |-> k]
List(id, kind, coverage, observed, members) ==
  [id |-> id, kind |-> kind, coverage |-> coverage, observed |-> observed, members |-> members]
X == Membership("", "x", 1, 1000, -1)
MCDocuments ==
  {[definition |-> Definition("", "a", 1, 1),
    sources |-> <<List("s", "vendor", "partial", 1, {X, Membership("m", "y", 1, 1, 1)})>>],
   [definition |-> Definition("d", "a", 1, 1),
    sources |-> <<List("s", "vendor", "complete", 2, {X}),
                  List("e", "evidence_graph", "complete", 1, {Membership("", "x", 2, 1000, 2)})>>],
   [definition |-> Definition("d", "b", 2, 2),
    sources |-> <<List("r", "vendor", "partial", 1, {X, Membership("m", "y", 1, 1000, 2)})>>]}

MCMapper == "f" :> "sec" @@ "g" :> "disclosure"
MCKeyOf == "f" :> "k" @@ "g" :> "l"
MCPublished == "f" :> 2 @@ "g" :> 1

\* One process runs the release, another the one before.
MCKnownTo == "p" :> 12 @@ "q" :> 11
MCAutomatic == 1..12

MCParsed == "x" :> ("revenue" :> 1) @@ "y" :> ("revenue" :> 2 @@ "income" :> 1)
MCReported == << {"original"}, {"original", "restated"} >>

MCGradeOf == [d \in {"confirmed", "low"} |-> d]

MCUrlOf == "page" :> "u1" @@ "filing" :> "u2"

\* A filing of each of two companies.
MCOfficial == "f" :> "x" @@ "g" :> "y"

Interchangeable == Permutations({t1, t2})
=============================================================================
