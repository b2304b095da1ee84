------------------------- MODULE LiveSignalsProofs -------------------------
(***************************************************************************)
(* Theorems about LiveSignals, for every set of keys, observations, threads*)
(* and crashes: its types, that an acknowledged observation is part of its *)
(* signal, and that its interleaved store calls implement SignalLog.       *)
(***************************************************************************)
EXTENDS LiveSignals, SequenceTheorems, TLAPS

\* The versions of a key only gain observations, and each has some.
Grown(s) == /\ \A i, j \in 1..Len(s) : i <= j => s[i].obs \subseteq s[j].obs
            /\ \A i \in 1..Len(s) : s[i].obs # {}

\* The version a new one was built on.
Base(m, vs) == IF m.base = 0 THEN Blank.new ELSE vs[m.key][m.base]

\* What a thread's local variables say at each point of its program.
Fits(label, m, seen, vs) ==
  /\ label \in {"save_observation", "latest", "save_signal", "save_assessment", "create_alert"}
       => m.key = KeyOf[m.obs]
  /\ label \in {"latest", "save_signal", "save_assessment", "create_alert"} => m.obs \in seen
  /\ label = "save_signal" =>
       /\ m.base <= Len(vs[m.key])
       /\ m.new.obs = Base(m, vs).obs \cup {m.obs} /\ m.new.state = Base(m, vs).state
  /\ label = "append" => m.base \in 1..Len(vs[m.key]) /\ m.new.obs = vs[m.key][m.base].obs
  /\ label \in {"save_assessment", "create_alert"} =>
       m.base + 1 <= Len(vs[m.key]) /\ m.obs \in vs[m.key][m.base + 1].obs
  /\ label = "copy" => m.base \in 1..(Len(vs[m.key]) - 1)

Growing == \A k \in Keys : Grown(versions[k])
Working == \A t \in Threads : Fits(pc[t], mem[t], observed, versions)

IInv == TypeOK /\ Growing /\ Working /\ ReturnedIsLinked

-----------------------------------------------------------------------------
(* Versions and what is built on them.                                     *)

LEMMA BlankFacts ==
  /\ Blank \in Locals /\ Blank.new \in Versions
  /\ Blank.new = [obs |-> {}, state |-> "signal_only", bridge |-> {}]
<1>1. PICK o \in Observations : TRUE
  BY DeliveryAssumption
<1>2. KeyOf[o] \in Keys
  BY DeliveryAssumption
<1>3. (CHOOSE k \in Keys : TRUE) \in Keys /\ (CHOOSE x \in Observations : TRUE) \in Observations
  BY <1>1, <1>2
<1> QED BY <1>3, StatesAssumption DEF Blank, Locals, Versions

\* What the store says of a key: no version, or the last one.
LEMMA LatestFacts ==
  ASSUME versions \in [Keys -> Seq(Versions)], NEW k \in Keys
  PROVE  /\ versions[k] \in Seq(Versions) /\ Len(versions[k]) \in Nat
         /\ \A v \in 1..Len(versions[k]) : versions[k][v] \in Versions
         /\ versions[k] = <<>> <=> Len(versions[k]) = 0
         /\ Latest(k) \in Versions
         /\ Latest(k) = IF Len(versions[k]) = 0 THEN Blank.new ELSE versions[k][Len(versions[k])]
<1>1. versions[k] \in Seq(Versions) /\ Len(versions[k]) \in Nat
  BY LenProperties
<1>2. \A v \in 1..Len(versions[k]) : versions[k][v] \in Versions
  BY <1>1, ElementOfSeq
<1>3. versions[k] = <<>> <=> Len(versions[k]) = 0
  BY <1>1, EmptySeq
<1>4. Latest(k) = IF Len(versions[k]) = 0 THEN Blank.new ELSE versions[k][Len(versions[k])]
  BY <1>3 DEF Latest, Last
<1>5. Latest(k) \in Versions
  BY <1>1, <1>2, <1>4, BlankFacts
<1> QED BY <1>1, <1>2, <1>3, <1>4, <1>5

LEMMA MergedFacts ==
  ASSUME NEW v \in Versions, NEW o \in Observations
  PROVE  /\ Merged(v, o) \in Versions
         /\ Merged(v, o).obs = v.obs \cup {o} /\ Merged(v, o).state = v.state
  BY DEF Merged, Versions

\* A version that links what its predecessor links may follow it.
LEMMA AppendedFacts ==
  ASSUME NEW s \in Seq(Versions), NEW new \in Versions, Grown(s), IsInjective(s),
         \A v \in 1..Len(s) : s[v] # new, new.obs # {},
         Len(s) # 0 => s[Len(s)].obs \subseteq new.obs
  PROVE  /\ Append(s, new) \in Seq(Versions) /\ Len(Append(s, new)) = Len(s) + 1
         /\ \A v \in 1..Len(s) : Append(s, new)[v] = s[v]
         /\ Append(s, new)[Len(s) + 1] = new
         /\ Grown(Append(s, new)) /\ IsInjective(Append(s, new))
<1> DEFINE a == Append(s, new)
<1>1. /\ a \in Seq(Versions) /\ Len(a) = Len(s) + 1
      /\ \A v \in 1..Len(s) : a[v] = s[v]
      /\ a[Len(s) + 1] = new
  BY AppendProperties
<1>2. Len(s) \in Nat /\ DOMAIN a = 1..Len(a) /\ DOMAIN s = 1..Len(s)
  BY <1>1, LenProperties
<1> HIDE DEF a
<1>3. ASSUME NEW i \in 1..Len(a), NEW j \in 1..Len(a), i <= j
      PROVE  a[i].obs \subseteq a[j].obs
  <2>1. CASE j \in 1..Len(s)
    BY <1>1, <1>2, <1>3, <2>1 DEF Grown
  <2>2. CASE j = Len(s) + 1 /\ i \in 1..Len(s)
    <3>1. s[i].obs \subseteq s[Len(s)].obs
      BY <1>2, <2>2 DEF Grown
    <3> QED BY <1>1, <1>2, <2>2, <3>1
  <2>3. CASE i = j
    BY <2>3
  <2> QED BY <1>1, <1>2, <1>3, <2>1, <2>2, <2>3
<1>4. \A i \in 1..Len(a) : a[i].obs # {}
  BY <1>1, <1>2 DEF Grown
<1>5. ASSUME NEW i \in DOMAIN a, NEW j \in DOMAIN a, a[i] = a[j]
      PROVE  i = j
  <2>1. CASE i \in 1..Len(s) /\ j \in 1..Len(s)
    BY <1>1, <1>2, <1>5, <2>1 DEF IsInjective
  <2>2. CASE i = Len(s) + 1 \/ j = Len(s) + 1
    BY <1>1, <1>2, <1>5, <2>2
  <2> QED BY <1>1, <1>2, <2>1, <2>2
<1>6. Grown(a) /\ IsInjective(a)
  BY <1>3, <1>4, <1>5 DEF Grown, IsInjective
<1> QED BY <1>1, <1>6 DEF a

\* No version is ever changed or taken back.
Extends(vs, longer) ==
  \A k \in Keys : /\ Len(vs[k]) <= Len(longer[k])
                  /\ \A v \in 1..Len(vs[k]) : longer[k][v] = vs[k][v]

LEMMA FitsStays ==
  ASSUME NEW vs \in [Keys -> Seq(Versions)], NEW longer \in [Keys -> Seq(Versions)],
         Extends(vs, longer), NEW seen, NEW more, seen \subseteq more,
         NEW m \in Locals, NEW label, Fits(label, m, seen, vs)
  PROVE  Fits(label, m, more, longer)
<1>1. m.key \in Keys /\ m.base \in Nat
  BY DEF Locals
<1>2. Len(vs[m.key]) \in Nat /\ Len(longer[m.key]) \in Nat
  BY <1>1, LenProperties
<1>3. /\ Len(vs[m.key]) <= Len(longer[m.key])
      /\ \A v \in 1..Len(vs[m.key]) : longer[m.key][v] = vs[m.key][v]
  BY <1>1 DEF Extends
<1>4. m.base <= Len(vs[m.key]) => Base(m, longer) = Base(m, vs)
  BY <1>1, <1>2, <1>3 DEF Base
<1> QED BY <1>1, <1>2, <1>3, <1>4 DEF Fits

LEMMA ExtendsItself == \A vs \in [Keys -> Seq(Versions)] : Extends(vs, vs)
<1>1. \A vs \in [Keys -> Seq(Versions)] : \A k \in Keys : Len(vs[k]) \in Nat
  BY LenProperties
<1> QED BY <1>1 DEF Extends

\* One thread moves; what the others hold still fits.
LEMMA ThreadStep ==
  ASSUME TypeOK, Working, NEW t \in Threads, NEW label \in PCs, NEW m \in Locals,
         Goto(t, label), Remember(t, m), observed \subseteq observed',
         versions' \in [Keys -> Seq(Versions)], Extends(versions, versions'),
         Fits(label, m, observed', versions')
  PROVE  Working' /\ pc' \in [Threads -> PCs] /\ mem' \in [Threads -> Locals]
<1>1. pc' = [pc EXCEPT ![t] = label] /\ mem' = [mem EXCEPT ![t] = m]
  BY DEF Goto, Remember
<1>2. pc' \in [Threads -> PCs] /\ mem' \in [Threads -> Locals]
  BY <1>1 DEF TypeOK
<1>3. ASSUME NEW u \in Threads
      PROVE  Fits(pc'[u], mem'[u], observed', versions')
  <2>1. CASE u = t
    BY <1>1, <2>1 DEF TypeOK
  <2>2. CASE u # t
    <3>1. pc'[u] = pc[u] /\ mem'[u] = mem[u] /\ mem[u] \in Locals
      BY <1>1, <2>2 DEF TypeOK
    <3>2. Fits(pc[u], mem[u], observed, versions) /\ versions \in [Keys -> Seq(Versions)]
      BY DEF TypeOK, Working
    <3> QED BY <3>1, <3>2, FitsStays
  <2> QED BY <2>1, <2>2
<1> QED BY <1>2, <1>3 DEF Working

LEMMA IdleFits == \A seen, vs : Fits("idle", Blank, seen, vs)
  BY DEF Fits

LEMMA NextLatest ==
  ASSUME versions' \in [Keys -> Seq(Versions)], NEW k \in Keys
  PROVE  /\ versions'[k] \in Seq(Versions) /\ Len(versions'[k]) \in Nat
         /\ Latest(k)' = IF Len(versions'[k]) = 0 THEN Blank.new
                         ELSE versions'[k][Len(versions'[k])]
<1>1. /\ versions'[k] \in Seq(Versions) /\ Len(versions'[k]) \in Nat
      /\ versions'[k] = <<>> <=> Len(versions'[k]) = 0
  BY LenProperties, EmptySeq
<1> QED BY <1>1 DEF Latest, Last

\* The version read last after a step that takes nothing back.
LEMMA LatestGrows ==
  ASSUME versions \in [Keys -> Seq(Versions)], versions' \in [Keys -> Seq(Versions)],
         Extends(versions, versions'), Growing', NEW k \in Keys
  PROVE  Latest(k).obs \subseteq Latest(k)'.obs
<1>1. Len(versions'[k]) \in Nat
  BY NextLatest
<1>2. Latest(k)' = IF Len(versions'[k]) = 0 THEN Blank.new ELSE versions'[k][Len(versions'[k])]
  BY NextLatest
<1>3. CASE Len(versions[k]) = 0
  BY <1>3, LatestFacts, BlankFacts
<1>4. CASE Len(versions[k]) # 0
  <2>1. /\ Len(versions[k]) \in Nat /\ Len(versions[k]) <= Len(versions'[k])
        /\ versions'[k][Len(versions[k])] = versions[k][Len(versions[k])]
    BY <1>4, LatestFacts DEF Extends
  <2>2. Latest(k) = versions[k][Len(versions[k])] /\ Latest(k)' = versions'[k][Len(versions'[k])]
    BY <1>1, <1>2, <1>4, <2>1, LatestFacts
  <2>3. Grown(versions'[k])
    BY DEF Growing
  <2> QED BY <1>1, <1>4, <2>1, <2>2, <2>3 DEF Grown
<1> QED BY <1>3, <1>4

-----------------------------------------------------------------------------
LEMMA InitIInv ==
  ASSUME Init
  PROVE  IInv
<1>1. <<>> \in Seq(Versions) /\ <<>> \in Seq(Verdicts) /\ <<>> \in Seq(Keys) /\ Len(<<>>) = 0
  BY EmptySeq
<1>2. TypeOK
  <2>1. IsInjective(<<>>)
    BY DEF IsInjective
  <2> QED BY <1>1, <2>1, BlankFacts, LimitsAssumption DEF Init, TypeOK, PCs
<1>3. Growing
  BY <1>1 DEF Init, Growing, Grown
<1>4. Working
  BY IdleFits DEF Init, Working
<1> QED BY <1>2, <1>3, <1>4 DEF Init, IInv, ReturnedIsLinked

\* A step of one thread that appends no version.
LEMMA QuietStep ==
  ASSUME IInv, NEW t \in Threads, NEW label \in PCs, NEW m \in Locals,
         Goto(t, label), Remember(t, m), Fits(label, m, observed', versions),
         UNCHANGED versions, observed \subseteq observed', observed' \subseteq Observations,
         assessed' \in [Keys -> Seq(Verdicts)],
         \A k \in Keys : Len(assessed'[k]) = Len(assessed[k]),
         alerts' \in Seq(Keys), IsInjective(alerts'), crashes' \in 0..MaxCrashes,
         \A o \in returned' : \/ o \in returned
                              \/ o \in observed' /\ o \in Latest(KeyOf[o]).obs
  PROVE  IInv'
<1>1. Extends(versions, versions')
  BY ExtendsItself DEF IInv, TypeOK
<1>2. Working' /\ pc' \in [Threads -> PCs] /\ mem' \in [Threads -> Locals]
  BY <1>1, ThreadStep DEF IInv, TypeOK
<1>3. ReturnedIsLinked'
  BY DEF IInv, ReturnedIsLinked, Latest
<1>4. returned' \subseteq Observations
  BY DEF IInv, TypeOK
<1>5. TypeOK'
  BY <1>2, <1>4 DEF IInv, TypeOK
<1> QED BY <1>2, <1>3, <1>5 DEF IInv, Growing

\* save_signal either appends the version or raises.
LEMMA AppendStep ==
  ASSUME IInv, NEW t \in Threads, NEW next \in PCs, AppendVersion(t, next),
         <<pc[t], next>> \in {<<"save_signal", "save_assessment">>, <<"append", "copy">>},
         UNCHANGED <<observed, alerts, returned, crashes>>
  PROVE  IInv'
<1> DEFINE m == mem[t]
<1> DEFINE k == m.key
<1>1. m \in Locals /\ k \in Keys /\ m.base \in Nat /\ m.new \in Versions /\ m.obs \in Observations
  BY DEF IInv, TypeOK, Locals
<1>2. Fits(pc[t], m, observed, versions) /\ Grown(versions[k]) /\ IsInjective(versions[k])
  BY <1>1 DEF IInv, TypeOK, Working, Growing
<1>3. /\ versions[k] \in Seq(Versions) /\ Len(versions[k]) \in Nat
      /\ assessed[k] \in Seq(Verdicts) /\ Len(assessed[k]) = Len(versions[k])
  BY <1>1, LenProperties DEF IInv, TypeOK
<1>4. CASE ~Free(k, m.base + 1, m.new)
  <2>1. Goto(t, "idle") /\ Remember(t, Blank) /\ UNCHANGED <<versions, assessed>>
    BY <1>4 DEF AppendVersion, Leave
  <2> QED BY <2>1, QuietStep, IdleFits, BlankFacts DEF IInv, TypeOK, PCs
<1>5. CASE Free(k, m.base + 1, m.new)
  <2>1. /\ versions' = [versions EXCEPT ![k] = Append(versions[k], m.new)]
        /\ assessed' = [assessed EXCEPT ![k] = Append(assessed[k], "none")]
        /\ Goto(t, next) /\ UNCHANGED mem
    BY <1>5 DEF AppendVersion
  <2>2. m.base = Len(versions[k]) /\ \A v \in 1..Len(versions[k]) : versions[k][v] # m.new
    BY <1>1, <1>3, <1>5 DEF Free
  <2>3. /\ m.new.obs # {} /\ (Len(versions[k]) # 0 => versions[k][Len(versions[k])].obs \subseteq m.new.obs)
        /\ pc[t] = "save_signal" => m.obs \in m.new.obs /\ m.key = KeyOf[m.obs] /\ m.obs \in observed
        /\ pc[t] = "append" => m.base # 0
    <3>1. CASE pc[t] = "save_signal"
      BY <1>2, <2>2, <3>1, BlankFacts DEF Fits, Base
    <3>2. CASE pc[t] = "append"
      BY <1>2, <1>3, <2>2, <3>2 DEF Fits, Grown
    <3> QED BY <3>1, <3>2
  <2>4. /\ versions'[k] \in Seq(Versions) /\ Len(versions'[k]) = Len(versions[k]) + 1
        /\ \A v \in 1..Len(versions[k]) : versions'[k][v] = versions[k][v]
        /\ versions'[k][Len(versions[k]) + 1] = m.new
        /\ Grown(versions'[k]) /\ IsInjective(versions'[k])
    BY <1>1, <1>2, <1>3, <2>1, <2>2, <2>3, AppendedFacts DEF IInv, TypeOK
  <2>5. versions' \in [Keys -> Seq(Versions)] /\ \A x \in Keys \ {k} : versions'[x] = versions[x]
    BY <1>1, <2>1, <2>4 DEF IInv, TypeOK
  <2>6. Extends(versions, versions')
    <3>1. \A x \in Keys : Len(versions[x]) \in Nat
      BY LenProperties DEF IInv, TypeOK
    <3> QED BY <2>4, <2>5, <3>1 DEF Extends
  <2>7. Growing'
    BY <2>4, <2>5 DEF IInv, Growing
  <2>8. Fits(next, m, observed', versions')
    BY <1>1, <1>2, <1>3, <2>2, <2>3, <2>4 DEF Fits
  <2>9. Working' /\ pc' \in [Threads -> PCs] /\ mem' \in [Threads -> Locals]
    <3>1. Remember(t, m)
      BY <2>1 DEF Remember, IInv, TypeOK
    <3> QED BY <1>1, <2>1, <2>5, <2>6, <2>8, <3>1, ThreadStep DEF IInv
  <2>10. /\ assessed' \in [Keys -> Seq(Verdicts)]
         /\ \A x \in Keys : Len(assessed'[x]) = Len(versions'[x]) /\ IsInjective(versions'[x])
    <3>1. "none" \in Verdicts
      BY DEF Verdicts
    <3>2. Append(assessed[k], "none") \in Seq(Verdicts) /\ Len(Append(assessed[k], "none")) = Len(assessed[k]) + 1
      BY <1>3, <3>1, AppendProperties
    <3>3. assessed' \in [Keys -> Seq(Verdicts)] /\ \A x \in Keys \ {k} : assessed'[x] = assessed[x]
      BY <1>1, <2>1, <3>2 DEF IInv, TypeOK
    <3>4. assessed'[k] = Append(assessed[k], "none")
      BY <1>1, <2>1 DEF IInv, TypeOK
    <3> QED BY <1>3, <2>4, <2>5, <3>2, <3>3, <3>4 DEF IInv, TypeOK
  <2>11. ReturnedIsLinked'
    <3>1. ASSUME NEW o \in returned
          PROVE  o \in observed' /\ o \in Latest(KeyOf[o])'.obs
      <4>1. o \in observed /\ o \in Latest(KeyOf[o]).obs /\ KeyOf[o] \in Keys
        BY DeliveryAssumption DEF IInv, TypeOK, ReturnedIsLinked
      <4>2. Latest(KeyOf[o]).obs \subseteq Latest(KeyOf[o])'.obs
        BY <2>5, <2>6, <2>7, <4>1, LatestGrows DEF IInv, TypeOK
      <4> QED BY <4>1, <4>2
    <3> QED BY <3>1 DEF ReturnedIsLinked
  <2>12. TypeOK'
    BY <2>5, <2>9, <2>10 DEF IInv, TypeOK
  <2> QED BY <2>7, <2>9, <2>11, <2>12 DEF IInv
<1> QED BY <1>4, <1>5

-----------------------------------------------------------------------------
(* The steps of the threads.                                               *)

\* save_assessment adds no row and leaves every version its own.
LEMMA AssessmentFacts ==
  ASSUME TypeOK, NEW k \in Keys, NEW n \in 1..Len(versions[k]), NEW verdict \in Verdicts,
         Assessment(k, n, verdict)
  PROVE  /\ assessed' \in [Keys -> Seq(Verdicts)]
         /\ \A x \in Keys : Len(assessed'[x]) = Len(assessed[x])
<1>1. assessed[k] \in Seq(Verdicts) /\ n \in 1..Len(assessed[k])
  BY DEF TypeOK
<1> DEFINE e == IF assessed[k][n] = "none" THEN verdict ELSE assessed[k][n]
<1> DEFINE s == [assessed[k] EXCEPT ![n] = e]
<1>2. e \in Verdicts
  BY <1>1, ElementOfSeq
<1>3. s \in Seq(Verdicts) /\ Len(s) = Len(assessed[k])
  BY <1>1, <1>2, ExceptSeq
<1>4. assessed' = [assessed EXCEPT ![k] = s]
  BY DEF Assessment
<1> HIDE DEF s
<1> QED BY <1>3, <1>4 DEF TypeOK

\* What the ingestion of an observation ends with.
LEMMA NewestHasIt ==
  ASSUME IInv, NEW t \in Threads, pc[t] \in {"save_assessment", "create_alert"}
  PROVE  mem[t].obs \in observed /\ mem[t].obs \in Latest(KeyOf[mem[t].obs]).obs
<1> DEFINE m == mem[t]
<1>1. m \in Locals /\ m.key \in Keys /\ m.base \in Nat
  BY DEF IInv, TypeOK, Locals
<1>2. Fits(pc[t], m, observed, versions) /\ Grown(versions[m.key])
  BY <1>1 DEF IInv, Working, Growing
<1>3. m.obs \in observed /\ m.key = KeyOf[m.obs]
  BY <1>2 DEF Fits
<1>4. Len(versions[m.key]) \in Nat /\ m.base + 1 \in 1..Len(versions[m.key])
  BY <1>1, <1>2, LatestFacts DEF Fits, IInv, TypeOK
<1>5. m.obs \in versions[m.key][Len(versions[m.key])].obs
  <2>1. m.obs \in versions[m.key][m.base + 1].obs
    BY <1>2 DEF Fits
  <2>2. versions[m.key][m.base + 1].obs \subseteq versions[m.key][Len(versions[m.key])].obs
    BY <1>2, <1>4 DEF Grown
  <2> QED BY <2>1, <2>2
<1> QED BY <1>1, <1>3, <1>4, <1>5, LatestFacts DEF IInv, TypeOK

LEMMA NewestLinks ==
  ASSUME IInv, NEW o \in Observations, Linked(o)
  PROVE  o \in Latest(KeyOf[o]).obs
<1> DEFINE k == KeyOf[o]
<1>1. k \in Keys /\ Len(versions[k]) \in Nat /\ Grown(versions[k])
  BY DeliveryAssumption, LatestFacts DEF IInv, TypeOK, Growing
<1>2. PICK v \in 1..Len(versions[k]) : o \in versions[k][v].obs
  BY DEF Linked
<1>3. o \in versions[k][Len(versions[k])].obs
  BY <1>1, <1>2 DEF Grown
<1> QED BY <1>1, <1>2, <1>3, LatestFacts DEF IInv, TypeOK

LEMMA ReceiveStep ==
  ASSUME IInv, NEW i \in Ingesters, NEW o \in Observations, Receive(i, o)
  PROVE  IInv'
<1>1. i \in Threads /\ pc[i] = "idle" /\ UNCHANGED <<observed, versions, assessed, alerts, crashes>>
  BY DEF Receive, Threads
<1>2. CASE o \in observed /\ Linked(o)
  <2>1. returned' = returned \cup {o} /\ UNCHANGED <<pc, mem>>
    BY <1>2 DEF Receive
  <2>2. o \in Latest(KeyOf[o]).obs
    BY <1>2, NewestLinks
  <2>3. ReturnedIsLinked' /\ Working' /\ Growing'
    BY <1>1, <1>2, <2>1, <2>2 DEF IInv, ReturnedIsLinked, Working, Growing, Latest
  <2> QED BY <1>1, <2>1, <2>3 DEF IInv, TypeOK
<1>3. CASE ~(o \in observed /\ Linked(o))
  <2> DEFINE m == [Blank EXCEPT !.key = KeyOf[o], !.obs = o]
  <2>1. Goto(i, "save_observation") /\ Remember(i, m) /\ UNCHANGED returned
    BY <1>3 DEF Receive
  <2>2. m \in Locals /\ m.key = KeyOf[o] /\ m.obs = o
    BY BlankFacts, DeliveryAssumption DEF Locals
  <2> HIDE DEF m
  <2>3. Fits("save_observation", m, observed', versions)
    BY <2>2 DEF Fits
  <2> QED BY <1>1, <2>1, <2>2, <2>3, QuietStep DEF IInv, TypeOK, PCs
<1> QED BY <1>2, <1>3

LEMMA SaveObservationStep ==
  ASSUME IInv, NEW i \in Ingesters, SaveObservation(i)
  PROVE  IInv'
<1>1. i \in Threads /\ pc[i] = "save_observation" /\ mem[i] \in Locals /\ mem[i].obs \in Observations
  BY DEF SaveObservation, Threads, IInv, TypeOK, Locals
<1>2. /\ observed' = observed \cup {mem[i].obs} /\ Goto(i, "latest") /\ Remember(i, mem[i])
      /\ UNCHANGED <<versions, assessed, alerts, returned, crashes>>
  BY <1>1 DEF SaveObservation, Remember, IInv, TypeOK
<1>3. Fits("latest", mem[i], observed', versions)
  BY <1>1, <1>2 DEF Fits, IInv, Working
<1> QED BY <1>1, <1>2, <1>3, QuietStep DEF IInv, TypeOK, PCs

LEMMA ReadLatestStep ==
  ASSUME IInv, NEW i \in Ingesters, ReadLatest(i)
  PROVE  IInv'
<1> DEFINE m == mem[i]
<1> DEFINE new == Merged(Latest(m.key), m.obs)
<1>1. i \in Threads /\ pc[i] = "latest" /\ UNCHANGED <<observed, versions, assessed, alerts, crashes>>
  BY DEF ReadLatest, Threads
<1>2. m \in Locals /\ m.key \in Keys /\ m.obs \in Observations /\ Latest(m.key) \in Versions
  BY <1>1, LatestFacts DEF IInv, TypeOK, Locals
<1>3. m.key = KeyOf[m.obs] /\ m.obs \in observed
  BY <1>1 DEF IInv, Working, Fits
<1>4. /\ new \in Versions
      /\ new.obs = Latest(m.key).obs \cup {m.obs} /\ new.state = Latest(m.key).state
  BY <1>2, MergedFacts
<1>5. CASE versions[m.key] # <<>> /\ new = Latest(m.key)
  <2>1. Goto(i, "idle") /\ Remember(i, Blank) /\ returned' = returned \cup {m.obs}
    BY <1>5 DEF ReadLatest, Leave
  <2>2. m.obs \in Latest(KeyOf[m.obs]).obs
    BY <1>3, <1>4, <1>5
  <2> QED BY <1>1, <1>3, <2>1, <2>2, QuietStep, IdleFits, BlankFacts DEF IInv, TypeOK, PCs
<1>6. CASE ~(versions[m.key] # <<>> /\ new = Latest(m.key))
  <2> DEFINE x == [m EXCEPT !.base = Len(versions[m.key]), !.new = new]
  <2>1. Goto(i, "save_signal") /\ Remember(i, x) /\ UNCHANGED returned
    BY <1>6 DEF ReadLatest
  <2>2. Len(versions[m.key]) \in Nat
    BY <1>2, LatestFacts DEF IInv, TypeOK
  <2>3. /\ x \in Locals /\ x.key = m.key /\ x.obs = m.obs /\ x.new = new
        /\ x.base = Len(versions[m.key])
    BY <1>2, <1>4, <2>2 DEF Locals
  <2> HIDE DEF x, new
  <2>4. Base(x, versions) = Latest(m.key)
    BY <1>2, <2>3, LatestFacts DEF Base, IInv, TypeOK
  <2>5. Fits("save_signal", x, observed', versions)
    BY <1>1, <1>3, <1>4, <2>2, <2>3, <2>4 DEF Fits
  <2> QED BY <1>1, <2>1, <2>3, <2>5, QuietStep DEF IInv, TypeOK, PCs
<1> QED BY <1>5, <1>6

LEMMA SaveSignalStep ==
  ASSUME IInv, NEW i \in Ingesters, SaveSignal(i)
  PROVE  IInv'
  BY AppendStep DEF SaveSignal, Threads, PCs

LEMMA AssessStep ==
  ASSUME IInv, NEW i \in Ingesters, NEW verdict \in {"quiet", "alert"}, Assess(i, verdict)
  PROVE  IInv'
<1> DEFINE m == mem[i]
<1>1. /\ i \in Threads /\ pc[i] = "save_assessment" /\ verdict \in Verdicts
      /\ Assessment(m.key, m.base + 1, verdict) /\ UNCHANGED <<observed, versions, alerts, crashes>>
  BY DEF Assess, Threads, Verdicts
<1>2. m \in Locals /\ m.key \in Keys /\ m.base \in Nat
  BY <1>1 DEF IInv, TypeOK, Locals
<1>3. Fits("save_assessment", m, observed, versions)
  BY <1>1 DEF IInv, Working
<1>4. m.base + 1 \in 1..Len(versions[m.key])
  BY <1>2, <1>3, LatestFacts DEF Fits, IInv, TypeOK
<1>5. assessed' \in [Keys -> Seq(Verdicts)] /\ \A k \in Keys : Len(assessed'[k]) = Len(assessed[k])
  BY <1>1, <1>2, <1>4, AssessmentFacts DEF IInv
<1>6. CASE verdict = "alert"
  <2>1. Goto(i, "create_alert") /\ Remember(i, m) /\ UNCHANGED returned
    BY <1>1, <1>6 DEF Assess, Remember, IInv, TypeOK
  <2>2. Fits("create_alert", m, observed', versions)
    BY <1>1, <1>3 DEF Fits
  <2> QED BY <1>1, <1>2, <1>5, <2>1, <2>2, QuietStep DEF IInv, TypeOK, PCs
<1>7. CASE verdict # "alert"
  <2>1. Goto(i, "idle") /\ Remember(i, Blank) /\ returned' = returned \cup {m.obs}
    BY <1>7 DEF Assess, Leave
  <2> QED BY <1>1, <1>5, <2>1, NewestHasIt, QuietStep, IdleFits, BlankFacts DEF IInv, TypeOK, PCs
<1> QED BY <1>6, <1>7

LEMMA CreateAlertStep ==
  ASSUME IInv, NEW i \in Ingesters, CreateAlert(i)
  PROVE  IInv'
<1> DEFINE k == mem[i].key
<1>1. /\ i \in Threads /\ pc[i] = "create_alert" /\ k \in Keys
      /\ alerts' = IF Contains(alerts, k) THEN alerts ELSE Append(alerts, k)
      /\ returned' = returned \cup {mem[i].obs}
      /\ Goto(i, "idle") /\ Remember(i, Blank)
      /\ UNCHANGED <<observed, versions, assessed, crashes>>
  BY DEF CreateAlert, Leave, Threads, IInv, TypeOK, Locals
<1>2. alerts' \in Seq(Keys) /\ IsInjective(alerts')
  <2>1. CASE Contains(alerts, k)
    BY <1>1, <2>1 DEF IInv, TypeOK
  <2>2. CASE ~Contains(alerts, k)
    <3>1. /\ alerts \in Seq(Keys) /\ alerts' = Append(alerts, k) /\ IsInjective(alerts)
          /\ Len(alerts) \in Nat /\ DOMAIN alerts = 1..Len(alerts)
          /\ \A n \in 1..Len(alerts) : alerts[n] # k
      BY <1>1, <2>2, LenProperties DEF IInv, TypeOK, Contains
    <3>2. /\ alerts' \in Seq(Keys) /\ Len(alerts') = Len(alerts) + 1
          /\ \A n \in 1..Len(alerts) : alerts'[n] = alerts[n]
          /\ alerts'[Len(alerts) + 1] = k
      BY <1>1, <3>1, AppendProperties
    <3>3. DOMAIN alerts' = 1..(Len(alerts) + 1)
      BY <3>2, LenProperties
    <3> QED BY <3>1, <3>2, <3>3 DEF IsInjective
  <2> QED BY <2>1, <2>2
<1> QED BY <1>1, <1>2, NewestHasIt, QuietStep, IdleFits, BlankFacts DEF IInv, TypeOK, PCs

LEMMA TransitionStep ==
  ASSUME IInv, NEW b \in Bridges, NEW k \in Keys, NEW d \in Decisions, Transition(b, k, d)
  PROVE  IInv'
<1> DEFINE new == [Latest(k) EXCEPT !.state = StateOf[d], !.bridge = @ \cup {d}]
<1> DEFINE m == [Blank EXCEPT !.key = k, !.base = Len(versions[k]), !.new = new]
<1>1. /\ b \in Threads /\ Goto(b, "append") /\ Remember(b, m)
      /\ Len(versions[k]) \in 1..(MaxVersions - 1)
      /\ UNCHANGED <<observed, versions, assessed, alerts, returned, crashes>>
  BY DEF Transition, Threads
<1>2. Latest(k) = versions[k][Len(versions[k])] /\ Latest(k) \in Versions /\ Len(versions[k]) \in Nat
  BY <1>1, LatestFacts DEF IInv, TypeOK
<1>3. new \in Versions /\ new.obs = Latest(k).obs
  BY <1>2, StatesAssumption DEF Versions
<1> HIDE DEF new
<1>4. m \in Locals /\ m.key = k /\ m.base = Len(versions[k]) /\ m.new = new
  BY <1>2, <1>3, BlankFacts DEF Locals
<1> HIDE DEF m
<1>5. Fits("append", m, observed', versions)
  BY <1>1, <1>2, <1>3, <1>4 DEF Fits
<1> QED BY <1>1, <1>4, <1>5, QuietStep DEF IInv, TypeOK, PCs

LEMMA AppendStateStep ==
  ASSUME IInv, NEW b \in Bridges, AppendState(b)
  PROVE  IInv'
  BY AppendStep DEF AppendState, Threads, PCs

LEMMA CopyAssessmentStep ==
  ASSUME IInv, NEW b \in Bridges, CopyAssessment(b)
  PROVE  IInv'
<1> DEFINE m == mem[b]
<1> DEFINE verdict == assessed[m.key][m.base]
<1>1. /\ b \in Threads /\ pc[b] = "copy" /\ Goto(b, "idle") /\ Remember(b, Blank)
      /\ Assessment(m.key, m.base + 1, verdict)
      /\ UNCHANGED <<observed, versions, alerts, returned, crashes>>
  BY DEF CopyAssessment, Leave, Threads
<1>2. m.key \in Keys /\ m.base \in Nat
  BY <1>1 DEF IInv, TypeOK, Locals
<1>3. Fits("copy", m, observed, versions) /\ Len(versions[m.key]) \in Nat
  BY <1>1, <1>2, LatestFacts DEF IInv, TypeOK, Working
<1>4. m.base \in 1..Len(assessed[m.key]) /\ m.base + 1 \in 1..Len(versions[m.key])
  BY <1>2, <1>3 DEF Fits, IInv, TypeOK
<1>5. verdict \in Verdicts
  BY <1>2, <1>4, ElementOfSeq DEF IInv, TypeOK
<1> HIDE DEF verdict
<1>6. assessed' \in [Keys -> Seq(Verdicts)] /\ \A k \in Keys : Len(assessed'[k]) = Len(assessed[k])
  BY <1>1, <1>2, <1>4, <1>5, AssessmentFacts DEF IInv
<1> QED BY <1>1, <1>6, QuietStep, IdleFits, BlankFacts DEF IInv, TypeOK, PCs

LEMMA CrashStep ==
  ASSUME IInv, NEW t \in Threads, Crash(t)
  PROVE  IInv'
<1>1. /\ Goto(t, "idle") /\ Remember(t, Blank) /\ crashes' \in 0..MaxCrashes
      /\ UNCHANGED <<observed, versions, assessed, alerts, returned>>
  BY LimitsAssumption DEF Crash, Leave, IInv, TypeOK
<1> QED BY <1>1, QuietStep, IdleFits, BlankFacts DEF IInv, TypeOK, PCs

LEMMA NextIInv ==
  ASSUME IInv, [Next]_vars
  PROVE  IInv'
<1>1. CASE UNCHANGED vars
  BY <1>1 DEF vars, IInv, TypeOK, Growing, Working, ReturnedIsLinked, Latest
<1>2. ASSUME NEW i \in Ingesters, Ingest(i)
      PROVE  IInv'
  BY <1>2, SaveObservationStep, ReadLatestStep, SaveSignalStep, AssessStep, CreateAlertStep DEF Ingest
<1>3. ASSUME NEW b \in Bridges, Reclassify(b)
      PROVE  IInv'
  BY <1>3, AppendStateStep, CopyAssessmentStep DEF Reclassify
<1> QED BY <1>1, <1>2, <1>3, ReceiveStep, TransitionStep, CrashStep DEF Next

-----------------------------------------------------------------------------
LEMMA Invariance == Spec => []IInv
  BY InitIInv, NextIInv, PTL DEF Spec

\* Rows have their types and unique keys: no two versions of a key are alike,
\* every version has the slot of its assessment, a key is alerted once.
THEOREM SignalsTypeCorrect == Spec => []TypeOK
<1>1. IInv => TypeOK
  BY DEF IInv
<1> QED BY <1>1, Invariance, PTL

\* However many channels and bridge threads race and crash: an observation
\* whose ingestion returned is linked by the version read last.
THEOREM ReturnedLinked == Spec => []ReturnedIsLinked
<1>1. IInv => ReturnedIsLinked
  BY DEF IInv
<1> QED BY <1>1, Invariance, PTL

-----------------------------------------------------------------------------
(* The signal log.                                                         *)

\* The signal the log shows of a key.
Shown(k) == [obs |-> Latest(k).obs, state |-> Latest(k).state]

\* Without a new version, and without an alert, the log does not move.
LEMMA Unmoved ==
  ASSUME UNCHANGED <<versions, alerts>>
  PROVE  UNCHANGED Log!vars
  BY DEF Log!vars, Latest

\* The version appended is one atomic update of the signal: an observation
\* joins it, or the bridge moves it to another state.
LEMMA AppendMaps ==
  ASSUME IInv, NEW t \in Threads, NEW next \in PCs, AppendVersion(t, next),
         pc[t] \in {"save_signal", "append"}, UNCHANGED alerts
  PROVE  [Log!Next]_(Log!vars)
<1>4. mem[t] \in Locals /\ mem[t].key \in Keys
  BY DEF IInv, TypeOK, Locals
<1> PICK m \in Locals : m = mem[t]
  BY <1>4
<1> PICK k \in Keys : k = m.key
  BY <1>4
<1> DEFINE signal == [x \in Keys |-> [obs |-> Latest(x).obs, state |-> Latest(x).state]]
<1>1. m \in Locals /\ k \in Keys /\ m.base \in Nat /\ m.new \in Versions /\ m.obs \in Observations
  BY DEF IInv, TypeOK, Locals
<1>2. CASE ~Free(k, m.base + 1, m.new)
  BY <1>2, Unmoved DEF AppendVersion
<1>3. CASE Free(k, m.base + 1, m.new)
  <2>1. versions' = [versions EXCEPT ![k] = Append(versions[k], m.new)]
    BY <1>3 DEF AppendVersion
  <2>2. versions[k] \in Seq(Versions) /\ Len(versions[k]) \in Nat /\ m.base = Len(versions[k])
    <3>1. versions[k] \in Seq(Versions) /\ Len(versions[k]) \in Nat
      BY LatestFacts DEF IInv, TypeOK
    <3> QED BY <1>1, <1>3, <3>1 DEF Free
  <2>3. Latest(k)' = m.new
    <3>1. versions'[k] = Append(versions[k], m.new)
      BY <1>1, <2>1 DEF IInv, TypeOK
    <3>2. /\ versions'[k] \in Seq(Versions) /\ Len(versions'[k]) = Len(versions[k]) + 1
          /\ versions'[k][Len(versions[k]) + 1] = m.new
      BY <1>1, <2>2, <3>1, AppendProperties
    <3>3. versions' \in [Keys -> Seq(Versions)]
      BY <1>1, <2>1, <3>1, <3>2 DEF IInv, TypeOK
    <3>4. Latest(k)' = versions'[k][Len(versions'[k])]
      BY <1>1, <2>2, <3>2, <3>3, NextLatest
    <3> QED BY <3>2, <3>4
  <2>4. \A x \in Keys \ {k} : Latest(x)' = Latest(x)
    BY <1>1, <2>1 DEF Latest, IInv, TypeOK
  <2>5. /\ signal \in [Keys -> [obs : SUBSET Observations, state : VerificationStates]]
        /\ \A x \in Keys : signal[x] = Shown(x)
    BY LatestFacts DEF Versions, IInv, TypeOK, Shown
  <2>6. m.new.obs \subseteq Observations /\ m.new.state \in VerificationStates
    BY <1>1 DEF Versions
  <2>7. signal' = [x \in Keys |-> IF x = k THEN [obs |-> m.new.obs, state |-> m.new.state] ELSE signal[x]]
    <3>1. signal' = [x \in Keys |-> [obs |-> Latest(x)'.obs, state |-> Latest(x)'.state]]
      OBVIOUS
    <3>2. \A x \in Keys : Latest(x)' = IF x = k THEN m.new ELSE Latest(x)
      BY <2>3, <2>4
    <3> QED BY <3>1, <3>2
  <2>8. CASE pc[t] = "save_signal"
    <3>1. m.new.obs = Latest(k).obs \cup {m.obs} /\ m.new.state = Latest(k).state
      <4>1. m.new.obs = Base(m, versions).obs \cup {m.obs} /\ m.new.state = Base(m, versions).state
        BY <2>8 DEF IInv, Working, Fits
      <4>2. Base(m, versions) = Latest(k)
        BY <1>1, <2>2, LatestFacts DEF IInv, TypeOK, Base
      <4> QED BY <4>1, <4>2
    <3>2. signal' = [signal EXCEPT ![k].obs = signal[k].obs \cup {m.obs}]
      BY <1>1, <2>5, <2>7, <3>1 DEF Shown
    <3>3. Log!Observe(k)
      BY <1>1, <3>2 DEF Log!Observe
    <3> QED BY <1>1, <3>3 DEF Log!Next
  <2>9. CASE pc[t] = "append"
    <3>1. Len(versions[k]) # 0 /\ m.new.obs = Latest(k).obs
      <4>1. m.base \in 1..Len(versions[k]) /\ m.new.obs = versions[k][m.base].obs
        BY <2>9 DEF IInv, Working, Fits
      <4>2. Len(versions[k]) # 0
        BY <2>2, <4>1
      <4>3. Latest(k) = versions[k][m.base]
        BY <1>1, <2>2, <4>2, LatestFacts DEF IInv, TypeOK
      <4> QED BY <4>1, <4>2, <4>3
    <3>2. Latest(k).obs # {}
      <4>1. Grown(versions[k]) /\ Len(versions[k]) \in 1..Len(versions[k])
        BY <1>1, <2>2, <3>1 DEF IInv, Growing
      <4>2. versions[k][Len(versions[k])].obs # {}
        BY <4>1 DEF Grown
      <4>3. Latest(k) = versions[k][Len(versions[k])]
        BY <1>1, <3>1, LatestFacts DEF IInv, TypeOK
      <4> QED BY <4>2, <4>3
    <3>3. signal' = [signal EXCEPT ![k].state = m.new.state]
      BY <1>1, <2>5, <2>7, <3>1 DEF Shown
    <3>4. signal[k].obs # {}
      BY <1>1, <2>5, <3>2 DEF Shown
    <3>5. Log!Decide(k)
      BY <2>6, <3>3, <3>4 DEF Log!Decide
    <3> QED BY <1>1, <3>5 DEF Log!Next
  <2> QED BY <2>8, <2>9
<1> QED BY <1>2, <1>3

\* A new alert is the first of a key that has observations.
LEMMA CreateAlertMaps ==
  ASSUME IInv, NEW i \in Ingesters, CreateAlert(i)
  PROVE  [Log!Next]_(Log!vars)
<1> DEFINE k == mem[i].key
<1>1. i \in Threads /\ pc[i] = "create_alert" /\ k \in Keys /\ UNCHANGED versions
  BY DEF CreateAlert, Threads, IInv, TypeOK, Locals
<1>2. CASE Contains(alerts, k)
  BY <1>1, <1>2, Unmoved DEF CreateAlert
<1>3. CASE ~Contains(alerts, k)
  <2>1. Latest(k).obs # {}
    BY <1>1, NewestHasIt DEF IInv, Working, Fits
  <2>2. Log!Alert(k)
    BY <1>1, <1>3, <2>1 DEF CreateAlert, Log!Alert, Latest, Contains, Log!Contains
  <2> QED BY <1>1, <2>2 DEF Log!Next
<1> QED BY <1>2, <1>3

LEMMA NextMaps ==
  ASSUME IInv, [Next]_vars
  PROVE  [Log!Next]_(Log!vars)
<1>1. CASE UNCHANGED vars
  BY <1>1, Unmoved DEF vars
<1>2. ASSUME NEW i \in Ingesters, Ingest(i)
      PROVE  [Log!Next]_(Log!vars)
  <2>1. CASE SaveObservation(i) \/ ReadLatest(i) \/ \E verdict \in {"quiet", "alert"} : Assess(i, verdict)
    BY <2>1, Unmoved DEF SaveObservation, ReadLatest, Assess
  <2>2. CASE SaveSignal(i)
    BY <2>2, AppendMaps DEF SaveSignal, Threads, PCs
  <2>3. CASE CreateAlert(i)
    BY <2>3, CreateAlertMaps
  <2> QED BY <1>2, <2>1, <2>2, <2>3 DEF Ingest
<1>3. ASSUME NEW b \in Bridges, Reclassify(b)
      PROVE  [Log!Next]_(Log!vars)
  <2>1. CASE AppendState(b)
    BY <2>1, AppendMaps DEF AppendState, Threads, PCs
  <2>2. CASE CopyAssessment(b)
    BY <2>2, Unmoved DEF CopyAssessment
  <2> QED BY <1>3, <2>1, <2>2 DEF Reclassify
<1>4. ASSUME NEW i \in Ingesters, NEW o \in Observations, Receive(i, o)
      PROVE  [Log!Next]_(Log!vars)
  BY <1>4, Unmoved DEF Receive
<1>5. ASSUME NEW b \in Bridges, NEW k \in Keys, NEW d \in Decisions, Transition(b, k, d)
      PROVE  [Log!Next]_(Log!vars)
  BY <1>5, Unmoved DEF Transition
<1>6. ASSUME NEW t \in Threads, Crash(t)
      PROVE  [Log!Next]_(Log!vars)
  BY <1>6, Unmoved DEF Crash
<1> QED BY <1>1, <1>2, <1>3, <1>4, <1>5, <1>6 DEF Next

\* Separate store calls of racing, crashing threads amount to atomic updates:
\* no observation is lost, no decision of the bridge undone, no key alerted
\* twice.
THEOREM SignalsImplementLog == Spec => ImplementsLog
<1>1. Init => Log!Init
  BY BlankFacts DEF Init, Log!Init, Latest
<1>2. IInv /\ [Next]_vars => [Log!Next]_(Log!vars)
  BY NextMaps
<1> QED BY <1>1, <1>2, Invariance, PTL DEF Spec, ImplementsLog, Log!Spec
=============================================================================
