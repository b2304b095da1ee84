----------------------------- MODULE SignalLog -----------------------------
(***************************************************************************)
(* What the live gateway promises of a canonical signal, whatever threads  *)
(* deliver to it at once (docs/LIVE_EVENTS.md, docs/ARCHITECTURE.md): a    *)
(* signal only gains observations, its verification state changes only by  *)
(* a decision of the research bridge, neither change ever undoes the       *)
(* other, and it is alerted at most once, after something was observed.    *)
(* LiveSignals implements it.                                              *)
(***************************************************************************)
EXTENDS Sequences, SequencesExt

CONSTANTS Keys, Observations, VerificationStates

VARIABLES
  signal,   \* per key: the observations and the verification state
  alerts    \* the keys alerted, in the order of their alert ids

vars == <<signal, alerts>>

Init == /\ signal = [k \in Keys |-> [obs |-> {}, state |-> "signal_only"]]
        /\ alerts = <<>>

\* An observation joins its signal.
Observe(k) == /\ \E o \in Observations :
                   signal' = [signal EXCEPT ![k].obs = @ \cup {o}]
              /\ UNCHANGED alerts

\* The research bridge moves an existing signal to another state.
Decide(k) == /\ signal[k].obs # {}
             /\ \E state \in VerificationStates :
                  signal' = [signal EXCEPT ![k].state = state]
             /\ UNCHANGED alerts

\* The first alert of a signal.
Alert(k) == /\ signal[k].obs # {} /\ ~Contains(alerts, k)
            /\ alerts' = Append(alerts, k)
            /\ UNCHANGED signal

Next == \E k \in Keys : Observe(k) \/ Decide(k) \/ Alert(k)

Spec == Init /\ [][Next]_vars
=============================================================================
