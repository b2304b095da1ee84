--------------------------- MODULE RunLifecycle ---------------------------
(***************************************************************************)
(* What a research run promises, whatever goes wrong inside an execution:  *)
(* the lifecycle of docs/ARCHITECTURE.md ("Runtime lifecycle"),            *)
(*                                                                         *)
(*     created -> running -> needs_review                                  *)
(*                       \-> failed -> resume -> running                   *)
(*                                                                         *)
(* over the set of stages already completed.  Stages complete one at a     *)
(* time, in pipeline order, only while the run is running, and a completed *)
(* stage stays completed.  WorkflowExecutor implements it.                 *)
(***************************************************************************)
EXTENDS Integers

CONSTANT N          \* the number of stages in the pipeline

VARIABLES status,   \* created, running, needs_review, failed, or absent
          done      \* the completed stages

vars == <<status, done>>

Init == status = "created" /\ done = {}

\* Execute or resume: from any state of a run that still exists.
Run == /\ status # "absent"
       /\ status' = "running"
       /\ UNCHANGED done

\* The next stage in pipeline order completes.
Complete == /\ status = "running"
            /\ \E s \in 1..N : /\ s \notin done
                               /\ \A t \in 1..N : t < s => t \in done
                               /\ done' = done \cup {s}
            /\ UNCHANGED status

\* A run pauses for review only with progress to review.
Pause == /\ status = "running"
         /\ 1 \in done
         /\ status' = "needs_review"
         /\ UNCHANGED done

\* A failed stage, or an exception of a background execution.
Fail == /\ status # "absent"
        /\ status' = "failed"
        /\ UNCHANGED done

\* Only a run nobody has started is ever deleted.
Delete == /\ status = "created"
          /\ done = {}
          /\ status' = "absent"
          /\ UNCHANGED done

Next == Run \/ Complete \/ Pause \/ Fail \/ Delete

Spec == Init /\ [][Next]_vars
===========================================================================
