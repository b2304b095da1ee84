------------------------ MODULE MCWorkflowExecutor ------------------------
(***************************************************************************)
(* Instances of WorkflowExecutor for TLC.  Executions and clients are      *)
(* interchangeable: nothing orders them.                                   *)
(***************************************************************************)
EXTENDS WorkflowExecutor, TLC

\* Spec under this constraint is SerialSpec, with its actions told apart.
OneCaller == AtMostOneBusy'

Interchangeable == Permutations(Executors) \cup Permutations(Clients)
===========================================================================
