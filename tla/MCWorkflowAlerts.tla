-------------------------- MODULE MCWorkflowAlerts --------------------------
(* Small instances of WorkflowAlerts for TLC. *)
EXTENDS WorkflowAlerts, TLC

\* Nothing tells two workers apart, nor two sets of provider runs.
Symmetric == Permutations(Workers) \cup Permutations(Evidence)
=============================================================================
