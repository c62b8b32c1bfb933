--------------------------- MODULE MCWorkflowRuns ---------------------------
(* WorkflowRuns on a small instance. *)
EXTENDS WorkflowRuns
=============================================================================
