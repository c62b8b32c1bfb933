-------------------------- MODULE MCWorkflowStore --------------------------
(* WorkflowStore on a small instance. *)
EXTENDS WorkflowStore, TLC

\* Requests are interchangeable.
Symmetry == Permutations(Clients)
=============================================================================
