------------------------------ MODULE MCAIRuns ------------------------------
(* AIRuns on a small instance. *)
EXTENDS AIRuns
=============================================================================
