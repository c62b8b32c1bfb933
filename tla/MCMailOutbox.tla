---------------------------- MODULE MCMailOutbox ----------------------------
(* MailOutbox on a small instance. *)
EXTENDS MailOutbox
=============================================================================
