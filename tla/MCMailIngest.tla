---------------------------- MODULE MCMailIngest ----------------------------
(* MailIngest on a small instance. *)
EXTENDS MailIngest
=============================================================================
