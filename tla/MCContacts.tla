----------------------------- MODULE MCContacts -----------------------------
(* Contacts on a small instance.  The slots are alike, and so are the fields. *)
EXTENDS Contacts, TLC

Alike == Permutations(Slots) \cup Permutations(Fields) \cup Permutations(Names)
=============================================================================
