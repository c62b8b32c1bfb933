----------------------------- MODULE MCAccounts -----------------------------
(* Accounts on a small instance.  The slots are alike, and the passwords.  A *)
(* run is followed while requests, crashes and sessions that are over make   *)
(* three together; the third request changes a password or the policy.       *)
EXTENDS Accounts

Alike == Permutations(Slots) \cup Permutations(Passwords)
ShortRuns ==
    /\ used.requests + used.crashes + Cardinality({s \in Sessions : session[s].st = "over"}) <= 3
    /\ used.requests = 3 => \A q \in Slots : req[q] = Idle \/ req[q].op \in {"own", "reset", "policy"}
=============================================================================
