------------------------------- MODULE MCDrive -------------------------------
(* Drive on a small instance.  Once one of the two named races has happened *)
(* the run does not go on from there.  Time passes only while something in  *)
(* the trash, or about to be restored, is of the second before: without one *)
(* a later state is like an earlier one.  The last id is for a copy that    *)
(* has made a row already, and the last event for the undoing of a copy.    *)
(* No event touches the tree, so two moves are open together only before.   *)
EXTENDS Drive

BeforeRaces == ~knot /\ ~surge
TimeTells ==
    now > 0 => \/ \E n \in Trashed : node[n].at < now
               \/ \E r \in reqs : r.op = "restore" /\ r.marker < now
CopiedByNow(r) ==
    /\ r.op \in {"copy", "undo"} /\ r.made # {}
    /\ N \in Rows => N \in r.made
    /\ \A q \in reqs : q.op = "upload" => q.id # N
MovesFirst ==
    Cardinality(reqs) = 2 /\ (\A r \in reqs : r.op = "move") => events = 0
LastIdCopied == next = N + 1 => \E r \in reqs : CopiedByNow(r)
LastEventUndoes == events = MaxEvents => \E r \in reqs : r.op = "undo" /\ r.made # {}
=============================================================================
