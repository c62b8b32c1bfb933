------------------------------- MODULE MCChat -------------------------------
(* Chat on a small instance.  The two rooms are alike, so the one that is    *)
(* busy may be either; the other exists to be opened at the same time.       *)
EXTENDS Chat, TLC

Alike == Permutations(Rooms)

\* Bounds of the run.  Rooms are opened before anyone writes or watches, and then
\* there is one; the stream is watched in a group the others opened and write to.
\* One user sets read marks that are not their own, and nobody does while the
\* stream is watched.  Connections break and the server dies while it is watched,
\* and the last failure there may be is that of a page.
OwnMark(r, u) ==
    LET n == room[r].read[u] IN n = 0 \/ \E i \in InRoom(r) : msgs[i].by = u /\ msgs[i].seq = n

StrangeMarks == {p \in Rooms \X Users : ~OwnMark(p[1], p[2])}

OneBusyRoom ==
    /\ Cardinality(StrangeMarks) <= 1
    /\ breaks > 0 => start >= 0
    /\ breaks = MaxBreaks => conn.st # "off"
    /\ (msgs # <<>> \/ start >= 0 \/ \E q \in reqs : q.op = "send") =>
         /\ Cardinality({r \in Rooms : room[r].kind # "none"}) <= 1
         /\ \A q \in reqs : q.op # "direct"
    /\ start >= 0 =>
         /\ \A q \in reqs : q.user # Watcher
         /\ \A i \in DOMAIN msgs : msgs[i].by # Watcher
         /\ \A r \in Rooms : room[r].kind # "direct" /\ participantRole(Watcher, r) # "owner"
         /\ StrangeMarks = {}
=============================================================================
