------------------------------- MODULE ChatLog -------------------------------
(***************************************************************************)
(* What a chat room promises (internal/chat): one log per room that only   *)
(* grows, written by people who are or were in the room, whose entries     *)
(* only their authors take away, and for every member a read mark that     *)
(* only grows while they stay: it covers what they post, and may be set    *)
(* beyond the end of the log.  Module Chat implements it.                  *)
(***************************************************************************)
EXTENDS Naturals, Sequences

CONSTANTS Users, Rooms

VARIABLES
    log,        \* per room, what was posted: by whom, its number, whether it shows
    members,    \* per room, who is in it
    past,       \* per room, who has ever been in it
    read        \* per room and user, how far the user has read

logVars == <<log, members, past, read>>

LogInit ==
    /\ log = [r \in Rooms |-> <<>>]
    /\ members = [r \in Rooms |-> {}] /\ past = members
    /\ read = [r \in Rooms |-> [u \in Users |-> 0]]

\* A room is opened once, for at least two people.
OpenRoom(r, us) ==
    /\ past[r] = {} /\ us \subseteq Users /\ \E u, v \in us : u # v
    /\ members' = [members EXCEPT ![r] = us] /\ past' = [past EXCEPT ![r] = us]
    /\ UNCHANGED <<log, read>>

\* An author has read what they post.
Post(r, u) ==
    /\ u \in past[r] /\ UNCHANGED <<members, past>>
    /\ log' = [log EXCEPT ![r] = Append(@, [by |-> u, no |-> Len(@) + 1, shown |-> TRUE])]
    /\ read' = [read EXCEPT ![r][u] =
                    IF u \in members[r] /\ @ < Len(log'[r]) THEN Len(log'[r]) ELSE @]

Erase(r, i) ==
    /\ i \in DOMAIN log[r] /\ log[r][i].shown /\ log[r][i].by \in members[r]
    /\ log' = [log EXCEPT ![r][i].shown = FALSE]
    /\ UNCHANGED <<members, past, read>>

\* The member names the number, there or not.
Mark(r, u) ==
    /\ u \in members[r] /\ read'[r][u] \in Nat /\ read[r][u] <= read'[r][u]
    /\ read' = [read EXCEPT ![r][u] = read'[r][u]]
    /\ UNCHANGED <<log, members, past>>

LeaveLog(r, u) ==
    /\ u \in members[r]
    /\ members' = [members EXCEPT ![r] = @ \ {u}]
    /\ read' = [read EXCEPT ![r][u] = 0]
    /\ UNCHANGED <<log, past>>

LogNext ==
    /\ logVars' # logVars
    /\ \E r \in Rooms :
        \/ \E us \in SUBSET Users : OpenRoom(r, us)
        \/ \E u \in Users : Post(r, u) \/ LeaveLog(r, u)
        \/ \E i \in DOMAIN log[r] : Erase(r, i)
        \/ \E u \in Users : Mark(r, u)

LogSpec == LogInit /\ [][LogNext]_logVars
=============================================================================
