-------------------------------- MODULE Chat --------------------------------
(***************************************************************************)
(* The chat (internal/chat): rooms and messages (repository.go), the       *)
(* events that tell members about them (service.go, hub.go) and the event  *)
(* stream of one watching client (handler.go, web/src/lib/chat.ts), which  *)
(* reconnects with a cursor and gets what it missed replayed.              *)
(*                                                                         *)
(* A message is named by its rowid, its index in msgs.  A statement or a   *)
(* transaction is one step; a request between two of its steps is in reqs. *)
(* The Publish of a new message is a step of its own, that of every other  *)
(* event is taken together with its write: no property tells their order   *)
(* apart.  got is what the stream has delivered as message.created; the    *)
(* lists the page also loads over REST are left out.                       *)
(*                                                                         *)
(* Bounds: MaxMsgs messages, MaxReqs requests at a time, MaxTime seconds   *)
(* of the clock, MaxBreaks broken connections, restarts and failed replay  *)
(* pages, Marks the read marks clients ask for, one of them beyond every   *)
(* message.  BufSize is subscriberBufferSize (128), PageSize the replay    *)
(* page (200) and ReplayMax the cap of one connection (2000).              *)
(***************************************************************************)
EXTENDS Integers, Sequences, FiniteSets

CONSTANTS Users, Rooms, Watcher,
          MaxMsgs, MaxReqs, MaxTime, MaxBreaks, BufSize, PageSize, ReplayMax
ASSUME ChatAssumption ==
    /\ Watcher \in Users
    /\ {MaxMsgs, MaxReqs, MaxTime, MaxBreaks} \subseteq Nat
    /\ {BufSize, PageSize, ReplayMax} \subseteq Nat \ {0}

VARIABLES
    room,       \* chat_rooms, chat_room_participants
    direct,     \* chat_direct_room_keys
    msgs,       \* chat_messages in rowid order
    now,        \* the clock, in the seconds created_at is truncated to
    reqs,       \* requests between two of their steps
    conn,       \* the watcher's stream on the server
    got,        \* messages the stream has brought the client
    cursor,     \* the client's replay cursor
    breaks,     \* connections broken, restarts and failed pages so far
    ever,       \* history: who has been in a room
    start,      \* history: the second in which the client's cursor begins
    lost        \* history: messages that found the buffer full, were never
                \* announced, were overtaken by one of another second, or
                \* were left out by a replay that failed

chatVars == <<room, direct, msgs, now, reqs, conn, got, cursor, breaks, ever, start, lost>>

NoCursor == [at |-> -1, row |-> 0]
Off == [st |-> "off", buf |-> <<>>, cur |-> NoCursor, sent |-> 0, more |-> FALSE]
NoOne == [u \in Users |-> "none"]
Empty == [kind |-> "none", role |-> NoOne, read |-> [u \in Users |-> 0]]

ChatInit ==
    /\ room = [r \in Rooms |-> Empty] /\ direct = {}
    /\ msgs = <<>> /\ now = 0 /\ reqs = {}
    /\ conn = Off /\ got = {} /\ cursor = NoCursor /\ breaks = 0
    /\ ever = [r \in Rooms |-> {}] /\ start = -1 /\ lost = {}

\* participantRole: ErrNotFound for everyone else.
participantRole(u, r) == room[r].role[u]
RoomUserIDs(r) == {u \in Users : participantRole(u, r) # "none"}
In(u, r) == u \in RoomUserIDs(r)
InRoom(r) == {i \in DOMAIN msgs : msgs[i].room = r}
Shown(i) == msgs[i].live
Largest(S) == IF S = {} THEN 0 ELSE CHOOSE x \in S : \A y \in S : y <= x

\* A request may start.
Free == Cardinality(reqs) < MaxReqs

\* Hub.Publish for the watcher: a full buffer drops the event.
Push(hears, type, i) ==
    conn' = IF hears /\ conn.st # "off" /\ Len(conn.buf) < BufSize
            THEN [conn EXCEPT !.buf = Append(@, [type |-> type, row |-> i])] ELSE conn

clientVars == <<got, cursor>>
pastVars   == <<breaks, start>>

-----------------------------------------------------------------------------
(* createRoom *)

NewRoom(kind, creator, us) ==
    [kind |-> kind, read |-> [u \in Users |-> 0],
     role |-> [u \in Users |-> IF u = creator THEN "owner" ELSE IF u \in us THEN "member" ELSE "none"]]

AddRoom(r, kind, creator, us) ==
    /\ room[r].kind = "none"
    /\ room' = [room EXCEPT ![r] = NewRoom(kind, creator, us)]
    /\ ever' = [ever EXCEPT ![r] = us]

CreateGroupRoom(r, creator, us) ==
    /\ Cardinality(us \cup {creator}) >= 2
    /\ AddRoom(r, "group", creator, us \cup {creator})
    /\ Push(Watcher \in us \cup {creator}, "other", 0)
    /\ UNCHANGED <<direct, msgs, now, reqs, clientVars, pastVars, lost>>

Keyed(us) == {k \in direct : k.users = us}

\* The key is looked up first ...
CreateOrGetDirect(creator, other) ==
    /\ Free /\ creator # other /\ Keyed({creator, other}) = {}
    /\ reqs' = reqs \cup {[op |-> "direct", user |-> creator, other |-> other]}
    /\ UNCHANGED <<room, direct, msgs, now, conn, clientVars, pastVars, ever, lost>>

\* Fault: the key is not unique.
InsertDirectAnyway(q, r) ==
    /\ q.op = "direct"
    /\ AddRoom(r, "direct", q.user, {q.user, q.other})
    /\ direct' = direct \cup {[users |-> {q.user, q.other}, room |-> r]}
    /\ reqs' = reqs \ {q}
    /\ Push(Watcher \in {q.user, q.other}, "other", 0)
    /\ UNCHANGED <<msgs, now, clientVars, pastVars, lost>>

\* ... and then room, participants and key are one transaction, which the
\* primary key of the pair refuses the second time.
InsertDirect(q, r) ==
    /\ q.op = "direct" /\ Keyed({q.user, q.other}) = {}
    /\ AddRoom(r, "direct", q.user, {q.user, q.other})
    /\ direct' = direct \cup {[users |-> {q.user, q.other}, room |-> r]}
    /\ reqs' = reqs \ {q}
    /\ Push(Watcher \in {q.user, q.other}, "other", 0)
    /\ UNCHANGED <<msgs, now, clientVars, pastVars, lost>>

DirectRefused(q) ==
    /\ q.op = "direct" /\ Keyed({q.user, q.other}) # {}
    /\ reqs' = reqs \ {q}
    /\ UNCHANGED <<room, direct, msgs, now, conn, clientVars, pastVars, ever, lost>>

-----------------------------------------------------------------------------
(* patchRoom, leaveRoom, markRead *)

RenameRoom(u, r) ==
    /\ room[r].kind = "group" /\ participantRole(u, r) = "owner"
    /\ Push(In(Watcher, r), "other", 0)
    /\ UNCHANGED <<room, direct, msgs, now, reqs, clientVars, pastVars, ever, lost>>

LeaveRoom(u, r) ==
    /\ room[r].kind = "group" /\ In(u, r)
    /\ room' = [room EXCEPT ![r].role[u] = "none", ![r].read[u] = 0]
    /\ Push(In(Watcher, r), "other", 0)
    /\ UNCHANGED <<direct, msgs, now, reqs, clientVars, pastVars, ever, lost>>

\* seq is any number the client sends, or 0 for the newest message that shows.
Marks == 0 .. MaxMsgs + 1

MarkRead(u, r, seq) ==
    /\ In(u, r)
    /\ LET to == IF seq > 0 THEN seq ELSE Largest({msgs[i].seq : i \in {j \in InRoom(r) : Shown(j)}})
       IN  room' = [room EXCEPT ![r].read[u] = Largest({@, to})]
    /\ Push(In(Watcher, r), "other", 0)
    /\ UNCHANGED <<direct, msgs, now, reqs, clientVars, pastVars, ever, lost>>

-----------------------------------------------------------------------------
(* sendMessage, editMessage, deleteMessage *)

\* The sender's role is checked and the clock is read ...
SendMessage(u, r) ==
    /\ Free /\ In(u, r) /\ Len(msgs) < MaxMsgs
    /\ reqs' = reqs \cup {[op |-> "send", user |-> u, room |-> r, at |-> now, crossed |-> FALSE]}
    /\ UNCHANGED <<room, direct, msgs, now, conn, clientVars, pastVars, ever, lost>>

\* Messages of another second that are on their way while this one commits.
Overtaken(q) == {m \in reqs \ {q} : m.op = "announce" /\ msgs[m.row].at # q.at}
OthersCrossed(q) ==
    {IF m.op = "send" /\ m.at # q.at THEN [m EXCEPT !.crossed = TRUE] ELSE m : m \in reqs \ {q}}

Insert(q, seq) ==
    /\ q.op = "send" /\ Len(msgs) < MaxMsgs
    /\ msgs' = Append(msgs, [room |-> q.room, by |-> q.user, seq |-> seq, at |-> q.at, live |-> TRUE])
    /\ room' = IF In(q.user, q.room)
               THEN [room EXCEPT ![q.room].read[q.user] = Largest({@, seq})] ELSE room
    /\ reqs' = OthersCrossed(q) \cup {[op |-> "announce", user |-> q.user, row |-> Len(msgs')]}
    /\ lost' = lost \cup {m.row : m \in Overtaken(q)}
                    \cup (IF q.crossed THEN {Len(msgs')} ELSE {})
    /\ UNCHANGED <<direct, now, conn, clientVars, pastVars, ever>>

\* Fault: the next number is the count of the messages that show.
AppendMessageCounted(q) ==
    q.op = "send" /\ Insert(q, Cardinality({i \in InRoom(q.room) : Shown(i)}) + 1)

\* ... and then the next number of the room, the row and the read mark.
AppendMessage(q) ==
    q.op = "send" /\ Insert(q, Largest({msgs[i].seq : i \in InRoom(q.room)}) + 1)

EditMessage(u, i) ==
    /\ In(u, msgs[i].room) /\ msgs[i].by = u /\ Shown(i)
    /\ Push(In(Watcher, msgs[i].room), "message.updated", i)
    /\ UNCHANGED <<room, direct, msgs, now, reqs, clientVars, pastVars, ever, lost>>

DeleteMessage(u, i) ==
    /\ In(u, msgs[i].room) /\ msgs[i].by = u /\ Shown(i)
    /\ msgs' = [msgs EXCEPT ![i].live = FALSE]
    /\ Push(In(Watcher, msgs[i].room), "other", 0)
    /\ UNCHANGED <<room, direct, now, reqs, clientVars, pastVars, ever, lost>>

-----------------------------------------------------------------------------
(* Hub.Publish, and the watcher's stream *)

\* The row is read again as its sender, then the recipients, and then the event
\* goes to every buffer that has room.
GetMessage(q) == In(q.user, msgs[q.row].room) /\ Shown(q.row)

Publish(q) ==
    /\ q.op = "announce"
    /\ LET hears == GetMessage(q) /\ In(Watcher, msgs[q.row].room)
           full  == conn.st # "off" /\ Len(conn.buf) >= BufSize
       IN  /\ Push(hears, "message.created", q.row)
           /\ lost' = IF (hears /\ ~full) \/ (GetMessage(q) /\ ~hears) THEN lost ELSE lost \cup {q.row}
    /\ reqs' = reqs \ {q}
    /\ UNCHANGED <<room, direct, msgs, now, clientVars, breaks, ever, start>>

serverVars == <<room, direct, msgs, now, reqs, ever, lost>>

\* events: subscribe, then replay from the cursor, or from now without one.
Subscribe ==
    /\ conn.st = "off"
    /\ conn' = [st |-> "replay", buf |-> <<>>, sent |-> 0, more |-> TRUE,
                cur |-> IF cursor = NoCursor THEN [at |-> now, row |-> 0] ELSE cursor]
    /\ start' = IF cursor = NoCursor THEN now ELSE start
    /\ UNCHANGED <<serverVars, got, cursor, breaks>>

After(i, c) == msgs[i].at > c.at \/ (msgs[i].at = c.at /\ i > c.row)
Before(i, j) == msgs[i].at < msgs[j].at \/ (msgs[i].at = msgs[j].at /\ i < j)

\* ListMessagesSinceAcrossRooms, ReplayMissed
Missed(c) == {i \in DOMAIN msgs : In(Watcher, msgs[i].room) /\ Shown(i) /\ After(i, c)}
ReplayMissed(c) == {i \in Missed(c) : Cardinality({j \in Missed(c) : Before(j, i)}) < PageSize}
Newest(S) == CHOOSE i \in S : \A j \in S \ {i} : Before(j, i)

\* openChatEvents: a frame of a later second moves the client's cursor.
Seen(c, S) ==
    LET later == {i \in S : msgs[i].at > c.at}
    IN  IF later = {} THEN c ELSE [at |-> msgs[Newest(later)].at, row |-> 0]

HasMore(c) == Missed(c) # ReplayMissed(c)

Replaying == conn.st = "replay" /\ conn.more /\ conn.sent < ReplayMax

\* Fault: the cursor keeps the second only, and the next page begins after it.
ReplayPageSecond ==
    /\ Replaying
    /\ LET page == ReplayMissed(conn.cur) IN
         /\ got' = got \cup page
         /\ cursor' = Seen(cursor, page)
         /\ conn' = [conn EXCEPT !.cur = IF page = {} THEN @
                                         ELSE [at |-> msgs[Newest(page)].at, row |-> MaxMsgs],
                                 !.sent = @ + Cardinality(page), !.more = HasMore(conn.cur)]
    /\ UNCHANGED <<serverVars, pastVars>>

ReplayPage ==
    /\ Replaying
    /\ LET page == ReplayMissed(conn.cur) IN
         /\ got' = got \cup page
         /\ cursor' = Seen(cursor, page)
         /\ conn' = [conn EXCEPT !.cur = IF page = {} THEN @
                                         ELSE [at |-> msgs[Newest(page)].at, row |-> Newest(page)],
                                 !.sent = @ + Cardinality(page), !.more = HasMore(conn.cur)]
    /\ UNCHANGED <<serverVars, pastVars>>

\* A page that cannot be read ends the replay with the cursor where it was, and the
\* client is not told of more.  What was left out comes only if it is still to be
\* published or in the buffer.
Pending(i) == \E q \in reqs : q.op = "announce" /\ q.row = i
Buffered(i) == \E k \in DOMAIN conn.buf : conn.buf[k] = [type |-> "message.created", row |-> i]

ReplayFails ==
    /\ Replaying /\ breaks < MaxBreaks
    /\ conn' = [conn EXCEPT !.more = FALSE]
    /\ lost' = lost \cup {i \in Missed(conn.cur) : ~Pending(i) /\ ~Buffered(i)}
    /\ breaks' = breaks + 1
    /\ UNCHANGED <<room, direct, msgs, now, reqs, got, cursor, ever, start>>

\* The ready frame carries the cursor; a client told of more opens a new stream.
Ready ==
    /\ conn.st = "replay" /\ ~Replaying
    /\ cursor' = conn.cur
    /\ conn' = IF conn.more THEN Off ELSE [Off EXCEPT !.st = "live", !.buf = conn.buf]
    /\ UNCHANGED <<serverVars, pastVars, got>>

Deliver ==
    /\ conn.st = "live" /\ conn.buf # <<>>
    /\ LET ev == Head(conn.buf) IN
         /\ got' = IF ev.type = "message.created" THEN got \cup {ev.row} ELSE got
         /\ cursor' = IF ev.type \in {"message.created", "message.updated"}
                      THEN Seen(cursor, {ev.row}) ELSE cursor
    /\ conn' = [conn EXCEPT !.buf = Tail(@)]
    /\ UNCHANGED <<serverVars, pastVars>>

\* The connection breaks; openChatEvents opens another with the cursor it has.
Break ==
    /\ conn.st # "off" /\ breaks < MaxBreaks
    /\ conn' = Off /\ breaks' = breaks + 1
    /\ UNCHANGED <<serverVars, got, cursor, start>>

\* The server dies: requests, buffers and subscriptions are gone.
ServerDies ==
    /\ breaks < MaxBreaks
    /\ conn' = Off /\ reqs' = {} /\ breaks' = breaks + 1
    /\ UNCHANGED <<room, direct, msgs, now, got, cursor, ever, start, lost>>

Tick ==
    /\ now < MaxTime /\ now' = now + 1
    /\ UNCHANGED <<room, direct, msgs, reqs, conn, clientVars, pastVars, ever, lost>>

-----------------------------------------------------------------------------
(* The HTTP handlers *)

createRoom ==
    \/ \E r \in Rooms, u \in Users : \E us \in SUBSET (Users \ {u}) : CreateGroupRoom(r, u, us)
    \/ \E u, v \in Users : CreateOrGetDirect(u, v)
patchRoom     == \E u \in Users, r \in Rooms : RenameRoom(u, r)
leaveRoom     == \E u \in Users, r \in Rooms : LeaveRoom(u, r)
markRead      == \E u \in Users, r \in Rooms, seq \in Marks : MarkRead(u, r, seq)
sendMessage   == \E u \in Users, r \in Rooms : SendMessage(u, r)
editMessage   == \E u \in Users, i \in DOMAIN msgs : EditMessage(u, i)
deleteMessage == \E u \in Users, i \in DOMAIN msgs : DeleteMessage(u, i)

RequestStep ==
    \E q \in reqs :
        \/ \E r \in Rooms : InsertDirect(q, r)
        \/ DirectRefused(q)
        \/ AppendMessage(q)
        \/ Publish(q)

\* events: its steps, in order.
events == Subscribe \/ ReplayPage \/ ReplayFails \/ Ready \/ Deliver

ChatNext ==
    \/ createRoom \/ patchRoom \/ leaveRoom \/ markRead
    \/ sendMessage \/ editMessage \/ deleteMessage
    \/ RequestStep \/ events \/ Break \/ ServerDies \/ Tick

ChatSpec == ChatInit /\ [][ChatNext]_chatVars

-----------------------------------------------------------------------------
(* Properties. *)

\* The messages the stream owes the client: of its rooms, since it connected.
Owed(i) == Shown(i) /\ In(Watcher, msgs[i].room) /\ start >= 0 /\ msgs[i].at >= start

\* The cursor never passes a message the client has not got, over broken
\* connections, restarts, replays in pages and messages published out of order:
\* whatever is missing is still ahead of the cursor, so that the next stream
\* replays it, and on a live stream it is in the buffer or about to be published.
\* The exceptions are a message that found the buffer full or was never announced,
\* one overtaken by a message of another second, and one that a replay left out
\* because its page could not be read.
Due(i) == Owed(i) /\ i \notin got \cup lost
CursorHidesNothing ==
    \A i \in DOMAIN msgs : Due(i) =>
        After(i, cursor) /\ (conn.st = "live" => Pending(i) \/ Buffered(i))

\* Two people have at most one direct room, and both of them are in it, however
\* their requests to open one overlap.
DirectRoomsPaired ==
    /\ \A r, s \in Rooms :
         room[r].kind = "direct" /\ room[s].kind = "direct" /\ ever[r] = ever[s] => r = s
    /\ \A r \in Rooms : room[r].kind = "direct" =>
         /\ RoomUserIDs(r) = ever[r]
         /\ [users |-> ever[r], room |-> r] \in direct

\* The log of a room: its messages in the order they were stored.
Nth(S, n) == msgs[CHOOSE i \in S : Cardinality({j \in S : j <= i}) = n]
Entries(r) ==
    LET S == InRoom(r)
    IN  [n \in 1..Cardinality(S) |->
            LET m == Nth(S, n) IN [by |-> m.by, no |-> m.seq, shown |-> m.live]]

Log == INSTANCE ChatLog WITH
    log     <- [r \in Rooms |-> Entries(r)],
    members <- [r \in Rooms |-> RoomUserIDs(r)],
    past    <- ever,
    read    <- [r \in Rooms |-> room[r].read]

\* Messages are numbered from 1 without a gap in the order they are stored, only
\* members and those who were write, only authors take back, and read marks of
\* members only grow and take in what a member posts, also when requests of the
\* same people overlap.  That a mark stays within the log is not promised.
RoomsAreLogs == Log!LogSpec
=============================================================================
