----------------------------- MODULE MailIngest -----------------------------
(***************************************************************************)
(* How mail gets into a mailbox (internal/mail): the coordinator that      *)
(* starts and stops the poller of the active provider (inbound/            *)
(* coordinator.go), the POP3 and IMAP sweeps (inbound/pop3.go, imap.go),   *)
(* the webhook of push providers (handler/webhook.go), the ingest they     *)
(* share and the deletion of messages and mailboxes (inbox/service.go).    *)
(*                                                                         *)
(* A statement or a call of the blob store or of the server is one step.   *)
(* Every mail has a Message-ID, one attachment and one recipient; no other *)
(* client marks mail read on the IMAP server; a server answers or the      *)
(* connection breaks (pop3client.go sets no read deadline).                *)
(*                                                                         *)
(* Bounds: MaxEvents requests, posts, configurations, faults and crashes   *)
(* in all; Slots pollers at a time; Keys number messages and their files,  *)
(* a key is used again only when nothing holds it.                         *)
(***************************************************************************)
EXTENDS Integers, FiniteSets

CONSTANTS
    Polled,     \* mails on the server the poll drivers read
    Posted,     \* mails a push provider has, perhaps the same ones
    Configs, Slots, Keys, PageSize, MaxEvents
ASSUME MailIngestAssumption ==
    /\ Configs \subseteq {"none", "push", "pop3", "pop3del", "imap"}
    /\ Keys \subseteq Nat \ {0} /\ PageSize \in Nat \ {0} /\ MaxEvents \in Nat
    /\ IsFiniteSet(Slots) /\ {"none", "hook"} \cap Slots = {} /\ "none" \notin Polled \cup Posted

VARIABLES
    upstream,   \* Polled mails still on their server
    unposted,   \* Posted mails whose provider has no 2xx yet
    box,        \* the mailbox's row, 0 when there is none
    row,        \* mail_messages and mail_attachments
    files,      \* the blob store
    active,     \* mail_providers: the active inbound configuration
    coord,      \* the coordinator's marker and the poller its cancel func ends
    poller,     \* poll loops and the admin's connection tests
    job,        \* calls of inbox.Ingest, one per worker
    req,        \* a user's deletion
    events,
    past        \* history: mails stored once, keys a deletion overtook

vars == <<upstream, unposted, box, row, files, active, coord, poller, job, req, events, past>>

Mails == Polled \cup Posted
None == "none"
Workers == Slots \cup {"hook"}
IsPollDriver(c) == c \in {"pop3", "pop3del", "imap"}

Rested == [st |-> "free", conf |-> None, cancelled |-> FALSE, probe |-> FALSE, conn |-> FALSE,
           seen |-> {}, skipped |-> {}, todo |-> {}, marked |-> {}]
NoJob == [at |-> "none", m |-> None, b |-> 0, k |-> 0, cut |-> FALSE, res |-> None]
NoReq == [kind |-> "none", at |-> "none", b |-> 0, k |-> 0, att |-> FALSE, todo |-> {}]
NoRow == [m |-> None, att |-> FALSE]
Idle == [conf |-> None, owner |-> None]

Live == {k \in Keys : row[k] # NoRow}
Stored(m) == \E k \in Live : row[k].m = m
Held == Live \cup {f[2] : f \in files} \cup {job[w].k : w \in Workers} \cup {req.k}
NewKey == {k \in Keys \ Held : \A j \in Keys \ Held : k <= j}
NewBox == CHOOSE b \in 1..(Cardinality(Workers) + 2) :
              b # req.b /\ \A w \in Workers : b # job[w].b

Init ==
    /\ upstream = Polled /\ unposted = Posted
    /\ box \in {0, 1} /\ active \in Configs
    /\ row = [k \in Keys |-> NoRow] /\ files = {}
    /\ coord = Idle
    /\ poller = [p \in Slots |-> Rested] /\ job = [w \in Workers |-> NoJob]
    /\ req = NoReq /\ events = 0
    /\ past = [stored |-> {}, excused |-> {}]

Event == events < MaxEvents /\ events' = events + 1

----------------------------------------------------------------------------
(* The providers, and the coordinator: sync runs every 30 seconds.         *)

\* A driver nobody knows, a configuration it cannot be built from and a push
\* driver without a secret are refused before anything is changed.
validateDriverConfig(c) == IsPollDriver(c) \/ c = "push"

UpsertAndActivate(c) == active' = c
upsert ==
    /\ Event
    /\ \E c \in Configs \ {active} : validateDriverConfig(c) /\ UpsertAndActivate(c)
    /\ UNCHANGED <<upstream, unposted, box, row, files, coord, poller, job, req, past>>

DeleteProvider == active # None /\ active' = None
delete ==
    /\ Event /\ DeleteProvider
    /\ UNCHANGED <<upstream, unposted, box, row, files, coord, poller, job, req, past>>

\* stop: the poller's context ends, the marker is cleared.
Cancelled(pl) ==
    IF coord.owner = None THEN pl ELSE [pl EXCEPT ![coord.owner].cancelled = TRUE]

\* sync finds the driver and the configuration it runs already; a read that
\* fails stops the poller too.
syncStop(seen) ==
    /\ ~IsPollDriver(seen)
    /\ coord # Idle
    /\ coord' = Idle /\ poller' = Cancelled(poller)
syncStart(seen) ==
    /\ IsPollDriver(seen) /\ coord.conf # seen
    /\ \E p \in {q \in Slots : poller[q].st = "free"} :
        /\ coord' = [conf |-> seen, owner |-> p]
        /\ poller' = [Cancelled(poller) EXCEPT ![p] = [Rested EXCEPT !.st = "idle", !.conf = seen]]
\* A poller still there at the refresh after the one that cancelled it, as a
\* slow server makes it, is a fault: when it leaves it cancels its successor.
Leaving == {p \in Slots : poller[p].cancelled}
Sync ==
    /\ syncStop(active) \/ (Leaving = {} /\ syncStart(active))
    /\ UNCHANGED <<upstream, unposted, box, row, files, active, job, req, events, past>>
SyncEarly ==
    /\ Event /\ Leaving # {} /\ syncStart(active)
    /\ UNCHANGED <<upstream, unposted, box, row, files, active, job, req, past>>
SyncFails ==
    /\ Event /\ syncStop(None)
    /\ UNCHANGED <<upstream, unposted, box, row, files, active, job, req, past>>

\* The loop ends when its context does; its deferred function clears the marker
\* of whoever polls the same configuration now, and cancels that one.
Exit(p) ==
    /\ poller[p].st = "idle" /\ poller[p].cancelled
    /\ IF coord.conf = poller[p].conf
       THEN coord' = Idle /\ poller' = [Cancelled(poller) EXCEPT ![p] = Rested]
       ELSE coord' = coord /\ poller' = [poller EXCEPT ![p] = Rested]
    /\ UNCHANGED <<upstream, unposted, box, row, files, active, job, req, events, past>>

\* The admin's connection test: one Poll of a new poller.
Test ==
    /\ Event /\ IsPollDriver(active)
    /\ \E p \in {q \in Slots : poller[q].st = "free"} :
        poller' = [poller EXCEPT ![p] =
                      [Rested EXCEPT !.st = "idle", !.conf = active, !.probe = TRUE]]
    /\ UNCHANGED <<upstream, unposted, box, row, files, active, coord, job, req, past>>

----------------------------------------------------------------------------
(* A sweep.  A dial or login that fails leaves the poller as it is.        *)

UpdatePoller(p, r) == poller' = [poller EXCEPT ![p] = r]

\* The UIDs listed, or searched for without the flag a read-only mailbox never
\* gets, that this poller has not seen.
uidl == upstream
UidSearch == upstream
Unseen(p) == (IF poller[p].conf = "imap" THEN UidSearch ELSE uidl) \ poller[p].seen
Dial(p) ==
    /\ poller[p].st = "idle" /\ ~poller[p].cancelled
    /\ UpdatePoller(p, [poller[p] EXCEPT !.st = "polling", !.conn = TRUE, !.marked = {},
                                         !.todo = Unseen(p)])
    /\ UNCHANGED <<upstream, unposted, box, row, files, active, coord, job, req, events, past>>

DiscardIngest == "probe"

\* What a poller makes of an ingest's verdict on m.
Marks(r, m) == IF r.conf = "pop3del" /\ r.conn THEN r.marked \cup {m} ELSE r.marked
\* Fault: a failure that is marked seen is deleted like a success.
settledDeletes(r, m, res) ==
    CASE res = "probe" -> [r EXCEPT !.todo = {}]
      [] res = "transient" -> r
      [] OTHER -> [r EXCEPT !.seen = @ \cup {m}, !.marked = Marks(r, m),
                            !.skipped = IF res = "persistent" THEN @ \cup {m} ELSE @]
\* Fault: what failed for a moment is marked seen.
settledMarksAll(r, m, res) ==
    CASE res = "probe" -> [r EXCEPT !.todo = {}]
      [] res = "transient" -> [r EXCEPT !.seen = @ \cup {m}]
      [] res = "persistent" -> [r EXCEPT !.seen = @ \cup {m}, !.skipped = @ \cup {m}]
      [] OTHER -> [r EXCEPT !.seen = @ \cup {m}, !.marked = Marks(r, m)]
settled(r, m, res) ==
    CASE res = "probe" -> [r EXCEPT !.todo = {}]
      [] res = "transient" -> r
      [] res = "persistent" -> [r EXCEPT !.seen = @ \cup {m}, !.skipped = @ \cup {m}]
      [] OTHER -> [r EXCEPT !.seen = @ \cup {m}, !.marked = Marks(r, m)]

\* A mail another session deleted, or any after the connection broke: for POP3
\* unreadable and not tried again, for IMAP not among those fetched.
Gone(r, m) == m \notin upstream \/ (r.conf # "imap" /\ ~r.conn)
GoneVerdict(r) == IF r.conf = "imap" THEN "transient" ELSE "persistent"

Fetch(p) ==
    LET r == poller[p] IN
    /\ r.st = "polling" /\ job[p] = NoJob /\ ~r.cancelled
    /\ \E m \in r.todo :
        LET rest == [r EXCEPT !.todo = @ \ {m}] IN
        IF Gone(r, m)  THEN UpdatePoller(p, settled(rest, m, GoneVerdict(r))) /\ job' = job
        ELSE IF r.probe THEN UpdatePoller(p, settled(rest, m, DiscardIngest)) /\ job' = job
        ELSE /\ UpdatePoller(p, rest)
             /\ job' = [job EXCEPT ![p] = [NoJob EXCEPT !.at = "resolve", !.m = m]]
    /\ UNCHANGED <<upstream, unposted, box, row, files, active, coord, req, events, past>>

Settle(p) ==
    /\ job[p].at = "answer"
    /\ UpdatePoller(p, settled(poller[p], job[p].m, job[p].res))
    /\ job' = [job EXCEPT ![p] = NoJob]
    /\ UNCHANGED <<upstream, unposted, box, row, files, active, coord, req, events, past>>

\* Of an IMAP fetch, the mails already buffered still come.
Buffered(r) == IF r.conf = "imap" THEN SUBSET r.todo ELSE {r.todo}
Break(p) ==
    /\ Event /\ poller[p].st = "polling" /\ poller[p].conn
    /\ \E todo \in Buffered(poller[p]) :
        UpdatePoller(p, [poller[p] EXCEPT !.conn = FALSE, !.todo = todo])
    /\ UNCHANGED <<upstream, unposted, box, row, files, active, coord, job, req, past>>

\* QUIT removes what DELE marked.
EndPoll(p) ==
    LET r == poller[p] IN
    /\ r.st = "polling" /\ job[p] = NoJob /\ (r.todo = {} \/ r.cancelled)
    /\ upstream' = IF r.conn THEN upstream \ r.marked ELSE upstream
    /\ UpdatePoller(p, IF r.probe THEN Rested
                       ELSE [r EXCEPT !.st = "idle", !.todo = {}, !.marked = {}, !.conn = FALSE])
    /\ UNCHANGED <<unposted, box, row, files, active, coord, job, req, events, past>>

----------------------------------------------------------------------------
(* The webhook: a push provider posts a mail until it gets a 2xx.          *)

Post ==
    /\ Event /\ active = "push" /\ job["hook"] = NoJob
    /\ \E m \in unposted :
        job' = [job EXCEPT !["hook"] = [NoJob EXCEPT !.at = "resolve", !.m = m]]
    /\ UNCHANGED <<upstream, unposted, box, row, files, active, coord, poller, req, past>>

HangUp ==
    /\ Event /\ job["hook"] # NoJob /\ ~job["hook"].cut
    /\ job' = [job EXCEPT !["hook"].cut = TRUE]
    /\ UNCHANGED <<upstream, unposted, box, row, files, active, coord, poller, req, past>>

Respond ==
    LET j == job["hook"] IN
    /\ j.at = "answer"
    /\ unposted' = IF ~j.cut /\ j.res \in {"ok", "duplicate"} THEN unposted \ {j.m} ELSE unposted
    /\ job' = [job EXCEPT !["hook"] = NoJob]
    /\ UNCHANGED <<upstream, box, row, files, active, coord, poller, req, events, past>>

----------------------------------------------------------------------------
(* Ingest.  A cancelled context fails its statements, not the blob store's *)
(* calls; a statement may fail by itself (`fails`).                        *)

Save(kind, k) == files \cup {<<kind, k>>}
Remove(kind, k) == files \ {<<kind, k>>}

Cut(w) == IF w = "hook" THEN job[w].cut ELSE poller[w].cancelled
Answer(w, res) == job' = [job EXCEPT ![w].at = "answer", ![w].res = res]
Goto(w, at) == job' = [job EXCEPT ![w].at = at]

\* No mailbox is found, or the statement that looks for it fails: both are
\* ErrMailboxNotFound.
resolveMailbox(w, fails) == IF fails \/ Cut(w) THEN 0 ELSE box

\* A mail that is too large or that letter.Parse refuses ends here too.
Resolve(w, fails) ==
    /\ job[w].at = "resolve"
    /\ IF resolveMailbox(w, fails) = 0
       THEN Answer(w, "persistent")
       ELSE job' = [job EXCEPT ![w].at = "exists", ![w].b = box]
    /\ UNCHANGED <<row, files, past>>

ExistsByMessageID(w, fails) ==
    /\ job[w].at = "exists"
    /\ IF fails \/ Cut(w) THEN Answer(w, "transient")
       ELSE IF box = job[w].b /\ Stored(job[w].m) THEN Answer(w, "duplicate")
       ELSE Goto(w, "raw")
    /\ UNCHANGED <<row, files, past>>

SaveRaw(w, fails) ==
    /\ job[w].at = "raw"
    /\ IF fails THEN Answer(w, "transient") /\ UNCHANGED <<files, past>>
       ELSE \E k \in NewKey :
            /\ job' = [job EXCEPT ![w].at = "row", ![w].k = k]
            /\ files' = Save("raw", k)
            /\ past' = [past EXCEPT !.excused = @ \ {k}]
    /\ UNCHANGED row

\* The row needs its mailbox (foreign key) and is the only one of its
\* Message-ID there (unique index); without a row the file goes.
CreateMessage(w, fails) ==
    LET j == job[w] IN
    /\ j.at = "row"
    /\ IF fails \/ Cut(w) \/ box # j.b \/ Stored(j.m)
       THEN /\ Answer(w, IF ~fails /\ ~Cut(w) /\ box = j.b THEN "duplicate" ELSE "transient")
            /\ files' = Remove("raw", j.k)
            /\ UNCHANGED <<row, past>>
       ELSE /\ Goto(w, "att")
            /\ row' = [row EXCEPT ![j.k] = [m |-> j.m, att |-> FALSE]]
            /\ past' = [stored |-> past.stored \cup {j.m},
                        excused |-> past.excused \cup (IF req.kind = "mailbox" THEN {j.k} ELSE {})]
            /\ UNCHANGED files

\* A failure here is not the ingest's: it answers ok.
SaveAttachment(w, fails) ==
    /\ job[w].at = "att"
    /\ IF fails THEN Answer(w, "ok") /\ UNCHANGED files
       ELSE Goto(w, "attrow") /\ files' = Save("att", job[w].k)
    /\ UNCHANGED <<row, past>>

\* The row needs its message.
CreateAttachment(k) == row[k] # NoRow /\ row' = [row EXCEPT ![k].att = TRUE]

storeInboundAttachments(w, fails) ==
    LET k == job[w].k IN
    /\ job[w].at = "attrow" /\ Answer(w, "ok")
    /\ IF fails \/ Cut(w) \/ row[k] = NoRow
       THEN files' = Remove("att", k) /\ UNCHANGED row
       ELSE CreateAttachment(k) /\ UNCHANGED files
    /\ UNCHANGED past

IngestStep(w, fails) ==
    /\ \/ Resolve(w, fails) \/ ExistsByMessageID(w, fails) \/ SaveRaw(w, fails)
       \/ CreateMessage(w, fails) \/ SaveAttachment(w, fails) \/ storeInboundAttachments(w, fails)
    /\ UNCHANGED <<upstream, unposted, box, active, coord, poller, req>>
Ingest(w) == IngestStep(w, FALSE) /\ UNCHANGED events
IngestFails(w) == Event /\ IngestStep(w, TRUE)

----------------------------------------------------------------------------
(* A user's requests: one at a time.                                       *)

CreateMailbox == box = 0 /\ box' = NewBox
createMailbox ==
    /\ Event /\ CreateMailbox
    /\ UNCHANGED <<upstream, unposted, row, files, active, coord, poller, job, req, past>>

Request ==
    /\ Event /\ req = NoReq /\ box # 0
    /\ \/ \E k \in Live : req' = [NoReq EXCEPT !.kind = "message", !.at = "read", !.k = k]
       \/ req' = [NoReq EXCEPT !.kind = "mailbox", !.at = "list", !.b = box]
    /\ UNCHANGED <<upstream, unposted, box, row, files, active, coord, poller, job, past>>

\* The next message of the page, the next page, or the end of the request.
\* Fault: one page is all a mailbox has.
DoneAfterOnePage == req' = IF req.kind = "message" THEN NoReq
                           ELSE [req EXCEPT !.at = IF req.todo = {} THEN "box" ELSE "next",
                                            !.k = 0, !.att = FALSE]
Done == req' = IF req.kind = "message" THEN NoReq
               ELSE [req EXCEPT !.at = IF req.todo = {} THEN "list" ELSE "next",
                                !.k = 0, !.att = FALSE]

\* The first page each time: what was listed before is deleted.
Pages == {S \in SUBSET Live : Cardinality(S) = PageSize}
             \cup (IF Cardinality(Live) <= PageSize THEN {Live} ELSE {})
ListMessages ==
    /\ req.at = "list"
    /\ \E page \in Pages :
        req' = [req EXCEPT !.at = IF page = {} THEN "box" ELSE "next", !.todo = page]
    /\ UNCHANGED <<box, row, files, past>>

NextMessage ==
    /\ req.at = "next"
    /\ \E k \in req.todo : req' = [req EXCEPT !.at = "read", !.k = k, !.todo = @ \ {k}]
    /\ UNCHANGED <<box, row, files, past>>

Ingesting(k) == \E w \in Workers : job[w].k = k /\ job[w].at \in {"att", "attrow"}

ReadMessage ==
    /\ req.at = "read"
    /\ IF req.k \notin Live THEN Done /\ UNCHANGED past
       ELSE /\ req' = [req EXCEPT !.at = "row", !.att = row[req.k].att]
            /\ past' = [past EXCEPT !.excused = @ \cup {k \in {req.k} : Ingesting(k)}]
    /\ UNCHANGED <<box, row, files>>

DeleteMessage ==
    /\ req.at = "row"
    /\ IF req.k \notin Live THEN Done /\ row' = row
       ELSE /\ row' = [row EXCEPT ![req.k] = NoRow]
            /\ req' = [req EXCEPT !.at = "files"]
    /\ UNCHANGED <<box, files, past>>

DeleteFiles ==
    /\ req.at = "files" /\ Done
    /\ files' = files \ ({<<"raw", req.k>>} \cup (IF req.att THEN {<<"att", req.k>>} ELSE {}))
    /\ UNCHANGED <<box, row, past>>

DeleteMailbox ==
    /\ req.at = "box" /\ req' = NoReq
    /\ box' = 0 /\ row' = [k \in Keys |-> NoRow]
    /\ UNCHANGED <<files, past>>

\* A statement that fails ends the request.
Abandon ==
    /\ Event /\ req.at \in {"list", "read", "row", "box"} /\ req' = NoReq
    /\ UNCHANGED <<upstream, unposted, box, row, files, active, coord, poller, job, past>>

RequestStep ==
    /\ \/ ListMessages \/ NextMessage \/ ReadMessage \/ DeleteMessage \/ DeleteFiles \/ DeleteMailbox
    /\ UNCHANGED <<upstream, unposted, active, coord, poller, job, events>>

----------------------------------------------------------------------------
(* The process dies and starts again: pollers, their seen sets and every   *)
(* call are gone.  Files no row names stay for good; the model forgets     *)
(* them.                                                                   *)

Crash ==
    /\ Event
    /\ coord' = Idle /\ poller' = [p \in Slots |-> Rested]
    /\ job' = [w \in Workers |-> NoJob] /\ req' = NoReq
    /\ files' = {f \in files : f[2] \in Live /\ (f[1] = "att" => row[f[2]].att)}
    /\ UNCHANGED <<upstream, unposted, box, row, active, past>>

PollStep(p) == Exit(p) \/ Dial(p) \/ Fetch(p) \/ Settle(p) \/ EndPoll(p)

Next ==
    \/ upsert \/ delete \/ Sync \/ SyncEarly \/ SyncFails \/ Test
    \/ \E p \in Slots : PollStep(p) \/ Break(p)
    \/ Post \/ HangUp \/ Respond
    \/ \E w \in Workers : Ingest(w) \/ IngestFails(w)
    \/ createMailbox \/ Request \/ RequestStep \/ Abandon
    \/ Crash

Fairness ==
    /\ WF_vars(Sync)
    /\ \A p \in Slots : WF_vars(PollStep(p)) /\ WF_vars(Ingest(p))
Spec == Init /\ [][Next]_vars /\ Fairness

----------------------------------------------------------------------------
(* Properties.                                                             *)

\* A mail is deleted from its server, or acknowledged to its provider, only
\* after it has been stored here (pop3.go:112-136, the comments on ErrProbe and
\* on persistent failures; webhook.go:73-87).
KeptBeforeDeleted == (Polled \ upstream) \cup (Posted \ unposted) \subseteq past.stored

\* A message's files exist, and a file belongs to a message or to a call under
\* way, unless a deletion overtook the ingest that wrote it
\* (service.go:67-73).
Owned == Live \cup {job[w].k : w \in Workers} \cup {req.k} \cup past.excused
FilesAccounted ==
    /\ \A k \in Live : <<"raw", k>> \in files /\ (row[k].att => <<"att", k>> \in files)
    /\ \A f \in files : f[2] \in Owned

\* With a mailbox and a poll driver that stay, every mail on the server is
\* stored in the end, or given up by the poller that runs (coordinator.go:57,
\* the restarts; pop3.go:94-136, the retries).
Running(p) == poller[p].st # "free" /\ ~poller[p].probe /\ coord.owner = p
GivenUp(m) == \E p \in Slots : Running(p) /\ m \in poller[p].skipped
MailArrives ==
    <>[](IsPollDriver(active) /\ box # 0) =>
        \A m \in Polled : <>[](m \in past.stored \/ GivenUp(m))
=============================================================================
