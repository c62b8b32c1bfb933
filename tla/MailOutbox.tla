----------------------------- MODULE MailOutbox -----------------------------
(***************************************************************************)
(* The outbox of internal/mail: a message is stored before it is handed to *)
(* the provider's driver, and a sweeper retries what was not marked sent.  *)
(* Workers are the HTTP handlers (Clients) and the one sweeper goroutine;  *)
(* they interleave between SQL statements and during driver calls.         *)
(*                                                                         *)
(* Times are what is left of them: a message may be retried when its wait  *)
(* and its claim are 0, which is NULL as well as "in the past".  Contents, *)
(* attachments and Message-IDs are left out.                               *)
(*                                                                         *)
(* Bounds: MaxRetries presses of the retry button; MaxFaults failed SQL    *)
(* statements, panics, crashes and times the provider is switched off.     *)
(***************************************************************************)
EXTENDS Integers, FiniteSets

CONSTANTS
    Msgs, Clients, Sweeper, NoMsg,
    MaxAttempts,    \* outboxMaxAttempts
    Lease,          \* of a claim, in ticks
    SendLimit,      \* a driver call ends within this many ticks
    MaxBackoff,
    MaxRetries, MaxFaults

Workers == Clients \cup {Sweeper}

\* A claim outlives the longest driver call: two minutes against 15 seconds for
\* the dial and 60 for the conversation (smtp.go), or 30 (the HTTP drivers).
ASSUME LeaseAssumption ==
    /\ {Lease, SendLimit, MaxRetries, MaxFaults} \subseteq Nat /\ SendLimit < Lease
    /\ {MaxAttempts, MaxBackoff} \subseteq Nat \ {0}
ASSUME NamesAssumption == Sweeper \notin Clients /\ NoMsg \notin Msgs

VARIABLES
    row,        \* mail_messages
    job,        \* per worker: the message it works on, and how far it is
    due,        \* what the sweeper has listed and not yet tried
    provider,   \* an outbound provider is active
    retries,    \* bound: retry buttons still to be pressed
    faults,     \* bound: faults still to come
    accepted,   \* history: how often the provider took the message, up to 2
    excused     \* history: messages that may be delivered twice, see Claim

vars == <<row, job, due, provider, retries, faults, accepted, excused>>

\* is_draft and is_outbox are never both set (no caller of PatchFlags passes is_draft):
\* "draft", "outbox", "sent" are the three combinations; "gone" is a deleted row.
Statuses == {"none", "draft", "outbox", "sent", "gone"}
Row == [st : Statuses, attempts : 0 .. MaxAttempts, wait : 0 .. MaxBackoff, claim : 0 .. Lease]
NoRow == [st |-> "none", attempts |-> 0, wait |-> 0, claim |-> 0]

\* leased: the message was claimed for the call; left: of the time a call may take;
\* tries: the attempts the sweeper read with its list.
Job == [phase : {"idle", "draft", "retry", "call", "accepted", "failed"},
        msg : Msgs \cup {NoMsg}, leased : BOOLEAN, left : 0 .. SendLimit, tries : 0 .. MaxAttempts]
Task(phase, m, tries) ==
    [phase |-> phase, msg |-> m, leased |-> FALSE, left |-> 0, tries |-> tries]
Idle == Task("idle", NoMsg, 0)

\* The worker is between the start of a driver call and its outcome's last statement.
Calling(w) == job[w].phase \in {"call", "accepted"}
Free(m) == row[m].st = "outbox" /\ row[m].claim = 0

\* Rows, jobs and list are well formed; in particular no message is ever tried
\* more than MaxAttempts times by the sweeper between two presses of the button.
OutboxTypeOK ==
    /\ row \in [Msgs -> Row]
    /\ job \in [Workers -> Job]
    /\ due \subseteq [msg : Msgs, tries : 0 .. MaxAttempts - 1]
    /\ provider \in BOOLEAN
    /\ retries \in 0 .. MaxRetries /\ faults \in 0 .. MaxFaults
    /\ accepted \in [Msgs -> 0 .. 2]
    /\ excused \subseteq Msgs
    /\ \A w \in Workers : job[w].phase # "idle" => job[w].msg \in Msgs

OutboxInit ==
    /\ row = [m \in Msgs |-> NoRow]
    /\ job = [w \in Workers |-> Idle]
    /\ due = {} /\ provider = TRUE
    /\ retries = MaxRetries /\ faults = MaxFaults
    /\ accepted = [m \in Msgs |-> 0]
    /\ excused = {}

Call(m, leased, tries) ==
    [phase |-> "call", msg |-> m, leased |-> leased, left |-> SendLimit, tries |-> tries]
Start(w, j) == job' = [job EXCEPT ![w] = j]
Goto(w, phase) == Start(w, [job[w] EXCEPT !.phase = phase])
Done(w) == Start(w, Idle)
SetRow(m, r) == row' = [row EXCEPT ![m] = r]
Fault == faults > 0 /\ faults' = faults - 1

-----------------------------------------------------------------------------
(* Requests of the user.                                                    *)

\* Send: the row is stored, in the outbox and unclaimed, and the driver is called.
\* Attachments that cannot be linked are a call that fails (DriverRejects).
Send(c, m) ==
    /\ provider /\ job[c] = Idle /\ row[m].st = "none"
    /\ SetRow(m, [NoRow EXCEPT !.st = "outbox"])
    /\ Start(c, Call(m, FALSE, 0))
    /\ UNCHANGED <<due, provider, retries, faults, accepted, excused>>

SaveDraft(m) ==
    /\ row[m].st = "none"
    /\ SetRow(m, [NoRow EXCEPT !.st = "draft"])
    /\ UNCHANGED <<job, due, provider, retries, faults, accepted, excused>>

\* SendDraft reads the draft ...
SendDraft(c, m) ==
    /\ provider /\ job[c] = Idle /\ row[m].st = "draft"
    /\ Start(c, Task("draft", m, 0))
    /\ UNCHANGED <<row, due, provider, retries, faults, accepted, excused>>

\* ... and flips it into the outbox, if no one else has sent or deleted it: both
\* UpdateDraft and MarkOutbox ask for is_draft = 1.
MarkOutbox(c) ==
    LET m == job[c].msg
    IN  /\ job[c].phase = "draft"
        /\ IF row[m].st = "draft"
           THEN /\ SetRow(m, [row[m] EXCEPT !.st = "outbox"])
                /\ Start(c, Call(m, FALSE, 0))
           ELSE Done(c) /\ UNCHANGED row
        /\ UNCHANGED <<due, provider, retries, faults, accepted, excused>>

DeleteMessage(m) ==
    /\ row[m].st \in {"draft", "outbox", "sent"}
    /\ SetRow(m, [NoRow EXCEPT !.st = "gone"])
    /\ UNCHANGED <<job, due, provider, retries, faults, accepted, excused>>

\* Fault: the button releases the claim, too.
ResetReleases(c, m) ==
    /\ retries > 0 /\ retries' = retries - 1
    /\ job[c] = Idle /\ row[m].st = "outbox"
    /\ SetRow(m, [NoRow EXCEPT !.st = "outbox"])
    /\ Start(c, Task("retry", m, 0))
    /\ UNCHANGED <<due, provider, faults, accepted, excused>>

\* The retry button: attempts and back-off start over, whatever comes of the retry
\* (an error of this statement is ignored); without a provider that is all.
ResetOutboxAttempts(c, m) ==
    /\ retries > 0 /\ retries' = retries - 1
    /\ job[c] = Idle /\ row[m].st = "outbox"
    /\ \/ SetRow(m, [row[m] EXCEPT !.attempts = 0, !.wait = 0]) /\ UNCHANGED faults
       \/ Fault /\ UNCHANGED row
    /\ IF provider THEN Start(c, Task("retry", m, 0)) ELSE UNCHANGED job
    /\ UNCHANGED <<due, provider, accepted, excused>>

-----------------------------------------------------------------------------
(* The sweeper's tick.                                                      *)

\* ListOutboxDue.
Due == {m \in Msgs : Free(m) /\ row[m].attempts < MaxAttempts /\ row[m].wait = 0}

\* Without a provider the list is dropped and no attempt is used up.
SweepList ==
    /\ provider /\ job[Sweeper] = Idle /\ due = {} /\ Due # {}
    /\ due' = {[msg |-> m, tries |-> row[m].attempts] : m \in Due}
    /\ UNCHANGED <<row, job, provider, retries, faults, accepted, excused>>

\* RetrySend of the next message of the list.
SweepNext ==
    /\ job[Sweeper] = Idle
    /\ \E d \in due :
         /\ due' = due \ {d}
         /\ Start(Sweeper, Task("retry", d.msg, d.tries))
    /\ UNCHANGED <<row, provider, retries, faults, accepted, excused>>

-----------------------------------------------------------------------------
(* RetrySend, of the sweeper and of the button.                             *)

\* Another worker's call that no claim protects: Send's and SendDraft's own.
Unprotected(m) == \E w \in Workers : job[w].msg = m /\ Calling(w) /\ ~job[w].leased

\* ClaimOutbox, with the read before it: a message that has left the outbox or is
\* claimed is skipped, and costs no attempt.  The first call of a message runs
\* without a claim; a retry that slips in may deliver it again: it is excused.
Claim(w) ==
    LET m == job[w].msg
    IN  /\ job[w].phase = "retry"
        /\ IF Free(m)
           THEN /\ SetRow(m, [row[m] EXCEPT !.claim = Lease])
                /\ Start(w, Call(m, TRUE, job[w].tries))
                /\ excused' = IF Unprotected(m) THEN excused \cup {m} ELSE excused
           ELSE Done(w) /\ UNCHANGED <<row, excused>>
        /\ UNCHANGED <<due, provider, retries, faults, accepted>>

\* What an error leads to: the sweeper goes on to record an attempt.
Failed(w) == IF w = Sweeper THEN Goto(w, "failed") ELSE Done(w)

\* A statement of RetrySend before the claim fails.
ClaimFails(w) ==
    /\ Fault /\ job[w].phase = "retry"
    /\ Failed(w)
    /\ UNCHANGED <<row, due, provider, retries, accepted, excused>>

-----------------------------------------------------------------------------
(* The driver call and what follows it.                                     *)

Taken(m) == IF accepted[m] < 2 THEN accepted[m] + 1 ELSE 2

DriverAccepts(w) ==
    /\ job[w].phase = "call"
    /\ accepted' = [accepted EXCEPT ![job[w].msg] = Taken(job[w].msg)]
    /\ Goto(w, "accepted")
    /\ UNCHANGED <<row, due, provider, retries, faults, excused>>

\* Fault: a message is marked sent whatever the driver says.
DriverRejectsMarked(w) ==
    /\ job[w].phase = "call"
    /\ Goto(w, "accepted")
    /\ UNCHANGED <<row, due, provider, retries, faults, accepted, excused>>

\* An attachment that cannot be read is the same.
DriverRejects(w) ==
    /\ job[w].phase = "call"
    /\ Failed(w)
    /\ UNCHANGED <<row, due, provider, retries, faults, accepted, excused>>

\* The provider took the message and the answer was lost.
AnswerLost(w) ==
    /\ job[w].phase = "call"
    /\ accepted' = [accepted EXCEPT ![job[w].msg] = Taken(job[w].msg)]
    /\ excused' = excused \cup {job[w].msg}
    /\ Failed(w)
    /\ UNCHANGED <<row, due, provider, retries, faults>>

\* A deleted message stays deleted.
MarkSent(w) ==
    LET m == job[w].msg
    IN  /\ job[w].phase = "accepted"
        /\ SetRow(m, IF row[m].st = "outbox" THEN [row[m] EXCEPT !.st = "sent"] ELSE row[m])
        /\ Done(w)
        /\ UNCHANGED <<due, provider, retries, faults, accepted, excused>>

\* The error is ignored, also that of a request whose client has gone.
MarkSentFails(w) ==
    /\ Fault /\ job[w].phase = "accepted"
    /\ excused' = excused \cup {job[w].msg}
    /\ Done(w)
    /\ UNCHANGED <<row, due, provider, retries, accepted>>

\* 1 minute, 2, 4, ... of the attempts that were read with the list.
Backoff(tries) == IF 2 ^ tries \in 1 .. MaxBackoff THEN 2 ^ tries ELSE MaxBackoff

\* Fault: the attempt is not counted.
RecordUncounted ==
    LET m == job[Sweeper].msg
    IN  /\ job[Sweeper].phase = "failed"
        /\ SetRow(m, IF row[m].st = "outbox"
                     THEN [row[m] EXCEPT !.wait = Backoff(job[Sweeper].tries), !.claim = 0]
                     ELSE row[m])
        /\ Done(Sweeper)
        /\ UNCHANGED <<due, provider, retries, faults, accepted, excused>>

\* The claim is released whoever holds it: after an error that came before the
\* sweeper's own claim, it may be the button's, whose call then runs without one.
RecordOutboxAttempt ==
    LET m == job[Sweeper].msg
    IN  /\ job[Sweeper].phase = "failed"
        /\ IF row[m].st = "outbox"
           THEN SetRow(m, [row[m] EXCEPT !.attempts = @ + 1,
                                         !.wait = Backoff(job[Sweeper].tries), !.claim = 0])
           ELSE UNCHANGED row
        /\ excused' = IF \E c \in Clients : job[c].msg = m /\ Calling(c)
                      THEN excused \cup {m} ELSE excused
        /\ Done(Sweeper)
        /\ UNCHANGED <<due, provider, retries, faults, accepted>>

\* The error is logged; the claim, if there is one, runs out.
RecordFails ==
    /\ Fault /\ job[Sweeper].phase = "failed"
    /\ Done(Sweeper)
    /\ UNCHANGED <<row, due, provider, retries, accepted, excused>>

-----------------------------------------------------------------------------
(* The world around it.                                                     *)

\* A driver that panics is caught by the HTTP server, or ends the sweeper's tick.
Panic(w) ==
    /\ Fault /\ job[w].phase = "call"
    /\ Done(w)
    /\ due' = IF w = Sweeper THEN {} ELSE due
    /\ UNCHANGED <<row, provider, retries, accepted, excused>>

\* The process dies and is started again; calls under way may have arrived or not,
\* and what was accepted is not marked.
Crash ==
    /\ Fault
    /\ \E arrived \in SUBSET {job[w].msg : w \in {v \in Workers : job[v].phase = "call"}} :
         /\ accepted' = [m \in Msgs |-> IF m \in arrived THEN Taken(m) ELSE accepted[m]]
         /\ excused' = excused \cup arrived
                \cup {job[w].msg : w \in {v \in Workers : job[v].phase = "accepted"}}
    /\ job' = [w \in Workers |-> Idle] /\ due' = {}
    /\ UNCHANGED <<row, provider, retries>>

SwitchProvider ==
    /\ provider' = ~provider
    /\ IF provider THEN Fault ELSE UNCHANGED faults
    /\ UNCHANGED <<row, job, due, retries, accepted, excused>>

Less(n) == IF n > 0 THEN n - 1 ELSE 0

\* Time passes, but not past the limit of a call: from the claim to the statement
\* that records the outcome, a worker takes at most SendLimit.
Tick ==
    /\ \A w \in Workers : job[w].phase \in {"call", "accepted", "failed"} => job[w].left > 0
    /\ row' = [m \in Msgs |-> [row[m] EXCEPT !.wait = Less(@), !.claim = Less(@)]]
    /\ job' = [w \in Workers |-> [job[w] EXCEPT !.left = Less(@)]]
    /\ UNCHANGED <<due, provider, retries, faults, accepted, excused>>

-----------------------------------------------------------------------------
Request(c) ==
    \/ \E m \in Msgs : Send(c, m) \/ SendDraft(c, m) \/ ResetOutboxAttempts(c, m)
    \/ MarkOutbox(c)

Outcome(w) == DriverAccepts(w) \/ DriverRejects(w) \/ AnswerLost(w)

\* What a worker does with no fault.
Work(w) == Claim(w) \/ Outcome(w) \/ MarkSent(w)

Sweep == SweepList \/ SweepNext \/ RecordOutboxAttempt

OutboxNext ==
    \/ \E m \in Msgs : SaveDraft(m) \/ DeleteMessage(m)
    \/ \E c \in Clients : Request(c)
    \/ \E w \in Workers : Work(w) \/ ClaimFails(w) \/ MarkSentFails(w) \/ Panic(w)
    \/ Sweep \/ RecordFails
    \/ Crash \/ SwitchProvider \/ Tick

\* Time passes; a driver call ends and its worker goes on; the sweeper's ticker
\* fires, and the sweeper goes through its list.  No user has to do anything, and
\* a provider that is switched off need not come back.
Fairness ==
    /\ WF_vars(Tick)
    /\ \A w \in Workers : WF_vars(Work(w))
    /\ WF_vars(Sweep)

OutboxSpec == OutboxInit /\ [][OutboxNext]_vars /\ Fairness

-----------------------------------------------------------------------------
(* Properties.                                                              *)

\* A message is delivered at most once, whatever the sweeper, the retry button and
\* other tabs do at the same time, unless one of these happened: the provider's
\* answer or the MarkSent after it was lost (error, crash), a retry claimed the
\* message while its first call ran, or the sweeper released a claim of the button.
DeliveredOnce == \A m \in Msgs : accepted[m] <= 1 \/ m \in excused

\* What is shown as sent was taken by the provider, and what was taken is never
\* again a draft: after a crash it is in the outbox or in the sent folder.
SentTruthfully ==
    \A m \in Msgs : /\ row[m].st = "sent" => accepted[m] > 0
                    /\ accepted[m] > 0 => row[m].st \notin {"none", "draft"}

\* Two sends of one draft, or a save and a send, never take a message back: a draft
\* goes to the outbox, from there to the sent folder, and deletion is final.
StatusRank == [none |-> 0, draft |-> 1, outbox |-> 2, sent |-> 3, gone |-> 4]
StatusOnlyForward ==
    [][\A m \in Msgs : StatusRank[row'[m].st] >= StatusRank[row[m].st]]_row

\* No message is stranded in the outbox: while there is a provider, the sweeper
\* gets it out or uses up its attempts, also after crashes and expired claims.
OutboxDrains ==
    \A m \in Msgs : []<>(row[m].st # "outbox" \/ row[m].attempts = MaxAttempts \/ ~provider)

\* "not currently being sent by another worker" (ListOutboxDue, repository.go:571):
\* expected to be violated, because Send calls the driver without a claim.
DueNotBeingSent == \A m \in Due : \A w \in Workers : ~(job[w].msg = m /\ Calling(w))
=============================================================================
