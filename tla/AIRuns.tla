------------------------------- MODULE AIRuns -------------------------------
(***************************************************************************)
(* Assistant runs of the AI module (internal/ai): one conversation, its    *)
(* transcript (conv/repository.go, conv/service.go), the runs that answer  *)
(* prompts (agent/agent.go, handler/handler.go) in one or more server      *)
(* processes, the lease that keeps two of them apart, and the              *)
(* administrator (handler/admin.go).                                       *)
(*                                                                         *)
(* A statement or a transaction is one step.  Time is counted in heartbeat *)
(* intervals: Ttl is runLeaseTTL (30 minutes) and Beat the heartbeat       *)
(* (Ttl / 3); a heartbeat may be Late by so much.                          *)
(*                                                                         *)
(* Bounds: MaxRuns stream requests in all, MaxTurns model calls of a run   *)
(* (snap_max_turns), CallCounts how many tools an answer calls, HistoryMax*)
(* (MaxHistoryMessages, 50), MaxTitles renames.                            *)
(***************************************************************************)
EXTENDS Integers, Sequences, FiniteSets

CONSTANTS Servers, MaxRuns, Ttl, Beat, Late, MaxTurns, CallCounts, HistoryMax, MaxTitles
ASSUME AIAssumption ==
    /\ {MaxRuns, Ttl, Beat, MaxTurns, HistoryMax} \cup CallCounts \subseteq Nat \ {0} /\ {Late, MaxTitles} \subseteq Nat
    /\ Beat + Late < Ttl

VARIABLES
    conv,       \* ai_conversations: st, titled, revision
    msgs,       \* ai_messages in seq order
    lock,       \* ai_run_locks: the run and the time its lease has left
    run,        \* stream requests and their runs
    renames,    \* renames so far
    taken       \* history: runs whose lease an administrator has deleted

vars == <<conv, msgs, lock, run, renames, taken>>

\* Runs are numbered in the order of their requests; 0 is none.
Runs == 1..MaxRuns
NoLock == [run |-> 0, left |-> 0]
Idle == [st |-> "idle", srv |-> CHOOSE s \in Servers : TRUE, expected |-> 0, seen |-> 0,
         turn |-> 0, calls |-> 0, beat |-> 0, title |-> FALSE]

Init ==
    /\ conv = [st |-> "none", titled |-> FALSE, revision |-> 0]
    /\ msgs = <<>> /\ lock = NoLock
    /\ run = [r \in Runs |-> Idle] /\ renames = 0 /\ taken = {}

Set(r, st) == run' = [run EXCEPT ![r].st = st]
\* What is left of a run that only has to release its lock, or is over.
Rest(r, st) == [Idle EXCEPT !.st = st, !.srv = run[r].srv, !.title = run[r].title]
Leave(r, st) == run' = [run EXCEPT ![r] = Rest(r, st)]
\* activeRuns of the process s.
Underway == {"locked", "leased", "resolved", "turn", "answer", "calls", "batch", "stalled", "end"}
ActiveRuns(s) == {r \in Runs : run[r].srv = s /\ run[r].st \in Underway}
\* The runs that believe they hold the lease, and may write.
Writing == {"leased", "resolved", "turn", "answer", "calls", "batch", "stalled"}

-----------------------------------------------------------------------------
(* Conversations: handler.go, conv/repository.go *)

\* The settings of the agent that the service checks and copies are MaxTurns.
NewConversation(titled) == [st |-> "live", titled |-> titled, revision |-> 1]
Create(c) == conv.st = "none" /\ conv' = c

createConversation ==
    /\ \E titled \in BOOLEAN : Create(NewConversation(titled))
    /\ UNCHANGED <<msgs, lock, run, renames, taken>>

SoftDelete ==
    /\ conv.st = "live"
    /\ conv' = [conv EXCEPT !.st = "deleted", !.revision = @ + 1]

deleteConversation == SoftDelete /\ UNCHANGED <<msgs, lock, run, renames, taken>>

SetTitle ==
    /\ conv.st = "live"
    /\ \E titled \in BOOLEAN : conv' = [conv EXCEPT !.titled = titled, !.revision = @ + 1]

patchConversation ==
    /\ renames < MaxTitles /\ renames' = renames + 1
    /\ SetTitle
    /\ UNCHANGED <<msgs, lock, run, taken>>

SetTitleIfEmpty ==
    conv' = IF conv.st = "live" /\ ~conv.titled
            THEN [conv EXCEPT !.titled = TRUE, !.revision = @ + 1] ELSE conv

\* The background title of a stream that began without one: a failure is dropped.
AutoTitle(r) ==
    /\ run[r].title
    /\ SetTitleIfEmpty \/ UNCHANGED conv
    /\ run' = [run EXCEPT ![r].title = FALSE]
    /\ UNCHANGED <<msgs, lock, renames, taken>>

-----------------------------------------------------------------------------
(* The transcript *)

\* after: the length of the transcript the sender of a prompt has read (history).
Row(role, ids, after) == [role |-> role, ids |-> ids, after |-> after]

\* Fault: only a conditional append bumps the revision.
tryAppendMessageQuiet(m, expected) ==
    /\ expected > 0 => conv.st = "live" /\ conv.revision = expected
    /\ msgs' = Append(msgs, m)
    /\ conv' = IF expected > 0 THEN [conv EXCEPT !.revision = @ + 1] ELSE conv

\* A single message; expected = 0 does not ask for a revision.
tryAppendMessage(m, expected) ==
    /\ expected > 0 => conv.st = "live" /\ conv.revision = expected
    /\ msgs' = Append(msgs, m)
    /\ conv' = [conv EXCEPT !.revision = @ + 1]

\* The ownership guard does not look at deleted_at.
appendMessage(m, expected) == conv.st # "none" /\ tryAppendMessage(m, expected)

tryAppendMessages(ms) ==
    /\ msgs' = msgs \o ms
    /\ conv' = [conv EXCEPT !.revision = @ + 1]

AppendUserMessageIfRevision(r) == appendMessage(Row("user", <<>>, run[r].seen), run[r].expected)
AppendAssistantMessageWithUsage(r) == appendMessage(Row("assistant", <<>>, 0), 0)

\* The deltas of an answer are gathered by the number of their call; a call gets
\* an id of its turn and number.
completedToolCalls(r) == [i \in 1..run[r].calls |-> <<run[r].turn, i>>]

\* The answer and the result of each of its calls, in one transaction.
AppendAssistantToolExchange(r) ==
    LET ids == completedToolCalls(r) IN
      tryAppendMessages(<<Row("assistant", ids, 0)>> \o [i \in DOMAIN ids |-> Row("tool", <<ids[i]>>, 0)])

hasCompleteToolResults(h, i) ==
    /\ i + Len(h[i].ids) <= Len(h)
    /\ \A k \in DOMAIN h[i].ids : h[i + k].role = "tool" /\ h[i + k].ids = <<h[i].ids[k]>>

\* Plain rows, and calls with all of their results.
repairToolTranscript(h) ==
    LET calls == {i \in DOMAIN h : h[i].role = "assistant" /\ h[i].ids # <<>> /\ hasCompleteToolResults(h, i)}
        plain == {i \in DOMAIN h : h[i].role # "tool" /\ (h[i].role = "assistant" => h[i].ids = <<>>)}
        kept  == plain \cup UNION {i .. i + Len(h[i].ids) : i \in calls}
        out[i \in 0..Len(h)] == IF i = 0 THEN <<>>
                                ELSE IF i \in kept THEN Append(out[i-1], h[i]) ELSE out[i-1]
    IN  out[Len(h)]

LastRows(h, n) == IF Len(h) > n THEN SubSeq(h, Len(h) - n + 1, Len(h)) ELSE h

\* Fault: the cut is not repaired.
trimHistoryCut(h, n) == LastRows(h, n)

trimHistory(h, n) == repairToolTranscript(LastRows(h, n))

\* What a run would send the model now: the rows in order, cut and repaired.
\* The system prompt in front of them is the conversation's own.
ListMessages == msgs
History == ListMessages
Request(n) == trimHistory(History, n)

-----------------------------------------------------------------------------
(* The lease: conv/repository.go *)

\* Fault: whoever asks takes the lease.
AcquireRunLeaseAnyway(r) == conv.st = "live" /\ lock' = [run |-> r, left |-> Ttl]

\* An expired lease is cleared; any other is a conflict.
AcquireRunLease(r) ==
    /\ conv.st = "live" /\ lock.left = 0
    /\ lock' = [run |-> r, left |-> Ttl]

ReleaseRunLease(r) == lock' = IF lock.run = r THEN NoLock ELSE lock
RenewRunLease(r)   == lock.run = r /\ lock' = [lock EXCEPT !.left = Ttl]

-----------------------------------------------------------------------------
(* A run: handler.go stream, agent.go run *)

\* A client that keeps its connection open and reads no more: the buffer fills, a
\* write has no deadline, so an event is never taken and the run gets no further,
\* while its heartbeat goes on.
sendEvent(r) == run' = [run EXCEPT ![r] = [Rest(r, "stalled") EXCEPT !.beat = run[r].beat]]

\* The conversation is read, with its revision, and the run is started.  The
\* processes are alike, so the first request goes to a fixed one.
stream(r, s) ==
    /\ run[r].st = "idle" /\ \A q \in 1..r-1 : run[q].st # "idle"
    /\ r = 1 => s = Idle.srv
    /\ conv.st # "none"
    /\ run' = [run EXCEPT ![r] = [Idle EXCEPT !.st = "read", !.srv = s, !.expected = conv.revision,
                                              !.seen = Len(msgs), !.title = ~conv.titled]]
    /\ UNCHANGED <<conv, msgs, lock, renames, taken>>

rest == <<renames, taken>>

tryLockRun(r) ==
    /\ run[r].st = "read"
    /\ IF ActiveRuns(run[r].srv) = {} THEN Set(r, "locked") ELSE Leave(r, "over")
    /\ UNCHANGED <<conv, msgs, lock, rest>>

TakeLease(r) ==
    /\ run[r].st = "locked" /\ AcquireRunLease(r)
    /\ run' = [run EXCEPT ![r].st = "leased", ![r].beat = Beat]
    /\ UNCHANGED <<conv, msgs, rest>>

Refused(r) ==
    /\ run[r].st = "locked" /\ (conv.st # "live" \/ lock.left # 0)
    /\ Leave(r, "over")
    /\ UNCHANGED <<conv, msgs, lock, rest>>

\* An administrator may have taken the last active provider away.
ResolveProvider(r) ==
    /\ run[r].st = "leased"
    /\ Set(r, "resolved") \/ Leave(r, "end")
    /\ UNCHANGED <<conv, msgs, lock, rest>>

StorePrompt(r) ==
    /\ run[r].st = "resolved" /\ AppendUserMessageIfRevision(r)
    /\ run' = [run EXCEPT ![r].st = "turn", ![r].expected = 0, ![r].seen = 0]
    /\ UNCHANGED <<lock, rest>>

PromptRefused(r) ==
    /\ run[r].st = "resolved" /\ (conv.st # "live" \/ conv.revision # run[r].expected)
    /\ Leave(r, "end")
    /\ UNCHANGED <<conv, msgs, lock, rest>>

\* The model answers in words, calls tools, or fails.
ChatStream(r) ==
    /\ run[r].st = "turn"
    /\ \/ Set(r, "answer")
       \/ \E n \in CallCounts : run' = [run EXCEPT ![r].st = "calls", ![r].calls = n]
       \/ Leave(r, "end")
    /\ UNCHANGED <<conv, msgs, lock, rest>>

\* The answer is stored, and then the client is told.
FinalAnswer(r) ==
    /\ run[r].st = "answer" /\ AppendAssistantMessageWithUsage(r)
    /\ Leave(r, "end") \/ sendEvent(r)
    /\ UNCHANGED <<lock, rest>>

\* Every call gets a result, if only an error, and then AppendMessages looks
\* whether the conversation is still there ...
dispatch(r) ==
    /\ run[r].st = "calls"
    /\ IF conv.st = "live" THEN Set(r, "batch") ELSE Leave(r, "end")
    /\ UNCHANGED <<conv, msgs, lock, rest>>

\* ... before its transaction.
AppendMessages(r) ==
    /\ run[r].st = "batch" /\ AppendAssistantToolExchange(r)
    /\ run' = [run EXCEPT ![r] = IF run[r].turn + 1 < MaxTurns
                                 THEN [@ EXCEPT !.st = "turn", !.turn = run[r].turn + 1, !.calls = 0]
                                 ELSE Rest(r, "end")]
    /\ UNCHANGED <<lock, rest>>

\* The deferred release, whose error is dropped, and then the unlock; between
\* the two the process only refuses streams, so they are one step.
Finish(r) ==
    /\ run[r].st = "end" /\ Leave(r, "over")
    /\ ReleaseRunLease(r) \/ UNCHANGED lock
    /\ UNCHANGED <<conv, msgs, rest>>

run_(r) ==
    \/ tryLockRun(r) \/ TakeLease(r) \/ Refused(r) \/ ResolveProvider(r)
    \/ StorePrompt(r) \/ PromptRefused(r) \/ ChatStream(r) \/ FinalAnswer(r)
    \/ dispatch(r) \/ AppendMessages(r) \/ Finish(r)

\* The client stops reading while the model's answer or a call is sent to it.
Stall(r) ==
    /\ run[r].st \in {"turn", "calls"} /\ sendEvent(r)
    /\ UNCHANGED <<conv, msgs, lock, rest>>

\* The heartbeat: a lease that is gone, or a failed statement, cancels the run,
\* which then fails at its next step, or in the sending of an event.
Renew(r) ==
    \/ RenewRunLease(r) /\ run' = [run EXCEPT ![r].beat = Beat]
    \/ Leave(r, "end") /\ UNCHANGED lock

\* Fault: the heartbeat outlives its run.
HeartbeatForever(r) ==
    /\ run[r].st = "over" \/ (run[r].st \in Writing /\ run[r].beat <= 0)
    /\ RenewRunLease(r) /\ run' = [run EXCEPT ![r].beat = IF @ = 0 THEN 0 ELSE Beat]
    /\ UNCHANGED <<conv, msgs, rest>>

Heartbeat(r) ==
    /\ run[r].st \in Writing /\ run[r].beat <= 0
    /\ Renew(r)
    /\ UNCHANGED <<conv, msgs, rest>>

\* The client goes away, or a frame cannot be written.
Disconnect(r) ==
    /\ run[r].st \in Underway \ {"end"}
    /\ Leave(r, IF run[r].st = "locked" THEN "over" ELSE "end")
    /\ UNCHANGED <<conv, msgs, lock, rest>>

-----------------------------------------------------------------------------
(* The administrator, time and crashes *)

DeleteRunLease(r) == lock.run = r /\ lock' = NoLock

deleteRun ==
    /\ lock # NoLock /\ DeleteRunLease(lock.run)
    /\ taken' = taken \cup {lock.run}
    /\ UNCHANGED <<conv, msgs, run, renames>>

Down(n) == IF n > 0 THEN n - 1 ELSE 0

\* No heartbeat is more than Late overdue.
Tick ==
    /\ \A r \in Runs : run[r].st \in Writing => run[r].beat > -Late
    /\ lock' = [lock EXCEPT !.left = Down(@)]
    /\ run' = [r \in Runs |-> IF run[r].st \in Writing THEN [run[r] EXCEPT !.beat = @ - 1] ELSE run[r]]
    /\ UNCHANGED <<conv, msgs, rest>>

\* A process dies with its runs; the rows stay, a lease too.
Crash(s) ==
    /\ \E r \in Runs : run[r].srv = s /\ run[r].st \notin {"idle", "over"}
    /\ run' = [r \in Runs |-> IF run[r].srv = s /\ run[r].st # "idle"
                              THEN [Rest(r, "over") EXCEPT !.title = FALSE] ELSE run[r]]
    /\ UNCHANGED <<conv, msgs, lock, rest>>

Next ==
    \/ createConversation \/ deleteConversation \/ patchConversation
    \/ \E r \in Runs : \/ \E s \in Servers : stream(r, s)
                       \/ run_(r) \/ Stall(r) \/ AutoTitle(r) \/ Heartbeat(r) \/ Disconnect(r)
    \/ deleteRun \/ Tick
    \/ \E s \in Servers : Crash(s)

\* Model calls and tools have time-outs, so a run goes on whose client reads; a
\* stalled one has no step of its own.  Time goes on, and so does the heartbeat.
Spec ==
    /\ Init /\ [][Next]_vars /\ WF_vars(Tick)
    /\ \A r \in Runs : WF_vars(run_(r)) /\ WF_vars(Heartbeat(r))

-----------------------------------------------------------------------------
(* Properties. *)

\* Two runs never write to a conversation at the same time, in whatever
\* processes they are, through late heartbeats, crashes and leases that run out;
\* but for a run whose lease an administrator has deleted under it.
OneWriter ==
    \A r, q \in Runs :
        r # q /\ {run[r].st, run[q].st} \subseteq Writing
            => {r, q} \cap taken # {}

\* A prompt is stored right after the transcript that its sender's request read,
\* whatever runs, titles and renames happen in between.
PromptFollowsRead ==
    \A i \in DOMAIN msgs : msgs[i].role = "user" => i = msgs[i].after + 1

\* What a model is asked with is a transcript it can take, at every length the
\* history is cut to and whichever runs overlap: each call has its results right
\* behind it, no result is without its call, and nothing is dropped but the
\* results whose call the cut took off.
Opening(h) == CHOOSE n \in 0..Len(h) : /\ \A k \in 1..n : h[k].role = "tool"
                                       /\ n < Len(h) => h[n + 1].role # "tool"
RequestsWhole ==
    \A n \in 1..HistoryMax :
        LET h == LastRows(msgs, n) IN Request(n) = SubSeq(h, Opening(h) + 1, Len(h))

\* A conversation does not stay locked: whoever took the lease gives it back, or
\* it runs out, also when the release fails, the client goes away or the process
\* dies; but for a run whose client stays and reads no more, which keeps it.
LeaseFreed ==
    \A r \in Runs : (lock.run = r) ~> (lock.run # r \/ lock.left = 0 \/ run[r].st = "stalled")
=============================================================================
