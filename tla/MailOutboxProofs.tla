-------------------------- MODULE MailOutboxProofs --------------------------
(***************************************************************************)
(* Theorems about MailOutbox for every set of messages and clients, every  *)
(* lease longer than a call, and every cap on attempts and back-off.       *)
(***************************************************************************)
EXTENDS MailOutbox, TLAPS

\* A worker that calls the driver has put its message into the outbox before, and
\* one that was accepted is counted.
CallsFollowRows ==
    \A w \in Workers :
        /\ Calling(w) => row[job[w].msg].st \in {"outbox", "sent", "gone"}
        /\ job[w].phase = "accepted" => accepted[job[w].msg] > 0

\* A message on the sweeper's list, or in its hands, has an attempt left, and the
\* sweeper has it once.
AttemptLeft ==
    /\ \A d \in due : row[d.msg].attempts < MaxAttempts
    /\ \A d, e \in due : d.msg = e.msg => d = e
    /\ job[Sweeper].phase \in {"retry", "call", "accepted", "failed"}
          => \A d \in due : d.msg # job[Sweeper].msg
    /\ job[Sweeper].phase \in {"retry", "call", "failed"}
          => row[job[Sweeper].msg].attempts < MaxAttempts

\* One call per message.
SoleCall ==
    \A v, w \in Workers :
        Calling(v) /\ Calling(w) /\ job[v].msg = job[w].msg /\ job[v].msg \notin excused => v = w

\* A claim outlives the call it was taken for.
ClaimOutlives ==
    \A w \in Workers :
        Calling(w) /\ job[w].leased /\ job[w].msg \notin excused
            => /\ row[job[w].msg].st \in {"outbox", "gone"}
               /\ row[job[w].msg].st = "outbox" => row[job[w].msg].claim > job[w].left

\* A message under way has not been marked sent, and before the provider answers
\* it has not been accepted.
CallIsFirst ==
    \A w \in Workers :
        Calling(w) /\ job[w].msg \notin excused
            => /\ row[job[w].msg].st # "sent"
               /\ job[w].phase = "call" => accepted[job[w].msg] = 0

\* What was accepted is marked, deleted, or about to be marked.
AcceptedIsMarked ==
    \A m \in Msgs \ excused :
        accepted[m] > 0 =>
            \/ row[m].st \in {"sent", "gone"}
            \/ \E w \in Workers : job[w].phase = "accepted" /\ job[w].msg = m

\* What makes the two safety invariants inductive.
CallInv ==
    /\ CallsFollowRows /\ AttemptLeft
    /\ SoleCall /\ ClaimOutlives /\ CallIsFirst /\ AcceptedIsMarked
    /\ SentTruthfully /\ DeliveredOnce

IInv == OutboxTypeOK /\ CallInv

-----------------------------------------------------------------------------
(* Types.                                                                   *)

JobsOK ==
    /\ job \in [Workers -> Job]
    /\ \A w \in Workers : job[w].phase # "idle" => job[w].msg \in Msgs

\* A worker that has something to do has a message.
LEMMA Busy ==
    ASSUME JobsOK, NEW w \in Workers, job[w].phase # "idle"
    PROVE  job[w] \in Job /\ job[w].msg \in Msgs
BY DEF JobsOK, Idle, Task

\* Tasks, calls and the idle job are jobs.
LEMMA IdleTyped == Idle \in Job /\ Idle.phase = "idle"
BY LeaseAssumption DEF Idle, Task, Job

\* Setting one worker's job keeps the jobs well formed.
LEMMA StartTyped ==
    ASSUME JobsOK, NEW w \in Workers, NEW j \in Job, j.phase # "idle" => j.msg \in Msgs, Start(w, j)
    PROVE  JobsOK'
BY DEF JobsOK, Start, Idle, Task

\* So does going on to the next phase ...
LEMMA GotoTyped ==
    ASSUME JobsOK, NEW w \in Workers, NEW p \in {"accepted", "failed"},
           job[w].phase # "idle", Goto(w, p)
    PROVE  JobsOK'
<1>1. [job[w] EXCEPT !.phase = p] \in Job /\ [job[w] EXCEPT !.phase = p].msg \in Msgs
  BY Busy DEF Job
<1> QED BY <1>1, StartTyped DEF Goto

\* ... and being done.
LEMMA DoneTyped ==
    ASSUME JobsOK, NEW w \in Workers, Done(w)
    PROVE  JobsOK'
BY IdleTyped, StartTyped DEF Done

\* Fresh rows have no attempts.
LEMMA ZeroTyped == 0 \in 0 .. MaxAttempts
BY LeaseAssumption

\* Starting a driver call, or a task before one, keeps the jobs well formed.
LEMMA CallStarted ==
    ASSUME JobsOK, NEW w \in Workers, NEW m \in Msgs, NEW b \in BOOLEAN,
           NEW t \in 0 .. MaxAttempts, Start(w, Call(m, b, t))
    PROVE  JobsOK'
<1>1. Call(m, b, t) \in Job /\ Call(m, b, t).msg \in Msgs
  BY LeaseAssumption DEF Call, Job
<1> QED BY <1>1, StartTyped

LEMMA TaskStarted ==
    ASSUME JobsOK, NEW w \in Workers, NEW p \in {"draft", "retry"}, NEW m \in Msgs,
           NEW t \in 0 .. MaxAttempts, Start(w, Task(p, m, t))
    PROVE  JobsOK'
<1>1. Task(p, m, t) \in Job /\ Task(p, m, t).msg \in Msgs
  BY LeaseAssumption DEF Task, Job
<1> QED BY <1>1, StartTyped

\* Writing one row keeps the table well formed; the rows the statements write are rows.
LEMMA SetRowTyped ==
    ASSUME row \in [Msgs -> Row], NEW m \in Msgs, NEW r \in Row, SetRow(m, r)
    PROVE  row' \in [Msgs -> Row]
BY DEF SetRow

LEMMA NewRowTyped ==
    ASSUME NEW st \in Statuses
    PROVE  [NoRow EXCEPT !.st = st] \in Row
BY LeaseAssumption DEF Row, NoRow

LEMMA RowStTyped ==
    ASSUME NEW r \in Row, NEW st \in Statuses
    PROVE  [r EXCEPT !.st = st] \in Row
BY DEF Row

LEMMA RowClaimTyped ==
    ASSUME NEW r \in Row
    PROVE  [r EXCEPT !.claim = Lease] \in Row
BY LeaseAssumption DEF Row

LEMMA RowResetTyped ==
    ASSUME NEW r \in Row
    PROVE  [r EXCEPT !.attempts = 0, !.wait = 0] \in Row
<1>1. 0 \in 0 .. MaxAttempts /\ 0 \in 0 .. MaxBackoff
  BY LeaseAssumption
<1> QED BY <1>1 DEF Row

\* RecordOutboxAttempt counts within the cap, if an attempt was left.
LEMMA RowTriedTyped ==
    ASSUME NEW r \in Row, r.attempts < MaxAttempts, NEW t \in 0 .. MaxAttempts
    PROVE  [r EXCEPT !.attempts = @ + 1, !.wait = Backoff(t), !.claim = 0] \in Row
<1>1. Backoff(t) \in 0 .. MaxBackoff
  BY LeaseAssumption DEF Backoff
<1>2. r.attempts + 1 \in 0 .. MaxAttempts /\ 0 \in 0 .. Lease
  BY LeaseAssumption DEF Row
<1> QED BY <1>1, <1>2 DEF Row

\* Timers run down to 0.
LEMMA RowOlderTyped ==
    ASSUME NEW r \in Row
    PROVE  [r EXCEPT !.wait = Less(@), !.claim = Less(@)] \in Row
<1>1. r.wait \in 0 .. MaxBackoff /\ r.claim \in 0 .. Lease
  BY DEF Row
<1>2. Less(r.wait) \in 0 .. MaxBackoff /\ Less(r.claim) \in 0 .. Lease
  BY <1>1, LeaseAssumption DEF Less
<1> QED BY <1>2 DEF Row

LEMMA JobOlderTyped ==
    ASSUME NEW j \in Job
    PROVE  /\ [j EXCEPT !.left = Less(@)] \in Job
           /\ [j EXCEPT !.left = Less(@)].msg = j.msg
           /\ [j EXCEPT !.left = Less(@)].phase = j.phase
<1>1. j.left \in 0 .. SendLimit
  BY DEF Job
<1>2. Less(j.left) \in 0 .. SendLimit
  BY <1>1, LeaseAssumption DEF Less
<1>3. [j EXCEPT !.left = Less(@)] \in Job
  BY <1>2 DEF Job
<1> QED BY <1>3 DEF Job

\* Every action keeps the types.
LEMMA TypeStep ==
    ASSUME OutboxTypeOK, AttemptLeft, OutboxNext
    PROVE  OutboxTypeOK'
<1> USE DEF OutboxTypeOK
<1>0. JobsOK /\ row \in [Msgs -> Row] /\ Clients \subseteq Workers /\ Sweeper \in Workers
  BY DEF JobsOK, Workers
<1>1. ASSUME NEW m \in Msgs, SaveDraft(m)
     PROVE  OutboxTypeOK'
  <2>1. JobsOK'
    BY <1>0, <1>1 DEF SaveDraft, JobsOK
  <2>2. row' \in [Msgs -> Row]
    BY <1>0, <1>1, NewRowTyped, SetRowTyped DEF SaveDraft, Statuses
  <2>3. due' \subseteq [msg : Msgs, tries : 0 .. MaxAttempts - 1] /\ provider' \in BOOLEAN
    BY <1>1 DEF SaveDraft
  <2>4. retries' \in 0 .. MaxRetries /\ faults' \in 0 .. MaxFaults
    BY <1>1 DEF SaveDraft
  <2>5. accepted' \in [Msgs -> 0 .. 2] /\ excused' \subseteq Msgs
    BY <1>1 DEF SaveDraft
  <2> QED BY <2>1, <2>2, <2>3, <2>4, <2>5 DEF JobsOK
<1>2. ASSUME NEW m \in Msgs, DeleteMessage(m)
     PROVE  OutboxTypeOK'
  <2>1. JobsOK'
    BY <1>0, <1>2 DEF DeleteMessage, JobsOK
  <2>2. row' \in [Msgs -> Row]
    BY <1>0, <1>2, NewRowTyped, SetRowTyped DEF DeleteMessage, Statuses
  <2>3. due' \subseteq [msg : Msgs, tries : 0 .. MaxAttempts - 1] /\ provider' \in BOOLEAN
    BY <1>2 DEF DeleteMessage
  <2>4. retries' \in 0 .. MaxRetries /\ faults' \in 0 .. MaxFaults
    BY <1>2 DEF DeleteMessage
  <2>5. accepted' \in [Msgs -> 0 .. 2] /\ excused' \subseteq Msgs
    BY <1>2 DEF DeleteMessage
  <2> QED BY <2>1, <2>2, <2>3, <2>4, <2>5 DEF JobsOK
<1>3. ASSUME NEW c \in Clients, NEW m \in Msgs, Send(c, m)
     PROVE  OutboxTypeOK'
  <2>1. JobsOK'
    BY <1>0, <1>3, CallStarted, ZeroTyped DEF Send
  <2>2. row' \in [Msgs -> Row]
    BY <1>0, <1>3, NewRowTyped, SetRowTyped DEF Send, Statuses
  <2>3. due' \subseteq [msg : Msgs, tries : 0 .. MaxAttempts - 1] /\ provider' \in BOOLEAN
    BY <1>3 DEF Send
  <2>4. retries' \in 0 .. MaxRetries /\ faults' \in 0 .. MaxFaults
    BY <1>3 DEF Send
  <2>5. accepted' \in [Msgs -> 0 .. 2] /\ excused' \subseteq Msgs
    BY <1>3 DEF Send
  <2> QED BY <2>1, <2>2, <2>3, <2>4, <2>5 DEF JobsOK
<1>4. ASSUME NEW c \in Clients, NEW m \in Msgs, SendDraft(c, m)
     PROVE  OutboxTypeOK'
  <2>1. JobsOK'
    BY <1>0, <1>4, TaskStarted, ZeroTyped DEF SendDraft
  <2>2. row' \in [Msgs -> Row]
    BY <1>0, <1>4 DEF SendDraft
  <2>3. due' \subseteq [msg : Msgs, tries : 0 .. MaxAttempts - 1] /\ provider' \in BOOLEAN
    BY <1>4 DEF SendDraft
  <2>4. retries' \in 0 .. MaxRetries /\ faults' \in 0 .. MaxFaults
    BY <1>4 DEF SendDraft
  <2>5. accepted' \in [Msgs -> 0 .. 2] /\ excused' \subseteq Msgs
    BY <1>4 DEF SendDraft
  <2> QED BY <2>1, <2>2, <2>3, <2>4, <2>5 DEF JobsOK
<1>5. ASSUME NEW c \in Clients, NEW m \in Msgs, ResetOutboxAttempts(c, m)
     PROVE  OutboxTypeOK'
  <2>1. JobsOK'
    BY <1>0, <1>5, TaskStarted, ZeroTyped DEF ResetOutboxAttempts, JobsOK
  <2>2. row' \in [Msgs -> Row]
    BY <1>0, <1>5, RowResetTyped, SetRowTyped DEF ResetOutboxAttempts
  <2>3. due' \subseteq [msg : Msgs, tries : 0 .. MaxAttempts - 1] /\ provider' \in BOOLEAN
    BY <1>5 DEF ResetOutboxAttempts
  <2>4. retries' \in 0 .. MaxRetries /\ faults' \in 0 .. MaxFaults
    BY <1>5, LeaseAssumption DEF ResetOutboxAttempts, Fault
  <2>5. accepted' \in [Msgs -> 0 .. 2] /\ excused' \subseteq Msgs
    BY <1>5 DEF ResetOutboxAttempts
  <2> QED BY <2>1, <2>2, <2>3, <2>4, <2>5 DEF JobsOK
<1>6. ASSUME NEW c \in Clients, MarkOutbox(c)
     PROVE  OutboxTypeOK'
  <2>0. job[c].msg \in Msgs /\ job[c].tries \in 0 .. MaxAttempts
    BY <1>0, <1>6, Busy DEF MarkOutbox, Job
  <2>1. JobsOK'
    BY <1>0, <1>6, <2>0, CallStarted, ZeroTyped, DoneTyped DEF MarkOutbox
  <2>2. row' \in [Msgs -> Row]
    BY <1>0, <1>6, <2>0, RowStTyped, SetRowTyped DEF MarkOutbox, Statuses
  <2>3. due' \subseteq [msg : Msgs, tries : 0 .. MaxAttempts - 1] /\ provider' \in BOOLEAN
    BY <1>6 DEF MarkOutbox
  <2>4. retries' \in 0 .. MaxRetries /\ faults' \in 0 .. MaxFaults
    BY <1>6 DEF MarkOutbox
  <2>5. accepted' \in [Msgs -> 0 .. 2] /\ excused' \subseteq Msgs
    BY <1>6, <2>0 DEF MarkOutbox
  <2> QED BY <2>1, <2>2, <2>3, <2>4, <2>5 DEF JobsOK
<1>7. ASSUME SweepList
     PROVE  OutboxTypeOK'
  <2>1. JobsOK'
    BY <1>0, <1>7 DEF SweepList, JobsOK
  <2>2. row' \in [Msgs -> Row]
    BY <1>0, <1>7 DEF SweepList
  <2>3. due' \subseteq [msg : Msgs, tries : 0 .. MaxAttempts - 1] /\ provider' \in BOOLEAN
    BY <1>0, <1>7, LeaseAssumption DEF SweepList, Due, Row
  <2>4. retries' \in 0 .. MaxRetries /\ faults' \in 0 .. MaxFaults
    BY <1>7 DEF SweepList
  <2>5. accepted' \in [Msgs -> 0 .. 2] /\ excused' \subseteq Msgs
    BY <1>7 DEF SweepList
  <2> QED BY <2>1, <2>2, <2>3, <2>4, <2>5 DEF JobsOK
<1>8. ASSUME SweepNext
     PROVE  OutboxTypeOK'
  <2>1. JobsOK'
    <3>1. PICK d \in due : Start(Sweeper, Task("retry", d.msg, d.tries))
      BY <1>8 DEF SweepNext
    <3>2. d.msg \in Msgs /\ d.tries \in 0 .. MaxAttempts
      BY LeaseAssumption
    <3> QED BY <1>0, <3>1, <3>2, TaskStarted
  <2>2. row' \in [Msgs -> Row]
    BY <1>0, <1>8 DEF SweepNext
  <2>3. due' \subseteq [msg : Msgs, tries : 0 .. MaxAttempts - 1] /\ provider' \in BOOLEAN
    BY <1>8 DEF SweepNext
  <2>4. retries' \in 0 .. MaxRetries /\ faults' \in 0 .. MaxFaults
    BY <1>8 DEF SweepNext
  <2>5. accepted' \in [Msgs -> 0 .. 2] /\ excused' \subseteq Msgs
    BY <1>8 DEF SweepNext
  <2> QED BY <2>1, <2>2, <2>3, <2>4, <2>5 DEF JobsOK
<1>9. ASSUME NEW w \in Workers, Claim(w)
     PROVE  OutboxTypeOK'
  <2>0. job[w].msg \in Msgs /\ job[w].tries \in 0 .. MaxAttempts
    BY <1>0, <1>9, Busy DEF Claim, Job
  <2>1. JobsOK'
    BY <1>0, <1>9, <2>0, CallStarted, DoneTyped DEF Claim
  <2>2. row' \in [Msgs -> Row]
    BY <1>0, <1>9, <2>0, RowClaimTyped, SetRowTyped DEF Claim
  <2>3. due' \subseteq [msg : Msgs, tries : 0 .. MaxAttempts - 1] /\ provider' \in BOOLEAN
    BY <1>9 DEF Claim
  <2>4. retries' \in 0 .. MaxRetries /\ faults' \in 0 .. MaxFaults
    BY <1>9 DEF Claim
  <2>5. accepted' \in [Msgs -> 0 .. 2] /\ excused' \subseteq Msgs
    BY <1>9, <2>0 DEF Claim
  <2> QED BY <2>1, <2>2, <2>3, <2>4, <2>5 DEF JobsOK
<1>10. ASSUME NEW w \in Workers, ClaimFails(w)
     PROVE  OutboxTypeOK'
  <2>1. JobsOK'
    BY <1>0, <1>10, GotoTyped, DoneTyped DEF ClaimFails, Failed
  <2>2. row' \in [Msgs -> Row]
    BY <1>0, <1>10 DEF ClaimFails
  <2>3. due' \subseteq [msg : Msgs, tries : 0 .. MaxAttempts - 1] /\ provider' \in BOOLEAN
    BY <1>10 DEF ClaimFails
  <2>4. retries' \in 0 .. MaxRetries /\ faults' \in 0 .. MaxFaults
    BY <1>10, LeaseAssumption DEF ClaimFails, Fault
  <2>5. accepted' \in [Msgs -> 0 .. 2] /\ excused' \subseteq Msgs
    BY <1>10 DEF ClaimFails
  <2> QED BY <2>1, <2>2, <2>3, <2>4, <2>5 DEF JobsOK
<1>11. ASSUME NEW w \in Workers, DriverAccepts(w)
     PROVE  OutboxTypeOK'
  <2>0. job[w].msg \in Msgs /\ job[w].tries \in 0 .. MaxAttempts
    BY <1>0, <1>11, Busy DEF DriverAccepts, Job
  <2>1. JobsOK'
    BY <1>0, <1>11, GotoTyped DEF DriverAccepts
  <2>2. row' \in [Msgs -> Row]
    BY <1>0, <1>11 DEF DriverAccepts
  <2>3. due' \subseteq [msg : Msgs, tries : 0 .. MaxAttempts - 1] /\ provider' \in BOOLEAN
    BY <1>11 DEF DriverAccepts
  <2>4. retries' \in 0 .. MaxRetries /\ faults' \in 0 .. MaxFaults
    BY <1>11 DEF DriverAccepts
  <2>5. accepted' \in [Msgs -> 0 .. 2] /\ excused' \subseteq Msgs
    BY <1>11, <2>0 DEF DriverAccepts, Taken
  <2> QED BY <2>1, <2>2, <2>3, <2>4, <2>5 DEF JobsOK
<1>12. ASSUME NEW w \in Workers, DriverRejects(w)
     PROVE  OutboxTypeOK'
  <2>1. JobsOK'
    BY <1>0, <1>12, GotoTyped, DoneTyped DEF DriverRejects, Failed
  <2>2. row' \in [Msgs -> Row]
    BY <1>0, <1>12 DEF DriverRejects
  <2>3. due' \subseteq [msg : Msgs, tries : 0 .. MaxAttempts - 1] /\ provider' \in BOOLEAN
    BY <1>12 DEF DriverRejects
  <2>4. retries' \in 0 .. MaxRetries /\ faults' \in 0 .. MaxFaults
    BY <1>12 DEF DriverRejects
  <2>5. accepted' \in [Msgs -> 0 .. 2] /\ excused' \subseteq Msgs
    BY <1>12 DEF DriverRejects
  <2> QED BY <2>1, <2>2, <2>3, <2>4, <2>5 DEF JobsOK
<1>13. ASSUME NEW w \in Workers, AnswerLost(w)
     PROVE  OutboxTypeOK'
  <2>0. job[w].msg \in Msgs /\ job[w].tries \in 0 .. MaxAttempts
    BY <1>0, <1>13, Busy DEF AnswerLost, Job
  <2>1. JobsOK'
    BY <1>0, <1>13, GotoTyped, DoneTyped DEF AnswerLost, Failed
  <2>2. row' \in [Msgs -> Row]
    BY <1>0, <1>13 DEF AnswerLost
  <2>3. due' \subseteq [msg : Msgs, tries : 0 .. MaxAttempts - 1] /\ provider' \in BOOLEAN
    BY <1>13 DEF AnswerLost
  <2>4. retries' \in 0 .. MaxRetries /\ faults' \in 0 .. MaxFaults
    BY <1>13 DEF AnswerLost
  <2>5. accepted' \in [Msgs -> 0 .. 2] /\ excused' \subseteq Msgs
    BY <1>13, <2>0 DEF AnswerLost, Taken
  <2> QED BY <2>1, <2>2, <2>3, <2>4, <2>5 DEF JobsOK
<1>14. ASSUME NEW w \in Workers, MarkSent(w)
     PROVE  OutboxTypeOK'
  <2>0. job[w].msg \in Msgs /\ job[w].tries \in 0 .. MaxAttempts
    BY <1>0, <1>14, Busy DEF MarkSent, Job
  <2>1. JobsOK'
    BY <1>0, <1>14, DoneTyped DEF MarkSent
  <2>2. row' \in [Msgs -> Row]
    BY <1>0, <1>14, <2>0, RowStTyped, SetRowTyped DEF MarkSent, Statuses
  <2>3. due' \subseteq [msg : Msgs, tries : 0 .. MaxAttempts - 1] /\ provider' \in BOOLEAN
    BY <1>14 DEF MarkSent
  <2>4. retries' \in 0 .. MaxRetries /\ faults' \in 0 .. MaxFaults
    BY <1>14 DEF MarkSent
  <2>5. accepted' \in [Msgs -> 0 .. 2] /\ excused' \subseteq Msgs
    BY <1>14, <2>0 DEF MarkSent
  <2> QED BY <2>1, <2>2, <2>3, <2>4, <2>5 DEF JobsOK
<1>15. ASSUME NEW w \in Workers, MarkSentFails(w)
     PROVE  OutboxTypeOK'
  <2>0. job[w].msg \in Msgs /\ job[w].tries \in 0 .. MaxAttempts
    BY <1>0, <1>15, Busy DEF MarkSentFails, Job
  <2>1. JobsOK'
    BY <1>0, <1>15, DoneTyped DEF MarkSentFails
  <2>2. row' \in [Msgs -> Row]
    BY <1>0, <1>15 DEF MarkSentFails
  <2>3. due' \subseteq [msg : Msgs, tries : 0 .. MaxAttempts - 1] /\ provider' \in BOOLEAN
    BY <1>15 DEF MarkSentFails
  <2>4. retries' \in 0 .. MaxRetries /\ faults' \in 0 .. MaxFaults
    BY <1>15, LeaseAssumption DEF MarkSentFails, Fault
  <2>5. accepted' \in [Msgs -> 0 .. 2] /\ excused' \subseteq Msgs
    BY <1>15, <2>0 DEF MarkSentFails
  <2> QED BY <2>1, <2>2, <2>3, <2>4, <2>5 DEF JobsOK
<1>16. ASSUME NEW w \in Workers, Panic(w)
     PROVE  OutboxTypeOK'
  <2>1. JobsOK'
    BY <1>0, <1>16, DoneTyped DEF Panic
  <2>2. row' \in [Msgs -> Row]
    BY <1>0, <1>16 DEF Panic
  <2>3. due' \subseteq [msg : Msgs, tries : 0 .. MaxAttempts - 1] /\ provider' \in BOOLEAN
    BY <1>16 DEF Panic
  <2>4. retries' \in 0 .. MaxRetries /\ faults' \in 0 .. MaxFaults
    BY <1>16, LeaseAssumption DEF Panic, Fault
  <2>5. accepted' \in [Msgs -> 0 .. 2] /\ excused' \subseteq Msgs
    BY <1>16 DEF Panic
  <2> QED BY <2>1, <2>2, <2>3, <2>4, <2>5 DEF JobsOK
<1>17. ASSUME RecordOutboxAttempt
     PROVE  OutboxTypeOK'
  <2>0. job[Sweeper].msg \in Msgs /\ job[Sweeper].tries \in 0 .. MaxAttempts
    BY <1>0, <1>17, Busy DEF RecordOutboxAttempt, Job
  <2>1. JobsOK'
    BY <1>0, <1>17, DoneTyped DEF RecordOutboxAttempt
  <2>2. row' \in [Msgs -> Row]
    <3> DEFINE m == job[Sweeper].msg
    <3>1. CASE row[m].st = "outbox"
      <4>1. row[m] \in Row /\ row[m].attempts < MaxAttempts
        BY <1>0, <1>17, <2>0 DEF RecordOutboxAttempt, AttemptLeft
      <4> QED BY <1>0, <1>17, <2>0, <3>1, <4>1, RowTriedTyped, SetRowTyped DEF RecordOutboxAttempt
    <3>2. CASE row[m].st # "outbox"
      BY <1>0, <1>17, <3>2 DEF RecordOutboxAttempt
    <3> QED BY <3>1, <3>2
  <2>3. due' \subseteq [msg : Msgs, tries : 0 .. MaxAttempts - 1] /\ provider' \in BOOLEAN
    BY <1>17 DEF RecordOutboxAttempt
  <2>4. retries' \in 0 .. MaxRetries /\ faults' \in 0 .. MaxFaults
    BY <1>17 DEF RecordOutboxAttempt
  <2>5. accepted' \in [Msgs -> 0 .. 2] /\ excused' \subseteq Msgs
    BY <1>17, <2>0 DEF RecordOutboxAttempt
  <2> QED BY <2>1, <2>2, <2>3, <2>4, <2>5 DEF JobsOK
<1>18. ASSUME RecordFails
     PROVE  OutboxTypeOK'
  <2>1. JobsOK'
    BY <1>0, <1>18, DoneTyped DEF RecordFails
  <2>2. row' \in [Msgs -> Row]
    BY <1>0, <1>18 DEF RecordFails
  <2>3. due' \subseteq [msg : Msgs, tries : 0 .. MaxAttempts - 1] /\ provider' \in BOOLEAN
    BY <1>18 DEF RecordFails
  <2>4. retries' \in 0 .. MaxRetries /\ faults' \in 0 .. MaxFaults
    BY <1>18, LeaseAssumption DEF RecordFails, Fault
  <2>5. accepted' \in [Msgs -> 0 .. 2] /\ excused' \subseteq Msgs
    BY <1>18 DEF RecordFails
  <2> QED BY <2>1, <2>2, <2>3, <2>4, <2>5 DEF JobsOK
<1>19. ASSUME Crash
     PROVE  OutboxTypeOK'
  <2>1. JobsOK'
    BY <1>0, <1>19, IdleTyped DEF Crash, JobsOK
  <2>2. row' \in [Msgs -> Row]
    BY <1>0, <1>19 DEF Crash
  <2>3. due' \subseteq [msg : Msgs, tries : 0 .. MaxAttempts - 1] /\ provider' \in BOOLEAN
    BY <1>19 DEF Crash
  <2>4. retries' \in 0 .. MaxRetries /\ faults' \in 0 .. MaxFaults
    BY <1>19, LeaseAssumption DEF Crash, Fault
  <2>5. accepted' \in [Msgs -> 0 .. 2] /\ excused' \subseteq Msgs
    BY <1>19, <1>0, Busy DEF Crash, Taken
  <2> QED BY <2>1, <2>2, <2>3, <2>4, <2>5 DEF JobsOK
<1>20. ASSUME SwitchProvider
     PROVE  OutboxTypeOK'
  <2>1. JobsOK'
    BY <1>0, <1>20 DEF SwitchProvider, JobsOK
  <2>2. row' \in [Msgs -> Row]
    BY <1>0, <1>20 DEF SwitchProvider
  <2>3. due' \subseteq [msg : Msgs, tries : 0 .. MaxAttempts - 1] /\ provider' \in BOOLEAN
    BY <1>20 DEF SwitchProvider
  <2>4. retries' \in 0 .. MaxRetries /\ faults' \in 0 .. MaxFaults
    BY <1>20, LeaseAssumption DEF SwitchProvider, Fault
  <2>5. accepted' \in [Msgs -> 0 .. 2] /\ excused' \subseteq Msgs
    BY <1>20 DEF SwitchProvider
  <2> QED BY <2>1, <2>2, <2>3, <2>4, <2>5 DEF JobsOK
<1>21. ASSUME Tick
     PROVE  OutboxTypeOK'
  <2>1. JobsOK'
    BY <1>0, <1>21, JobOlderTyped DEF Tick, JobsOK
  <2>2. row' \in [Msgs -> Row]
    BY <1>0, <1>21, RowOlderTyped DEF Tick
  <2>3. due' \subseteq [msg : Msgs, tries : 0 .. MaxAttempts - 1] /\ provider' \in BOOLEAN
    BY <1>21 DEF Tick
  <2>4. retries' \in 0 .. MaxRetries /\ faults' \in 0 .. MaxFaults
    BY <1>21 DEF Tick
  <2>5. accepted' \in [Msgs -> 0 .. 2] /\ excused' \subseteq Msgs
    BY <1>21 DEF Tick
  <2> QED BY <2>1, <2>2, <2>3, <2>4, <2>5 DEF JobsOK
<1> QED
  BY <1>1, <1>2, <1>3, <1>4, <1>5, <1>6, <1>7, <1>8, <1>9, <1>10, <1>11,
     <1>12, <1>13, <1>14, <1>15, <1>16, <1>17, <1>18, <1>19, <1>20, <1>21
     DEF OutboxNext, Request, Work, Outcome, Sweep

-----------------------------------------------------------------------------
(* Calls.                                                                   *)

\* Time changes timers, and nothing else; a call under way has time left.
LEMMA TickFields ==
    ASSUME OutboxTypeOK, Tick
    PROVE  /\ \A m \in Msgs :
                /\ row'[m].st = row[m].st /\ row'[m].attempts = row[m].attempts
                /\ row'[m].claim = IF row[m].claim > 0 THEN row[m].claim - 1 ELSE 0
           /\ \A w \in Workers :
                /\ job'[w].phase = job[w].phase /\ job'[w].msg = job[w].msg
                /\ job'[w].leased = job[w].leased
                /\ job'[w].left = IF job[w].left > 0 THEN job[w].left - 1 ELSE 0
                /\ job[w].phase \in {"call", "accepted"} => job[w].left > 0
           /\ due' = due /\ accepted' = accepted /\ excused' = excused
BY DEF OutboxTypeOK, Tick, Row, Job, Less

\* A claim was longer than what the call had left, and both lost a tick.
LEMMA TickStep ==
    ASSUME IInv, Tick
    PROVE  CallInv'
<1>1. /\ \A w \in Workers : job[w].phase # "idle" => job[w].msg \in Msgs
      /\ Sweeper \in Workers /\ \A d \in due : d.msg \in Msgs
      /\ \A m \in Msgs : row[m].claim \in Nat
      /\ \A w \in Workers : job[w].left \in Nat
  BY LeaseAssumption DEF IInv, CallInv, OutboxTypeOK, Workers, Row, Job
<1>2. CallsFollowRows'
  BY <1>1, TickFields DEF IInv, CallInv, CallsFollowRows, Calling
<1>3. AttemptLeft'
  BY <1>1, TickFields DEF IInv, CallInv, AttemptLeft, Calling
<1>4. SoleCall'
  BY <1>1, TickFields DEF IInv, CallInv, SoleCall, Calling
<1>5. ClaimOutlives'
  BY <1>1, TickFields DEF IInv, CallInv, ClaimOutlives, Calling
<1>6. CallIsFirst'
  BY <1>1, TickFields DEF IInv, CallInv, CallIsFirst, Calling
<1>7. AcceptedIsMarked'
  BY <1>1, TickFields DEF IInv, CallInv, AcceptedIsMarked, Calling
<1>8. SentTruthfully'
  BY <1>1, TickFields DEF IInv, CallInv, SentTruthfully, Calling
<1>9. DeliveredOnce'
  BY <1>1, TickFields DEF IInv, CallInv, DeliveredOnce, Calling
<1> QED BY <1>2, <1>3, <1>4, <1>5, <1>6, <1>7, <1>8, <1>9 DEF CallInv

\* A claim that is taken from another worker's call excuses its message.
LEMMA RecordStep ==
    ASSUME IInv, RecordOutboxAttempt
    PROVE  CallInv'
<1> DEFINE m == job[Sweeper].msg
<1>1. /\ m \in Msgs /\ Sweeper \in Workers /\ Clients \subseteq Workers
      /\ \A w \in Workers : job[w].phase # "idle" => job[w].msg \in Msgs
      /\ \A d \in due : d.msg \in Msgs
      /\ job[Sweeper].phase = "failed" /\ job'[Sweeper].phase = "idle"
      /\ \A w \in Workers : w # Sweeper => w \in Clients /\ job'[w] = job[w]
      /\ \A x \in Msgs : row'[x].st = row[x].st /\ (x # m => row'[x] = row[x])
      /\ due' = due /\ accepted' = accepted
      /\ excused' = IF \E c \in Clients : job[c].msg = m /\ job[c].phase \in {"call", "accepted"}
                    THEN excused \cup {m} ELSE excused
  BY DEF IInv, CallInv, OutboxTypeOK, Workers, Row, Job, RecordOutboxAttempt,
         SetRow, Calling, Done, Start, Idle, Task
<1>2. CallsFollowRows'
  BY <1>1 DEF IInv, CallInv, CallsFollowRows, Calling
<1>3. AttemptLeft'
  BY <1>1 DEF IInv, CallInv, AttemptLeft, Calling
<1>4. SoleCall'
  BY <1>1 DEF IInv, CallInv, SoleCall, Calling
<1>5. ClaimOutlives'
  BY <1>1 DEF IInv, CallInv, ClaimOutlives, Calling
<1>6. CallIsFirst'
  BY <1>1 DEF IInv, CallInv, CallIsFirst, Calling
<1>7. AcceptedIsMarked'
  BY <1>1 DEF IInv, CallInv, AcceptedIsMarked, Calling
<1>8. SentTruthfully'
  BY <1>1 DEF IInv, CallInv, SentTruthfully, Calling
<1>9. DeliveredOnce'
  BY <1>1 DEF IInv, CallInv, DeliveredOnce, Calling
<1> QED BY <1>2, <1>3, <1>4, <1>5, <1>6, <1>7, <1>8, <1>9 DEF CallInv

\* Who wins a claim finds no call that is protected, or its message is excused.
LEMMA ClaimStep ==
    ASSUME IInv, NEW w \in Workers, Claim(w)
    PROVE  CallInv'
<1> DEFINE m == job[w].msg
           free == row[m].st = "outbox" /\ row[m].claim = 0
<1>1. /\ m \in Msgs /\ Sweeper \in Workers
      /\ \A v \in Workers : job[v].phase # "idle" => job[v].msg \in Msgs
      /\ \A v \in Workers : job[v].left \in Nat /\ job[v].leased \in BOOLEAN
      /\ \A d \in due : d.msg \in Msgs
      /\ job[w].phase = "retry" /\ SendLimit \in Nat /\ Lease \in Nat /\ Lease > SendLimit
      /\ \A x \in Msgs : accepted[x] \in Nat
  BY LeaseAssumption DEF IInv, CallInv, OutboxTypeOK, Workers, Row, Job, Claim
<1>2. /\ \A v \in Workers : v # w => job'[v] = job[v]
      /\ \A x \in Msgs : /\ x # m => row'[x] = row[x]
                        /\ row'[x].st = row[x].st /\ row'[x].attempts = row[x].attempts
      /\ due' = due /\ accepted' = accepted
      /\ ~free => job'[w].phase = "idle" /\ row' = row /\ excused' = excused
      /\ free => /\ job'[w].phase = "call" /\ job'[w].msg = m /\ job'[w].leased
                 /\ job'[w].left = SendLimit /\ row'[m].claim = Lease
                 /\ excused' = IF \E v \in Workers : /\ job[v].msg = m /\ ~job[v].leased
                                                     /\ job[v].phase \in {"call", "accepted"}
                               THEN excused \cup {m} ELSE excused
  BY <1>1 DEF IInv, CallInv, OutboxTypeOK, Workers, Row, Job, Claim, SetRow,
            Calling, Done, Start, Idle, Task, Call, Free, Unprotected
<1>3. free /\ m \notin excused' =>
         /\ accepted[m] = 0
         /\ \A v \in Workers : job[v].phase \in {"call", "accepted"} => job[v].msg # m
  BY <1>1, <1>2 DEF IInv, CallInv, ClaimOutlives, AcceptedIsMarked, Calling
<1>4. CallsFollowRows'
  BY <1>1, <1>2, <1>3 DEF IInv, CallInv, CallsFollowRows, Calling
<1>5. AttemptLeft'
  BY <1>1, <1>2, <1>3 DEF IInv, CallInv, AttemptLeft, Calling
<1>6. SoleCall'
  BY <1>1, <1>2, <1>3 DEF IInv, CallInv, SoleCall, Calling
<1>7. ClaimOutlives'
  BY <1>1, <1>2, <1>3 DEF IInv, CallInv, ClaimOutlives, Calling
<1>8. CallIsFirst'
  BY <1>1, <1>2, <1>3 DEF IInv, CallInv, CallIsFirst, Calling
<1>9. AcceptedIsMarked'
  BY <1>1, <1>2, <1>3 DEF IInv, CallInv, AcceptedIsMarked, Calling
<1>10. SentTruthfully'
  BY <1>1, <1>2, <1>3 DEF IInv, CallInv, SentTruthfully, Calling
<1>11. DeliveredOnce'
  BY <1>1, <1>2, <1>3 DEF IInv, CallInv, DeliveredOnce, Calling
<1> QED BY <1>4, <1>5, <1>6, <1>7, <1>8, <1>9, <1>10, <1>11 DEF CallInv

\* A draft is under way with no one.
LEMMA MarkOutboxStep ==
    ASSUME IInv, NEW c \in Clients, MarkOutbox(c)
    PROVE  CallInv'
<1> DEFINE m     == job[c].msg
           draft == row[m].st = "draft"
<1>a. /\ m \in Msgs /\ c \in Workers /\ c # Sweeper /\ Sweeper \in Workers
      /\ \A w \in Workers : job[w].phase # "idle" => job[w].msg \in Msgs
      /\ \A d \in due : d.msg \in Msgs
      /\ \A x \in Msgs : accepted[x] \in Nat
      /\ job \in [Workers -> Job] /\ row \in [Msgs -> Row] /\ job[c].phase = "draft"
  BY NamesAssumption DEF IInv, OutboxTypeOK, Workers, Job, MarkOutbox
<1>b. /\ due' = due /\ accepted' = accepted /\ excused' = excused
      /\ draft => /\ row' = [row EXCEPT ![m] = [row[m] EXCEPT !.st = "outbox"]]
                  /\ job' = [job EXCEPT ![c] = Call(m, FALSE, 0)]
      /\ ~draft => row' = row /\ job' = [job EXCEPT ![c] = Idle]
  BY DEF MarkOutbox, SetRow, Done, Start
<1>1. /\ \A w \in Workers : w # c => job'[w] = job[w]
      /\ \A x \in Msgs : (x # m => row'[x] = row[x]) /\ row'[x].attempts = row[x].attempts
      /\ draft => row'[m].st = "outbox" /\ job'[c].phase = "call" /\ job'[c].msg = m
                  /\ job'[c].leased = FALSE
      /\ ~draft => job'[c].phase = "idle" /\ row' = row
  <2>1. CASE draft
    BY <1>a, <1>b, <2>1 DEF Call, Row
  <2>2. CASE ~draft
    BY <1>a, <1>b, <2>2 DEF Idle, Task
  <2> QED BY <2>1, <2>2
<1>2. draft => /\ accepted[m] = 0
               /\ \A w \in Workers : job[w].phase \in {"call", "accepted"} => job[w].msg # m
  BY <1>a, <1>b, <1>1 DEF IInv, CallInv, CallsFollowRows, SentTruthfully, Calling
<1>3. CallsFollowRows'
  BY <1>a, <1>b, <1>1, <1>2 DEF IInv, CallInv, CallsFollowRows, Calling
<1>4. AttemptLeft'
  BY <1>a, <1>b, <1>1, <1>2 DEF IInv, CallInv, AttemptLeft, Calling
<1>5. SoleCall'
  BY <1>a, <1>b, <1>1, <1>2 DEF IInv, CallInv, SoleCall, Calling
<1>6. ClaimOutlives'
  BY <1>a, <1>b, <1>1, <1>2 DEF IInv, CallInv, ClaimOutlives, Calling
<1>7. CallIsFirst'
  BY <1>a, <1>b, <1>1, <1>2 DEF IInv, CallInv, CallIsFirst, Calling
<1>8. AcceptedIsMarked'
  BY <1>a, <1>b, <1>1, <1>2 DEF IInv, CallInv, AcceptedIsMarked, Calling
<1>9. SentTruthfully'
  BY <1>a, <1>b, <1>1, <1>2 DEF IInv, CallInv, SentTruthfully, Calling
<1>10. DeliveredOnce'
  BY <1>a, <1>b, <1>1, <1>2 DEF IInv, CallInv, DeliveredOnce, Calling
<1> QED BY <1>3, <1>4, <1>5, <1>6, <1>7, <1>8, <1>9, <1>10 DEF CallInv

\* The button touches neither statuses nor claims, and no call is under way in its hands.
LEMMA ResetStep ==
    ASSUME IInv, NEW c \in Clients, NEW m \in Msgs, ResetOutboxAttempts(c, m)
    PROVE  CallInv'
<1>a. /\ Sweeper \in Workers /\ c \in Workers /\ c # Sweeper /\ MaxAttempts > 0
      /\ \A w \in Workers : job[w].phase # "idle" => job[w].msg \in Msgs
      /\ \A d \in due : d.msg \in Msgs
      /\ job \in [Workers -> Job] /\ row \in [Msgs -> Row] /\ job[c].phase = "idle"
  BY NamesAssumption, LeaseAssumption, IdleTyped
     DEF IInv, OutboxTypeOK, Workers, ResetOutboxAttempts
<1>b. /\ due' = due /\ accepted' = accepted /\ excused' = excused
      /\ \/ row' = row
         \/ row' = [row EXCEPT ![m] = [row[m] EXCEPT !.attempts = 0, !.wait = 0]]
      /\ job' = job \/ job' = [job EXCEPT ![c] = Task("retry", m, 0)]
  BY DEF ResetOutboxAttempts, SetRow, Start
<1>1. /\ \A w \in Workers : w # c => job'[w] = job[w]
      /\ job'[c].phase \in {"idle", "retry"}
      /\ \A x \in Msgs : /\ row'[x].st = row[x].st /\ row'[x].claim = row[x].claim
                        /\ row'[x].attempts \in {row[x].attempts, 0}
  <2>1. /\ \A w \in Workers : w # c => job'[w] = job[w]
        /\ job'[c].phase \in {"idle", "retry"}
    BY <1>a, <1>b DEF Task
  <2>2. \A x \in Msgs : /\ row'[x].st = row[x].st /\ row'[x].claim = row[x].claim
                        /\ row'[x].attempts \in {row[x].attempts, 0}
    <3>1. CASE row' = row
      BY <3>1
    <3>2. CASE row' = [row EXCEPT ![m] = [row[m] EXCEPT !.attempts = 0, !.wait = 0]]
      <4>1. /\ \A x \in Msgs \ {m} : row'[x] = row[x]
            /\ row'[m] = [row[m] EXCEPT !.attempts = 0, !.wait = 0]
        BY <1>a, <3>2
      <4>2. /\ row'[m].st = row[m].st /\ row'[m].claim = row[m].claim
            /\ row'[m].attempts = 0
        BY <1>a, <4>1 DEF Row
      <4> QED BY <4>1, <4>2
    <3> QED BY <1>b, <3>1, <3>2
  <2> QED BY <2>1, <2>2
<1>2. CallsFollowRows'
  BY <1>a, <1>b, <1>1 DEF IInv, CallInv, CallsFollowRows, Calling
<1>3. AttemptLeft'
  BY <1>a, <1>b, <1>1 DEF IInv, CallInv, AttemptLeft, Calling
<1>4. SoleCall'
  BY <1>a, <1>b, <1>1 DEF IInv, CallInv, SoleCall, Calling
<1>5. ClaimOutlives'
  BY <1>a, <1>b, <1>1 DEF IInv, CallInv, ClaimOutlives, Calling
<1>6. CallIsFirst'
  BY <1>a, <1>b, <1>1 DEF IInv, CallInv, CallIsFirst, Calling
<1>7. AcceptedIsMarked'
  BY <1>a, <1>b, <1>1 DEF IInv, CallInv, AcceptedIsMarked, Calling
<1>8. SentTruthfully'
  BY <1>a, <1>b, <1>1 DEF IInv, CallInv, SentTruthfully, Calling
<1>9. DeliveredOnce'
  BY <1>a, <1>b, <1>1 DEF IInv, CallInv, DeliveredOnce, Calling
<1> QED BY <1>2, <1>3, <1>4, <1>5, <1>6, <1>7, <1>8, <1>9 DEF CallInv

\* Every action keeps the invariant.
LEMMA CallStep ==
    ASSUME IInv, OutboxNext
    PROVE  CallInv'
<1> USE NamesAssumption DEF IInv, CallInv, OutboxTypeOK,
        CallsFollowRows, AttemptLeft, SoleCall, ClaimOutlives, CallIsFirst, AcceptedIsMarked,
        SentTruthfully, DeliveredOnce, Calling, Row, Job, Start, Task, Call, Done, Idle, Workers
<1>1. ASSUME NEW m \in Msgs, SaveDraft(m)
     PROVE  CallInv'
  BY <1>1, LeaseAssumption DEF SaveDraft, SetRow, NoRow
<1>2. ASSUME NEW m \in Msgs, DeleteMessage(m)
     PROVE  CallInv'
  BY <1>2, LeaseAssumption DEF DeleteMessage, SetRow, NoRow
<1>3. ASSUME NEW c \in Clients, NEW m \in Msgs, Send(c, m)
     PROVE  CallInv'
  <2>1. CallsFollowRows'
    BY <1>3, LeaseAssumption DEF Send, SetRow, NoRow
  <2>2. AttemptLeft'
    BY <1>3, LeaseAssumption DEF Send, SetRow, NoRow
  <2>3. SoleCall'
    BY <1>3, LeaseAssumption DEF Send, SetRow, NoRow
  <2>4. ClaimOutlives'
    BY <1>3, LeaseAssumption DEF Send, SetRow, NoRow
  <2>5. CallIsFirst'
    BY <1>3, LeaseAssumption DEF Send, SetRow, NoRow
  <2>6. AcceptedIsMarked'
    BY <1>3, LeaseAssumption DEF Send, SetRow, NoRow
  <2>7. SentTruthfully'
    BY <1>3, LeaseAssumption DEF Send, SetRow, NoRow
  <2>8. DeliveredOnce'
    BY <1>3, LeaseAssumption DEF Send, SetRow, NoRow
  <2> QED BY <2>1, <2>2, <2>3, <2>4, <2>5, <2>6, <2>7, <2>8
<1>4. ASSUME NEW c \in Clients, NEW m \in Msgs, SendDraft(c, m)
     PROVE  CallInv'
  <2>1. CallsFollowRows'
    BY <1>4, LeaseAssumption DEF SendDraft
  <2>2. AttemptLeft'
    BY <1>4, LeaseAssumption DEF SendDraft
  <2>3. SoleCall'
    BY <1>4, LeaseAssumption DEF SendDraft
  <2>4. ClaimOutlives'
    BY <1>4, LeaseAssumption DEF SendDraft
  <2>5. CallIsFirst'
    BY <1>4, LeaseAssumption DEF SendDraft
  <2>6. AcceptedIsMarked'
    BY <1>4, LeaseAssumption DEF SendDraft
  <2>7. SentTruthfully'
    BY <1>4, LeaseAssumption DEF SendDraft
  <2>8. DeliveredOnce'
    BY <1>4, LeaseAssumption DEF SendDraft
  <2> QED BY <2>1, <2>2, <2>3, <2>4, <2>5, <2>6, <2>7, <2>8
<1>5. ASSUME NEW c \in Clients, NEW m \in Msgs, ResetOutboxAttempts(c, m)
     PROVE  CallInv'
  BY <1>5, ResetStep
<1>6. ASSUME NEW c \in Clients, MarkOutbox(c)
     PROVE  CallInv'
  BY <1>6, MarkOutboxStep
<1>7. ASSUME SweepList
     PROVE  CallInv'
  BY <1>7, LeaseAssumption DEF SweepList, Due
<1>8. ASSUME SweepNext
     PROVE  CallInv'
  BY <1>8, LeaseAssumption DEF SweepNext
<1>9. ASSUME NEW w \in Workers, Claim(w)
     PROVE  CallInv'
  BY <1>9, ClaimStep
<1>10. ASSUME NEW w \in Workers, ClaimFails(w)
     PROVE  CallInv'
  <2>1. CallsFollowRows'
    BY <1>10 DEF ClaimFails, Goto, Failed
  <2>2. AttemptLeft'
    BY <1>10 DEF ClaimFails, Goto, Failed
  <2>3. SoleCall'
    BY <1>10 DEF ClaimFails, Goto, Failed
  <2>4. ClaimOutlives'
    BY <1>10 DEF ClaimFails, Goto, Failed
  <2>5. CallIsFirst'
    BY <1>10 DEF ClaimFails, Goto, Failed
  <2>6. AcceptedIsMarked'
    BY <1>10 DEF ClaimFails, Goto, Failed
  <2>7. SentTruthfully'
    BY <1>10 DEF ClaimFails, Goto, Failed
  <2>8. DeliveredOnce'
    BY <1>10 DEF ClaimFails, Goto, Failed
  <2> QED BY <2>1, <2>2, <2>3, <2>4, <2>5, <2>6, <2>7, <2>8
<1>11. ASSUME NEW w \in Workers, DriverAccepts(w)
     PROVE  CallInv'
  <2>1. CallsFollowRows'
    BY <1>11 DEF DriverAccepts, Goto, Taken
  <2>2. AttemptLeft'
    BY <1>11 DEF DriverAccepts, Goto, Taken
  <2>3. SoleCall'
    BY <1>11 DEF DriverAccepts, Goto, Taken
  <2>4. ClaimOutlives'
    BY <1>11 DEF DriverAccepts, Goto, Taken
  <2>5. CallIsFirst'
    BY <1>11 DEF DriverAccepts, Goto, Taken
  <2>6. AcceptedIsMarked'
    BY <1>11 DEF DriverAccepts, Goto, Taken
  <2>7. SentTruthfully'
    BY <1>11 DEF DriverAccepts, Goto, Taken
  <2>8. DeliveredOnce'
    BY <1>11 DEF DriverAccepts, Goto, Taken
  <2> QED BY <2>1, <2>2, <2>3, <2>4, <2>5, <2>6, <2>7, <2>8
<1>12. ASSUME NEW w \in Workers, DriverRejects(w)
     PROVE  CallInv'
  <2>1. CallsFollowRows'
    BY <1>12 DEF DriverRejects, Goto, Failed
  <2>2. AttemptLeft'
    BY <1>12 DEF DriverRejects, Goto, Failed
  <2>3. SoleCall'
    BY <1>12 DEF DriverRejects, Goto, Failed
  <2>4. ClaimOutlives'
    BY <1>12 DEF DriverRejects, Goto, Failed
  <2>5. CallIsFirst'
    BY <1>12 DEF DriverRejects, Goto, Failed
  <2>6. AcceptedIsMarked'
    BY <1>12 DEF DriverRejects, Goto, Failed
  <2>7. SentTruthfully'
    BY <1>12 DEF DriverRejects, Goto, Failed
  <2>8. DeliveredOnce'
    BY <1>12 DEF DriverRejects, Goto, Failed
  <2> QED BY <2>1, <2>2, <2>3, <2>4, <2>5, <2>6, <2>7, <2>8
<1>13. ASSUME NEW w \in Workers, AnswerLost(w)
     PROVE  CallInv'
  <2>1. CallsFollowRows'
    BY <1>13 DEF AnswerLost, Goto, Failed, Taken
  <2>2. AttemptLeft'
    BY <1>13 DEF AnswerLost, Goto, Failed, Taken
  <2>3. SoleCall'
    BY <1>13 DEF AnswerLost, Goto, Failed, Taken
  <2>4. ClaimOutlives'
    BY <1>13 DEF AnswerLost, Goto, Failed, Taken
  <2>5. CallIsFirst'
    BY <1>13 DEF AnswerLost, Goto, Failed, Taken
  <2>6. AcceptedIsMarked'
    BY <1>13 DEF AnswerLost, Goto, Failed, Taken
  <2>7. SentTruthfully'
    BY <1>13 DEF AnswerLost, Goto, Failed, Taken
  <2>8. DeliveredOnce'
    BY <1>13 DEF AnswerLost, Goto, Failed, Taken
  <2> QED BY <2>1, <2>2, <2>3, <2>4, <2>5, <2>6, <2>7, <2>8
<1>14. ASSUME NEW w \in Workers, MarkSent(w)
     PROVE  CallInv'
  <2>1. CallsFollowRows'
    BY <1>14, LeaseAssumption DEF MarkSent, SetRow
  <2>2. AttemptLeft'
    BY <1>14, LeaseAssumption DEF MarkSent, SetRow
  <2>3. SoleCall'
    BY <1>14, LeaseAssumption DEF MarkSent, SetRow
  <2>4. ClaimOutlives'
    BY <1>14, LeaseAssumption DEF MarkSent, SetRow
  <2>5. CallIsFirst'
    BY <1>14, LeaseAssumption DEF MarkSent, SetRow
  <2>6. AcceptedIsMarked'
    BY <1>14, LeaseAssumption DEF MarkSent, SetRow
  <2>7. SentTruthfully'
    BY <1>14, LeaseAssumption DEF MarkSent, SetRow
  <2>8. DeliveredOnce'
    BY <1>14, LeaseAssumption DEF MarkSent, SetRow
  <2> QED BY <2>1, <2>2, <2>3, <2>4, <2>5, <2>6, <2>7, <2>8
<1>15. ASSUME NEW w \in Workers, MarkSentFails(w)
     PROVE  CallInv'
  BY <1>15, LeaseAssumption DEF MarkSentFails
<1>16. ASSUME NEW w \in Workers, Panic(w)
     PROVE  CallInv'
  BY <1>16, LeaseAssumption DEF Panic
<1>17. ASSUME RecordOutboxAttempt
     PROVE  CallInv'
  BY <1>17, RecordStep
<1>18. ASSUME RecordFails
     PROVE  CallInv'
  BY <1>18, LeaseAssumption DEF RecordFails
<1>19. ASSUME Crash
     PROVE  CallInv'
  <2>1. CallsFollowRows'
    BY <1>19 DEF Crash, Taken
  <2>2. AttemptLeft'
    BY <1>19 DEF Crash, Taken
  <2>3. SoleCall'
    BY <1>19 DEF Crash, Taken
  <2>4. ClaimOutlives'
    BY <1>19 DEF Crash, Taken
  <2>5. CallIsFirst'
    BY <1>19 DEF Crash, Taken
  <2>6. AcceptedIsMarked'
    BY <1>19 DEF Crash, Taken
  <2>7. SentTruthfully'
    BY <1>19 DEF Crash, Taken
  <2>8. DeliveredOnce'
    BY <1>19 DEF Crash, Taken
  <2> QED BY <2>1, <2>2, <2>3, <2>4, <2>5, <2>6, <2>7, <2>8
<1>20. ASSUME SwitchProvider
     PROVE  CallInv'
  BY <1>20, LeaseAssumption DEF SwitchProvider
<1>21. ASSUME Tick
     PROVE  CallInv'
  BY <1>21, TickStep
<1> QED
  BY <1>1, <1>2, <1>3, <1>4, <1>5, <1>6, <1>7, <1>8, <1>9, <1>10, <1>11,
     <1>12, <1>13, <1>14, <1>15, <1>16, <1>17, <1>18, <1>19, <1>20, <1>21
     DEF OutboxNext, Request, Work, Outcome, Sweep

-----------------------------------------------------------------------------
(* Theorems.                                                                *)

\* Nothing has happened yet.
LEMMA InitInv == OutboxInit => IInv
<1> SUFFICES ASSUME OutboxInit PROVE IInv
  OBVIOUS
<1>1. OutboxTypeOK
  BY LeaseAssumption, IdleTyped
     DEF OutboxInit, OutboxTypeOK, NoRow, Row, Statuses, Job
<1>2. \A w \in Workers : job[w].phase = "idle"
  BY IdleTyped DEF OutboxInit
<1>3. /\ Sweeper \in Workers /\ due = {}
      /\ \A m \in Msgs : accepted[m] = 0 /\ row[m].st = "none"
  BY DEF OutboxInit, Workers, NoRow
<1>4. CallsFollowRows /\ AttemptLeft /\ SoleCall /\ ClaimOutlives /\ CallIsFirst
  BY <1>2, <1>3 DEF CallsFollowRows, AttemptLeft, SoleCall, ClaimOutlives, CallIsFirst, Calling
<1>5. AcceptedIsMarked /\ SentTruthfully /\ DeliveredOnce
  BY <1>3 DEF AcceptedIsMarked, SentTruthfully, DeliveredOnce
<1> QED BY <1>1, <1>4, <1>5 DEF IInv, CallInv

\* A stutter changes nothing.
LEMMA StutterInv == IInv /\ UNCHANGED vars => IInv'
BY DEF vars, IInv, CallInv, OutboxTypeOK, CallsFollowRows, AttemptLeft, SoleCall, ClaimOutlives,
       CallIsFirst, AcceptedIsMarked, SentTruthfully, DeliveredOnce, Calling

\* The inductive invariant: types, and where each message stands while it is under
\* way, for every instance.
THEOREM OutboxInvariance == OutboxSpec => []IInv
<1>1. IInv /\ OutboxNext => IInv'
  BY TypeStep, CallStep DEF IInv, CallInv
<1>2. IInv /\ [OutboxNext]_vars => IInv'
  BY <1>1, StutterInv
<1> QED BY InitInv, <1>2, PTL DEF OutboxSpec

\* Rows, jobs and the sweeper's list keep their types; the sweeper tries a message
\* at most MaxAttempts times.
THEOREM OutboxTypeCorrect == OutboxSpec => []OutboxTypeOK
<1>1. IInv => OutboxTypeOK
  BY DEF IInv
<1> QED BY <1>1, OutboxInvariance, PTL

\* A message is delivered once, but for the named accidents, with any number of
\* tabs, whenever the lease of a claim is longer than a driver call.
THEOREM NeverDeliveredTwice == OutboxSpec => []DeliveredOnce
<1>1. IInv => DeliveredOnce
  BY DEF IInv, CallInv
<1> QED BY <1>1, OutboxInvariance, PTL

\* The sent folder shows what the provider took, and what it took is never a draft.
THEOREM SentIsTrue == OutboxSpec => []SentTruthfully
<1>1. IInv => SentTruthfully
  BY DEF IInv, CallInv
<1> QED BY <1>1, OutboxInvariance, PTL

\* The moves a status can make: none is backwards.
Forward(a, b) ==
    \/ a = b
    \/ a = "none" /\ b \in {"draft", "outbox"}
    \/ a = "draft" /\ b = "outbox"
    \/ a = "outbox" /\ b = "sent"
    \/ a \in {"draft", "outbox", "sent"} /\ b = "gone"

\* A move does not lower the rank ...
LEMMA ForwardRank ==
    ASSUME NEW a \in Statuses, NEW b, Forward(a, b)
    PROVE  StatusRank[b] >= StatusRank[a]
BY DEF Forward, Statuses, StatusRank

\* ... and every action makes moves only.
LEMMA ForwardStep ==
    ASSUME IInv, OutboxNext
    PROVE  \A x \in Msgs : Forward(row[x].st, row'[x].st)
<1>0. /\ row \in [Msgs -> Row] /\ Clients \subseteq Workers /\ Sweeper \in Workers
      /\ \A w \in Workers : job[w].phase # "idle" => job[w].msg \in Msgs
  BY DEF IInv, OutboxTypeOK, Workers
<1>1. ASSUME NEW m \in Msgs, SaveDraft(m)
     PROVE  \A x \in Msgs : Forward(row[x].st, row'[x].st)
  BY <1>0, <1>1 DEF SaveDraft, SetRow, NoRow, Row, Forward
<1>2. ASSUME NEW m \in Msgs, DeleteMessage(m)
     PROVE  \A x \in Msgs : Forward(row[x].st, row'[x].st)
  BY <1>0, <1>2 DEF DeleteMessage, SetRow, NoRow, Row, Forward
<1>3. ASSUME NEW c \in Clients, NEW m \in Msgs, Send(c, m)
     PROVE  \A x \in Msgs : Forward(row[x].st, row'[x].st)
  BY <1>0, <1>3 DEF Send, SetRow, NoRow, Row, Forward
<1>5. ASSUME NEW c \in Clients, NEW m \in Msgs, ResetOutboxAttempts(c, m)
     PROVE  \A x \in Msgs : Forward(row[x].st, row'[x].st)
  BY <1>0, <1>5 DEF ResetOutboxAttempts, SetRow, NoRow, Row, Forward
<1>6. ASSUME NEW c \in Clients, MarkOutbox(c)
     PROVE  \A x \in Msgs : Forward(row[x].st, row'[x].st)
  BY <1>0, <1>6 DEF MarkOutbox, SetRow, NoRow, Row, Forward
<1>9. ASSUME NEW w \in Workers, Claim(w)
     PROVE  \A x \in Msgs : Forward(row[x].st, row'[x].st)
  <2>1. \/ row' = row
        \/ job[w].msg \in Msgs /\ SetRow(job[w].msg, [row[job[w].msg] EXCEPT !.claim = Lease])
    BY <1>0, <1>9 DEF Claim
  <2>2. CASE row' = row
    BY <2>2 DEF Forward
  <2>3. ASSUME NEW m \in Msgs, SetRow(m, [row[m] EXCEPT !.claim = Lease])
        PROVE  \A x \in Msgs : Forward(row[x].st, row'[x].st)
    BY <1>0, <2>3 DEF SetRow, Row, Forward
  <2> QED BY <2>1, <2>2, <2>3
<1>14. ASSUME NEW w \in Workers, MarkSent(w)
     PROVE  \A x \in Msgs : Forward(row[x].st, row'[x].st)
  BY <1>0, <1>14 DEF MarkSent, SetRow, NoRow, Row, Forward
<1>17. ASSUME RecordOutboxAttempt
     PROVE  \A x \in Msgs : Forward(row[x].st, row'[x].st)
  BY <1>0, <1>17 DEF RecordOutboxAttempt, SetRow, NoRow, Row, Forward
<1>21. ASSUME Tick
     PROVE  \A x \in Msgs : Forward(row[x].st, row'[x].st)
  BY <1>21, TickFields DEF IInv, Forward
<1>30. row' = row => \A x \in Msgs : Forward(row[x].st, row'[x].st)
  BY DEF Forward
<1> QED
  BY <1>1, <1>2, <1>3, <1>5, <1>6, <1>9, <1>14, <1>17, <1>21, <1>30
     DEF OutboxNext, Request, Work, Outcome, Sweep, SendDraft, SweepList, SweepNext, ClaimFails,
         DriverAccepts, DriverRejects, AnswerLost, MarkSentFails, Panic, RecordFails, Crash,
         SwitchProvider

\* A message never goes back: not from the outbox to the drafts, not out of the sent
\* folder, and a deleted one does not return.
THEOREM StatusNeverBack == OutboxSpec => StatusOnlyForward
<1>1. ASSUME IInv, [OutboxNext]_vars
      PROVE  [\A m \in Msgs : StatusRank[row'[m].st] >= StatusRank[row[m].st]]_row
  <2>1. CASE OutboxNext
    <3>1. \A m \in Msgs : row[m].st \in Statuses
      BY <1>1 DEF IInv, OutboxTypeOK, Row
    <3> QED BY <1>1, <2>1, <3>1, ForwardStep, ForwardRank
  <2>2. CASE UNCHANGED vars
    BY <2>2 DEF vars
  <2> QED BY <1>1, <2>1, <2>2
<1> QED BY <1>1, OutboxInvariance, PTL DEF OutboxSpec, StatusOnlyForward
=============================================================================
