---------------------------- MODULE AIRunsProofs ----------------------------
(***************************************************************************)
(* Theorems about AIRuns for any number of servers, runs and turns, any    *)
(* number of calls of an answer and every lease that outlasts a late       *)
(* heartbeat.                                                              *)
(***************************************************************************)
EXTENDS AIRuns, SequenceTheorems, FiniteSetTheorems, WellFoundedInduction, TLAPS

States == {"idle", "read", "locked", "leased", "resolved", "turn", "answer", "calls", "batch", "stalled", "end", "over"}
Rows == [role : {"user", "assistant", "tool"}, ids : Seq(Nat \X Nat), after : Nat]
Processes == Servers \cup {Idle.srv}
RunRows == [st : States, srv : Processes, expected : Nat, seen : Nat, turn : Nat,
            calls : Nat, beat : Int, title : BOOLEAN]

ConvRows == [st : {"none", "live", "deleted"}, titled : BOOLEAN, revision : Nat]

AIRunsTypeOK ==
    /\ conv \in ConvRows
    /\ msgs \in Seq(Rows)
    /\ lock \in [run : Runs \cup {0}, left : Nat]
    /\ run \in [Runs -> RunRows]
    /\ renames \in Nat /\ taken \subseteq Runs \cup {0}

\* Whoever writes holds the lease, and the lease has as much time left beyond
\* the next heartbeat as it had when the two were set.
WritersHoldLease ==
    \A r \in Runs : run[r].st \in Writing /\ r \notin taken =>
        /\ lock.run = r /\ lock.left = run[r].beat + (Ttl - Beat)
        /\ -Late <= run[r].beat

\* A run that has read the conversation and not stored its prompt: while the
\* revision it read is the conversation's, the transcript is the one it read.
Waiting == {"read", "locked", "leased", "resolved"}
ReadIsCurrent ==
    /\ conv.st # "none" => conv.revision > 0
    /\ conv.st = "none" => msgs = <<>> /\ \A r \in Runs : run[r].st = "idle"
    /\ \A r \in Runs : run[r].st \in Waiting =>
          /\ 0 < run[r].expected /\ run[r].expected <= conv.revision
          /\ run[r].expected = conv.revision => run[r].seen = Len(msgs)

\* The results of an answer's calls stand right behind it, in their order, and
\* every result answers the call that its place names.
Answered(h) == \A i \in DOMAIN h : h[i].role = "assistant" => hasCompleteToolResults(h, i)
Called(h) ==
    \A i \in DOMAIN h : h[i].role = "tool" =>
        \E j \in DOMAIN h : /\ j < i /\ i - j \in DOMAIN h[j].ids
                            /\ h[j].role = "assistant" /\ h[i].ids = <<h[j].ids[i - j]>>
TranscriptWhole == Answered(msgs) /\ Called(msgs)

IInv == AIRunsTypeOK /\ WritersHoldLease /\ ReadIsCurrent /\ PromptFollowsRead /\ TranscriptWhole

-----------------------------------------------------------------------------
(* Types. *)

LEMMA IdleTyped == Idle \in RunRows
<1>1. Idle.srv \in Processes
  BY DEF Processes
<1>2. Idle.srv = CHOOSE s \in Servers : TRUE
  BY DEF Idle
<1>. QED
  BY <1>1, <1>2 DEF Idle, RunRows, States

\* A run's row stays one when some of its fields are set.
LEMMA FieldsTyped ==
    ASSUME NEW x \in RunRows
    PROVE  /\ x.st \in States /\ x.srv \in Processes /\ x.expected \in Nat /\ x.seen \in Nat
           /\ x.turn \in Nat /\ x.calls \in Nat /\ x.beat \in Int /\ x.title \in BOOLEAN
           /\ \A st \in States : [x EXCEPT !.st = st] \in RunRows /\ [x EXCEPT !.st = st].st = st
           /\ \A p \in Processes : [x EXCEPT !.srv = p] \in RunRows
           /\ \A n \in Nat : [x EXCEPT !.expected = n] \in RunRows
           /\ \A n \in Nat : [x EXCEPT !.seen = n] \in RunRows
           /\ \A n \in Nat : [x EXCEPT !.turn = n] \in RunRows
           /\ \A n \in Nat : [x EXCEPT !.calls = n] \in RunRows
           /\ \A n \in Int : [x EXCEPT !.beat = n] \in RunRows
           /\ \A t \in BOOLEAN : [x EXCEPT !.title = t] \in RunRows
<1>1. /\ x.st \in States /\ x.srv \in Processes /\ x.expected \in Nat /\ x.seen \in Nat
      /\ x.turn \in Nat /\ x.calls \in Nat /\ x.beat \in Int /\ x.title \in BOOLEAN
  BY DEF RunRows
<1>2. ASSUME NEW st \in States PROVE [x EXCEPT !.st = st] \in RunRows /\ [x EXCEPT !.st = st].st = st
  BY DEF RunRows
<1>3. ASSUME NEW p \in Processes PROVE [x EXCEPT !.srv = p] \in RunRows
  BY DEF RunRows
<1>4. ASSUME NEW n \in Nat PROVE [x EXCEPT !.expected = n] \in RunRows
  BY DEF RunRows
<1>5. ASSUME NEW n \in Nat PROVE [x EXCEPT !.seen = n] \in RunRows
  BY DEF RunRows
<1>6. ASSUME NEW n \in Nat PROVE [x EXCEPT !.turn = n] \in RunRows
  BY DEF RunRows
<1>7. ASSUME NEW n \in Nat PROVE [x EXCEPT !.calls = n] \in RunRows
  BY DEF RunRows
<1>8. ASSUME NEW n \in Int PROVE [x EXCEPT !.beat = n] \in RunRows
  BY DEF RunRows
<1>9. ASSUME NEW t \in BOOLEAN PROVE [x EXCEPT !.title = t] \in RunRows
  BY DEF RunRows
<1>. QED
  BY <1>1, <1>2, <1>3, <1>4, <1>5, <1>6, <1>7, <1>8, <1>9

LEMMA MoreFieldsTyped ==
    ASSUME NEW x \in RunRows, NEW st \in States
    PROVE  /\ \A p \in Processes, t \in BOOLEAN :
                 /\ [x EXCEPT !.st = st, !.srv = p, !.title = t] \in RunRows
                 /\ [x EXCEPT !.st = st, !.srv = p, !.title = t].st = st
           /\ \A p \in Processes, t \in BOOLEAN, n, m \in Nat :
                 [x EXCEPT !.st = st, !.srv = p, !.expected = n, !.seen = m, !.title = t] \in RunRows
           /\ \A n \in Int : [x EXCEPT !.st = st, !.beat = n] \in RunRows
           /\ \A n, m \in Nat : [x EXCEPT !.st = st, !.expected = n, !.seen = m] \in RunRows
           /\ \A n \in Nat : [x EXCEPT !.st = st, !.calls = n] \in RunRows
           /\ [x EXCEPT !.st = st, !.turn = x.turn + 1, !.calls = 0] \in RunRows
<1>1. ASSUME NEW p \in Processes, NEW t \in BOOLEAN
      PROVE  /\ [x EXCEPT !.st = st, !.srv = p, !.title = t] \in RunRows
             /\ [x EXCEPT !.st = st, !.srv = p, !.title = t].st = st
  BY DEF RunRows
<1>2. ASSUME NEW p \in Processes, NEW t \in BOOLEAN, NEW n \in Nat, NEW m \in Nat
      PROVE  [x EXCEPT !.st = st, !.srv = p, !.expected = n, !.seen = m, !.title = t] \in RunRows
  BY DEF RunRows
<1>3. ASSUME NEW n \in Int PROVE [x EXCEPT !.st = st, !.beat = n] \in RunRows
  BY DEF RunRows
<1>4. ASSUME NEW n \in Nat, NEW m \in Nat PROVE [x EXCEPT !.st = st, !.expected = n, !.seen = m] \in RunRows
  BY DEF RunRows
<1>5. ASSUME NEW n \in Nat PROVE [x EXCEPT !.st = st, !.calls = n] \in RunRows
  BY DEF RunRows
<1>6. [x EXCEPT !.st = st, !.turn = x.turn + 1, !.calls = 0] \in RunRows
  <2>1. x.turn + 1 \in Nat
    BY DEF RunRows
  <2>2. \A n \in Nat : [x EXCEPT !.st = st, !.turn = n, !.calls = 0] \in RunRows
    BY DEF RunRows
  <2>. QED
    BY <2>1, <2>2
<1>. QED
  BY <1>1, <1>2, <1>3, <1>4, <1>5, <1>6

\* The two ways a run's row is set.
LEMMA SetTyped ==
    ASSUME AIRunsTypeOK, NEW r \in Runs, NEW st \in States
    PROVE  /\ Set(r, st) => run' \in [Runs -> RunRows]
           /\ Leave(r, st) => run' \in [Runs -> RunRows]
           /\ Rest(r, st) \in RunRows /\ Rest(r, st).st = st
           /\ run[r] \in RunRows
<1>1. run[r] \in RunRows
  BY DEF AIRunsTypeOK
<1>2. Rest(r, st) \in RunRows /\ Rest(r, st).st = st
  <2>1. run[r].srv \in Processes /\ run[r].title \in BOOLEAN
    BY <1>1, FieldsTyped
  <2>2. \A p \in Processes, t \in BOOLEAN :
           /\ [Idle EXCEPT !.st = st, !.srv = p, !.title = t] \in RunRows
           /\ [Idle EXCEPT !.st = st, !.srv = p, !.title = t].st = st
    BY IdleTyped, MoreFieldsTyped
  <2>. QED
    BY <2>1, <2>2 DEF Rest
<1>3. [run[r] EXCEPT !.st = st] \in RunRows
  BY <1>1, FieldsTyped
<1>. QED
  BY <1>1, <1>2, <1>3 DEF Set, Leave, AIRunsTypeOK

\* A run whose client reads no more keeps its heartbeat.
LEMMA StalledTyped ==
    ASSUME AIRunsTypeOK, NEW r \in Runs, sendEvent(r)
    PROVE  /\ run' \in [Runs -> RunRows] /\ \A q \in Runs \ {r} : run'[q] = run[q]
           /\ run'[r].st = "stalled" /\ run'[r].beat = run[r].beat
<1>. DEFINE x == [Rest(r, "stalled") EXCEPT !.beat = run[r].beat]
<1>1. Rest(r, "stalled") \in RunRows /\ Rest(r, "stalled").st = "stalled" /\ run[r].beat \in Int
  BY SetTyped, FieldsTyped DEF States
<1>2. x \in RunRows /\ x.st = "stalled" /\ x.beat = run[r].beat
  BY <1>1 DEF RunRows
<1>3. run' = [run EXCEPT ![r] = x] /\ run \in [Runs -> RunRows]
  BY DEF sendEvent, AIRunsTypeOK
<1>. HIDE DEF x
<1>. QED
  BY <1>2, <1>3

\* What a statement leaves of the conversation.
LEMMA ConvTyped ==
    ASSUME AIRunsTypeOK
    PROVE  /\ \A t \in BOOLEAN : NewConversation(t) \in ConvRows
           /\ [conv EXCEPT !.st = "deleted", !.revision = @ + 1] \in ConvRows
           /\ \A t \in BOOLEAN : [conv EXCEPT !.titled = t, !.revision = @ + 1] \in ConvRows
           /\ [conv EXCEPT !.revision = @ + 1] \in ConvRows
<1>1. conv \in ConvRows
  BY DEF AIRunsTypeOK
<1>2. conv.revision + 1 \in Nat
  BY <1>1 DEF ConvRows
<1>3. \A n \in Nat, t \in BOOLEAN :
        /\ [conv EXCEPT !.st = "deleted", !.revision = n] \in ConvRows
        /\ [conv EXCEPT !.titled = t, !.revision = n] \in ConvRows
        /\ [conv EXCEPT !.revision = n] \in ConvRows
  BY <1>1 DEF ConvRows
<1>4. \A t \in BOOLEAN : NewConversation(t) \in ConvRows
  BY DEF NewConversation, ConvRows
<1>. QED
  BY <1>2, <1>3, <1>4

\* The rows a run writes.
LEMMA RowsTyped ==
    ASSUME AIRunsTypeOK, NEW r \in Runs
    PROVE  /\ Row("user", <<>>, run[r].seen) \in Rows /\ Row("assistant", <<>>, 0) \in Rows
           /\ completedToolCalls(r) \in Seq(Nat \X Nat) /\ Len(completedToolCalls(r)) = run[r].calls
           /\ <<Row("assistant", completedToolCalls(r), 0)>>
                 \o [i \in DOMAIN completedToolCalls(r) |-> Row("tool", <<completedToolCalls(r)[i]>>, 0)] \in Seq(Rows)
<1>1. run[r].seen \in Nat /\ run[r].calls \in Nat /\ run[r].turn \in Nat
  BY SetTyped DEF RunRows, AIRunsTypeOK
<1>2. \A role \in {"user", "assistant", "tool"}, ids \in Seq(Nat \X Nat), n \in Nat : Row(role, ids, n) \in Rows
  BY DEF Row, Rows
<1>3. completedToolCalls(r) \in Seq(Nat \X Nat) /\ Len(completedToolCalls(r)) = run[r].calls
  BY <1>1 DEF completedToolCalls
<1>. DEFINE ids == completedToolCalls(r)
            tools == [i \in DOMAIN ids |-> Row("tool", <<ids[i]>>, 0)]
<1>. HIDE DEF ids
<1>4. ids \in Seq(Nat \X Nat)
  BY <1>3 DEF ids
<1>5. \A i \in DOMAIN ids : <<ids[i]>> \in Seq(Nat \X Nat)
  BY <1>4
<1>6. \A i \in DOMAIN ids : Row("tool", <<ids[i]>>, 0) \in Rows
  BY <1>2, <1>5
<1>7. tools \in Seq(Rows)
  <2>1. DOMAIN ids = 1..Len(ids) /\ Len(ids) \in Nat
    BY <1>4
  <2>2. tools \in [1..Len(ids) -> Rows]
    BY <1>6, <2>1
  <2>. QED
    BY <2>1, <2>2, SeqDef
<1>8. Row("assistant", ids, 0) \in Rows
  BY <1>2, <1>4
<1>9. <<Row("assistant", ids, 0)>> \in Seq(Rows)
  BY <1>8
<1>10. <<Row("assistant", ids, 0)>> \o tools \in Seq(Rows)
  BY <1>7, <1>9, ConcatProperties
<1>11. Row("user", <<>>, run[r].seen) \in Rows /\ Row("assistant", <<>>, 0) \in Rows
  <2>1. <<>> \in Seq(Nat \X Nat)
    OBVIOUS
  <2>. QED
    BY <1>1, <1>2, <2>1
<1>. QED
  BY <1>3, <1>10, <1>11 DEF ids

LEMMA TypeStep == AIRunsTypeOK /\ [Next]_vars => AIRunsTypeOK'
<1>. SUFFICES ASSUME AIRunsTypeOK, [Next]_vars PROVE AIRunsTypeOK'
  OBVIOUS
<1>0. /\ conv \in ConvRows
      /\ msgs \in Seq(Rows) /\ lock \in [run : Runs \cup {0}, left : Nat]
      /\ run \in [Runs -> RunRows] /\ renames \in Nat /\ taken \subseteq Runs \cup {0}
      /\ Runs \subseteq Nat /\ Ttl \in Nat /\ Beat \in Nat /\ CallCounts \subseteq Nat
  BY AIAssumption DEF AIRunsTypeOK, Runs
<1>1. CASE createConversation \/ deleteConversation \/ patchConversation
  <2>1. conv' \in ConvRows
    BY <1>1, ConvTyped DEF createConversation, deleteConversation, patchConversation, Create, SoftDelete, SetTitle
  <2>2. UNCHANGED <<msgs, lock, run, taken>> /\ renames' \in {renames, renames + 1}
    BY <1>1 DEF createConversation, deleteConversation, patchConversation
  <2>. QED
    BY <1>0, <2>1, <2>2 DEF AIRunsTypeOK
<1>2. ASSUME NEW r \in Runs, NEW s \in Servers, stream(r, s) PROVE AIRunsTypeOK'
  <2>. DEFINE new == [Idle EXCEPT !.st = "read", !.srv = s, !.expected = conv.revision,
                                  !.seen = Len(msgs), !.title = ~conv.titled]
  <2>1. new \in RunRows
    <3>1. s \in Processes /\ "read" \in States /\ Len(msgs) \in Nat /\ (~conv.titled) \in BOOLEAN
      BY <1>0 DEF Processes, States
    <3>2. conv.revision \in Nat
      BY <1>0 DEF ConvRows
    <3>. QED
      BY <3>1, <3>2, IdleTyped, MoreFieldsTyped
  <2>. QED
    BY <1>0, <1>2, <2>1 DEF stream, AIRunsTypeOK
<1>3. ASSUME NEW r \in Runs,
             tryLockRun(r) \/ Refused(r) \/ ResolveProvider(r) \/ PromptRefused(r) \/ dispatch(r) \/ Disconnect(r)
      PROVE  AIRunsTypeOK'
  <2>1. run' \in [Runs -> RunRows]
    BY <1>3, SetTyped DEF tryLockRun, Refused, ResolveProvider, PromptRefused, dispatch, Disconnect, States
  <2>. QED
    BY <1>0, <1>3, <2>1 DEF tryLockRun, Refused, ResolveProvider, PromptRefused, dispatch, Disconnect, rest, AIRunsTypeOK
<1>4. ASSUME NEW r \in Runs, TakeLease(r) PROVE AIRunsTypeOK'
  <2>1. run' = [run EXCEPT ![r] = [run[r] EXCEPT !.st = "leased", !.beat = Beat]]
    BY <1>0, <1>4 DEF TakeLease
  <2>2. [run[r] EXCEPT !.st = "leased", !.beat = Beat] \in RunRows
    <3>1. run[r] \in RunRows /\ Beat \in Int /\ "leased" \in States
      BY <1>0 DEF States
    <3>. QED
      BY <3>1, MoreFieldsTyped
  <2>. QED
    BY <1>0, <1>4, <2>1, <2>2 DEF TakeLease, AcquireRunLease, rest, AIRunsTypeOK
<1>5. ASSUME NEW r \in Runs, StorePrompt(r) PROVE AIRunsTypeOK'
  <2>1. run' = [run EXCEPT ![r] = [run[r] EXCEPT !.st = "turn", !.expected = 0, !.seen = 0]]
    BY <1>0, <1>5 DEF StorePrompt
  <2>2. [run[r] EXCEPT !.st = "turn", !.expected = 0, !.seen = 0] \in RunRows
    <3>1. run[r] \in RunRows /\ "turn" \in States /\ 0 \in Nat
      BY <1>0 DEF States
    <3>. QED
      BY <3>1, MoreFieldsTyped
  <2>3. msgs' \in Seq(Rows) /\ conv' \in ConvRows
    <3>. DEFINE new == Row("user", <<>>, run[r].seen)
    <3>1. /\ msgs' = Append(msgs, new)
          /\ conv' = [conv EXCEPT !.revision = @ + 1]
      BY <1>5 DEF StorePrompt, AppendUserMessageIfRevision, appendMessage, tryAppendMessage
    <3>2. new \in Rows
      BY RowsTyped
    <3>. HIDE DEF new
    <3>3. Append(msgs, new) \in Seq(Rows)
      BY <1>0, <3>2
    <3>. QED
      BY <3>1, <3>3, ConvTyped
  <2>. QED
    BY <1>0, <1>5, <2>1, <2>2, <2>3 DEF StorePrompt, rest, AIRunsTypeOK
<1>6. ASSUME NEW r \in Runs, ChatStream(r) PROVE AIRunsTypeOK'
  <2>1. ASSUME NEW n \in CallCounts, run' = [run EXCEPT ![r].st = "calls", ![r].calls = n]
        PROVE  run' \in [Runs -> RunRows]
    <3>1. run' = [run EXCEPT ![r] = [run[r] EXCEPT !.st = "calls", !.calls = n]]
      BY <1>0, <2>1
    <3>2. [run[r] EXCEPT !.st = "calls", !.calls = n] \in RunRows
      <4>1. run[r] \in RunRows /\ "calls" \in States /\ n \in Nat
        BY <1>0 DEF States
      <4>. QED
        BY <4>1, MoreFieldsTyped
    <3>. QED
      BY <1>0, <3>1, <3>2
  <2>2. run' \in [Runs -> RunRows]
    BY <1>6, <2>1, SetTyped DEF ChatStream, States
  <2>. QED
    BY <1>0, <1>6, <2>2 DEF ChatStream, rest, AIRunsTypeOK
<1>7. ASSUME NEW r \in Runs, FinalAnswer(r) PROVE AIRunsTypeOK'
  <2>1. msgs' \in Seq(Rows) /\ conv' \in ConvRows
    <3>. DEFINE new == Row("assistant", <<>>, 0)
    <3>1. /\ msgs' = Append(msgs, new)
          /\ conv' = [conv EXCEPT !.revision = @ + 1]
      BY <1>7 DEF FinalAnswer, AppendAssistantMessageWithUsage, appendMessage, tryAppendMessage
    <3>2. new \in Rows
      BY RowsTyped
    <3>. HIDE DEF new
    <3>3. Append(msgs, new) \in Seq(Rows)
      BY <1>0, <3>2
    <3>. QED
      BY <3>1, <3>3, ConvTyped
  <2>2. run' \in [Runs -> RunRows]
    BY <1>7, SetTyped, StalledTyped DEF FinalAnswer, States
  <2>. QED
    BY <1>0, <1>7, <2>1, <2>2 DEF FinalAnswer, rest, AIRunsTypeOK
<1>8. ASSUME NEW r \in Runs, AppendMessages(r) PROVE AIRunsTypeOK'
  <2>1. msgs' \in Seq(Rows) /\ conv' \in ConvRows
    <3>. DEFINE new == <<Row("assistant", completedToolCalls(r), 0)>>
                 \o [i \in DOMAIN completedToolCalls(r) |-> Row("tool", <<completedToolCalls(r)[i]>>, 0)]
    <3>1. msgs' = msgs \o new /\ conv' = [conv EXCEPT !.revision = @ + 1]
      BY <1>8 DEF AppendMessages, AppendAssistantToolExchange, tryAppendMessages
    <3>2. new \in Seq(Rows)
      BY RowsTyped
    <3>. HIDE DEF new
    <3>. QED
      BY <1>0, <3>1, <3>2, ConcatProperties, ConvTyped
  <2>2. [run[r] EXCEPT !.st = "turn", !.turn = run[r].turn + 1, !.calls = 0] \in RunRows
    BY <1>0, FieldsTyped, MoreFieldsTyped DEF States
  <2>3. Rest(r, "end") \in RunRows
    BY SetTyped DEF States
  <2>4. run' = [run EXCEPT ![r] = IF run[r].turn + 1 < MaxTurns
                                  THEN [run[r] EXCEPT !.st = "turn", !.turn = run[r].turn + 1, !.calls = 0] ELSE Rest(r, "end")]
    BY <1>8 DEF AppendMessages
  <2>5. run' \in [Runs -> RunRows]
    BY <1>0, <2>2, <2>3, <2>4
  <2>. QED
    BY <1>0, <1>8, <2>1, <2>5 DEF AppendMessages, rest, AIRunsTypeOK
<1>9. ASSUME NEW r \in Runs, Finish(r) PROVE AIRunsTypeOK'
  BY <1>0, <1>9, SetTyped DEF Finish, ReleaseRunLease, NoLock, States, rest, AIRunsTypeOK
<1>16. ASSUME NEW r \in Runs, Stall(r) PROVE AIRunsTypeOK'
  BY <1>0, <1>16, StalledTyped DEF Stall, rest, AIRunsTypeOK
<1>10. ASSUME NEW r \in Runs, Heartbeat(r) PROVE AIRunsTypeOK'
  <2>1. CASE RenewRunLease(r) /\ run' = [run EXCEPT ![r].beat = Beat]
    <3>1. [run[r] EXCEPT !.beat = Beat] \in RunRows
      <4>1. run[r] \in RunRows /\ Beat \in Int
        BY <1>0
      <4>. QED
        BY <4>1, FieldsTyped
    <3>2. run' = [run EXCEPT ![r] = [run[r] EXCEPT !.beat = Beat]]
      BY <1>0, <2>1
    <3>. QED
      BY <1>0, <1>10, <2>1, <3>1, <3>2 DEF RenewRunLease, Heartbeat, rest, AIRunsTypeOK
  <2>2. CASE Leave(r, "end") /\ UNCHANGED lock
    BY <1>0, <1>10, <2>2, SetTyped DEF Heartbeat, rest, States, AIRunsTypeOK
  <2>. QED
    BY <1>10, <2>1, <2>2 DEF Heartbeat, Renew
<1>11. ASSUME NEW r \in Runs, AutoTitle(r) PROVE AIRunsTypeOK'
  <2>1. [run[r] EXCEPT !.title = FALSE] \in RunRows
    BY <1>0, FieldsTyped, MoreFieldsTyped
  <2>2. run' = [run EXCEPT ![r] = [run[r] EXCEPT !.title = FALSE]]
    BY <1>0, <1>11 DEF AutoTitle
  <2>3. conv' \in ConvRows
    BY <1>0, <1>11, ConvTyped DEF AutoTitle, SetTitleIfEmpty
  <2>. QED
    BY <1>0, <1>11, <2>1, <2>2, <2>3 DEF AutoTitle, AIRunsTypeOK
<1>12. CASE deleteRun
  <2>1. lock.run \in taken' /\ taken' = taken \cup {lock.run} /\ lock' = NoLock
    BY <1>12 DEF deleteRun, DeleteRunLease
  <2>. QED
    BY <1>0, <1>12, <2>1 DEF deleteRun, NoLock, AIRunsTypeOK
<1>13. CASE Tick
  <2>1. \A r \in Runs : [run[r] EXCEPT !.beat = @ - 1] \in RunRows
    <3>1. \A r \in Runs : run[r] \in RunRows
      BY <1>0
    <3>2. \A x \in RunRows : x.beat - 1 \in Int
      BY DEF RunRows
    <3>. QED
      BY <3>1, <3>2, FieldsTyped
  <2>2. run' \in [Runs -> RunRows]
    BY <1>0, <1>13, <2>1 DEF Tick
  <2>3. lock' \in [run : Runs \cup {0}, left : Nat]
    <3>1. Down(lock.left) \in Nat
      BY <1>0 DEF Down
    <3>. QED
      BY <1>0, <1>13, <3>1 DEF Tick
  <2>. QED
    BY <1>0, <1>13, <2>2, <2>3 DEF Tick, rest, AIRunsTypeOK
<1>14. ASSUME NEW s \in Servers, Crash(s) PROVE AIRunsTypeOK'
  <2>1. \A r \in Runs : [Rest(r, "over") EXCEPT !.title = FALSE] \in RunRows
    BY SetTyped, FieldsTyped, MoreFieldsTyped DEF States
  <2>. QED
    BY <1>0, <1>14, <2>1 DEF Crash, rest, AIRunsTypeOK
<1>15. CASE UNCHANGED vars
  BY <1>15 DEF vars, AIRunsTypeOK
<1>. QED
  BY <1>1, <1>2, <1>3, <1>4, <1>5, <1>6, <1>7, <1>8, <1>9, <1>10, <1>11, <1>12, <1>13, <1>14, <1>15, <1>16 DEF Next, run_

-----------------------------------------------------------------------------
(* Two runs never write at the same time. *)

\* Nothing happens to the leases of writers while lock and taken stay.
LEMMA WritersQuiet ==
    ASSUME WritersHoldLease, UNCHANGED <<lock, taken>>,
           \A q \in Runs : run'[q].st \in Writing => run[q].st \in Writing /\ run'[q].beat = run[q].beat
    PROVE  WritersHoldLease'
BY DEF WritersHoldLease

\* A step of one run, and what it says of the others.
LEMMA OthersKept ==
    ASSUME AIRunsTypeOK, NEW r \in Runs, NEW x, run' = [run EXCEPT ![r] = x]
    PROVE  run'[r] = x /\ \A q \in Runs \ {r} : run'[q] = run[q]
BY DEF AIRunsTypeOK

LEMMA SetKept ==
    ASSUME AIRunsTypeOK, NEW r \in Runs, NEW st \in States, Set(r, st) \/ Leave(r, st)
    PROVE  /\ run'[r].st = st /\ \A q \in Runs \ {r} : run'[q] = run[q]
           /\ Set(r, st) => run'[r].beat = run[r].beat /\ run'[r].expected = run[r].expected
                            /\ run'[r].seen = run[r].seen
<1>1. CASE Leave(r, st) /\ ~Set(r, st)
  <2>1. run' = [run EXCEPT ![r] = Rest(r, st)]
    BY <1>1 DEF Leave
  <2>2. run'[r] = Rest(r, st) /\ \A q \in Runs \ {r} : run'[q] = run[q]
    BY <2>1, OthersKept
  <2>3. Rest(r, st).st = st
    BY SetTyped
  <2>. QED
    BY <1>1, <2>2, <2>3
<1>2. CASE Set(r, st)
  <2>1. run[r] \in RunRows /\ run' = [run EXCEPT ![r] = [run[r] EXCEPT !.st = st]]
    BY <1>2 DEF Set, AIRunsTypeOK
  <2>2. /\ [run[r] EXCEPT !.st = st].st = st /\ [run[r] EXCEPT !.st = st].beat = run[r].beat
        /\ [run[r] EXCEPT !.st = st].expected = run[r].expected /\ [run[r] EXCEPT !.st = st].seen = run[r].seen
    BY <2>1 DEF RunRows
  <2>. QED
    BY <2>1, <2>2, OthersKept
<1>. QED
  BY <1>1, <1>2

LEMMA WritersStep ==
    ASSUME AIRunsTypeOK, WritersHoldLease, [Next]_vars
    PROVE  WritersHoldLease'
<1>0. /\ lock \in [run : Runs \cup {0}, left : Nat] /\ run \in [Runs -> RunRows]
      /\ Ttl \in Nat /\ Beat \in Nat /\ Late \in Nat /\ Beat + Late < Ttl /\ 0 \notin Runs
  BY AIAssumption DEF AIRunsTypeOK, Runs
<1>1. ASSUME NEW r \in Runs, TakeLease(r) PROVE WritersHoldLease'
  <2>1. /\ lock' = [run |-> r, left |-> Ttl] /\ lock.left = 0 /\ taken' = taken
        /\ run' = [run EXCEPT ![r] = [run[r] EXCEPT !.st = "leased", !.beat = Beat]]
    BY <1>0, <1>1 DEF TakeLease, AcquireRunLease, rest
  <2>2. run'[r].beat = Beat /\ \A q \in Runs \ {r} : run'[q] = run[q]
    BY <1>0, <2>1 DEF RunRows
  <2>3. ASSUME NEW q \in Runs, run[q].st \in Writing, q \notin taken PROVE FALSE
    <3>1. lock.left = run[q].beat + (Ttl - Beat) /\ -Late <= run[q].beat /\ run[q].beat \in Int
      BY <1>0, <2>3, FieldsTyped DEF WritersHoldLease
    <3>. QED
      BY <1>0, <2>1, <3>1
  <2>4. lock'.run = r /\ lock'.left = Ttl /\ Ttl = Beat + (Ttl - Beat) /\ -Late <= Beat
    BY <1>0, <2>1
  <2>. QED
    BY <2>1, <2>2, <2>3, <2>4 DEF WritersHoldLease
<1>2. ASSUME NEW r \in Runs, Heartbeat(r) PROVE WritersHoldLease'
  <2>1. CASE Leave(r, "end") /\ UNCHANGED lock
    <3>1. run'[r].st = "end" /\ \A q \in Runs \ {r} : run'[q] = run[q]
      BY <2>1, SetKept DEF States
    <3>. QED
      BY <1>2, <2>1, <3>1, WritersQuiet DEF Heartbeat, rest, Writing
  <2>2. CASE RenewRunLease(r) /\ run' = [run EXCEPT ![r].beat = Beat]
    <3>1. /\ lock.run = r /\ lock'.run = r /\ lock'.left = Ttl /\ taken' = taken
      BY <1>0, <1>2, <2>2 DEF RenewRunLease, Heartbeat, rest
    <3>2. run'[r].beat = Beat /\ \A q \in Runs \ {r} : run'[q] = run[q]
      BY <1>0, <2>2 DEF RunRows
    <3>3. Ttl = Beat + (Ttl - Beat) /\ -Late <= Beat
      BY <1>0
    <3>4. \A q \in Runs \ {r} : ~(run'[q].st \in Writing /\ q \notin taken)
      BY <3>1, <3>2 DEF WritersHoldLease
    <3>. QED
      BY <3>1, <3>2, <3>3, <3>4 DEF WritersHoldLease
  <2>. QED
    BY <1>2, <2>1, <2>2 DEF Heartbeat, Renew
<1>3. CASE Tick
  <2>1. /\ taken' = taken /\ lock' = [lock EXCEPT !.left = Down(@)]
        /\ \A r \in Runs : run[r].st \in Writing => run[r].beat > -Late
    BY <1>3 DEF Tick, rest
  <2>2. \A r \in Runs : run'[r] = IF run[r].st \in Writing THEN [run[r] EXCEPT !.beat = @ - 1] ELSE run[r]
    BY <1>3 DEF Tick
  <2>3. lock'.run = lock.run /\ lock'.left = Down(lock.left)
    BY <1>0, <2>1
  <2>4. ASSUME NEW r \in Runs, run'[r].st \in Writing, r \notin taken'
        PROVE  lock'.run = r /\ lock'.left = run'[r].beat + (Ttl - Beat) /\ -Late <= run'[r].beat
    <3>1. run[r] \in RunRows
      BY <1>0
    <3>2. [run[r] EXCEPT !.beat = @ - 1].st = run[r].st /\ [run[r] EXCEPT !.beat = @ - 1].beat = run[r].beat - 1
      BY <3>1 DEF RunRows
    <3>3. run[r].st \in Writing /\ run'[r].beat = run[r].beat - 1 /\ run[r].beat \in Int
      BY <2>2, <2>4, <3>1, <3>2 DEF RunRows
    <3>4. lock.run = r /\ lock.left = run[r].beat + (Ttl - Beat) /\ -Late <= run[r].beat
      BY <2>1, <2>4, <3>3 DEF WritersHoldLease
    <3>5. -Late < run[r].beat
      BY <2>1, <3>3
    <3>6. lock.left > 0 /\ lock.left - 1 = (run[r].beat - 1) + (Ttl - Beat) /\ -Late <= run[r].beat - 1
      BY <1>0, <3>3, <3>4, <3>5
    <3>. QED
      BY <2>3, <3>3, <3>4, <3>6 DEF Down
  <2>. QED
    BY <2>4 DEF WritersHoldLease
<1>4. CASE deleteRun
  <2>1. /\ lock' = NoLock /\ run' = run /\ taken' = taken \cup {lock.run}
    BY <1>4 DEF deleteRun, DeleteRunLease
  <2>. QED
    BY <2>1 DEF WritersHoldLease
<1>5. ASSUME NEW r \in Runs, Finish(r) PROVE WritersHoldLease'
  <2>1. /\ run[r].st = "end" /\ Leave(r, "over") /\ taken' = taken
        /\ lock' = lock \/ lock' = IF lock.run = r THEN NoLock ELSE lock
    BY <1>5 DEF Finish, ReleaseRunLease, rest
  <2>2. run'[r].st = "over" /\ \A q \in Runs \ {r} : run'[q] = run[q]
    BY <2>1, SetKept DEF States
  <2>3. CASE lock' = lock
    BY <2>1, <2>2, <2>3, WritersQuiet DEF Writing
  <2>4. CASE lock.run = r
    BY <2>1, <2>2, <2>4 DEF WritersHoldLease, Writing
  <2>. QED
    BY <2>1, <2>3, <2>4
<1>11. ASSUME NEW r \in Runs, FinalAnswer(r) \/ Stall(r), sendEvent(r) PROVE WritersHoldLease'
  <2>1. UNCHANGED <<lock, taken>> /\ run[r].st \in Writing
    BY <1>11 DEF FinalAnswer, Stall, rest, Writing
  <2>2. run'[r].beat = run[r].beat /\ \A q \in Runs \ {r} : run'[q] = run[q]
    BY <1>11, StalledTyped
  <2>. QED
    BY <2>1, <2>2, WritersQuiet
<1>6. ASSUME NEW r \in Runs, StorePrompt(r) \/ ChatStream(r) \/ AppendMessages(r) \/ AutoTitle(r) PROVE WritersHoldLease'
  <2>1. UNCHANGED <<lock, taken>>
    BY <1>6 DEF StorePrompt, ChatStream, AppendMessages, AutoTitle, rest
  <2>2. /\ \A st : run' = [run EXCEPT ![r].st = st] => run'[r].beat = run[r].beat
        /\ \A n : run' = [run EXCEPT ![r].st = "calls", ![r].calls = n] => run'[r].beat = run[r].beat
        /\ run' = [run EXCEPT ![r].st = "turn", ![r].expected = 0, ![r].seen = 0] => run'[r].beat = run[r].beat
        /\ [run[r] EXCEPT !.st = "turn", !.turn = run[r].turn + 1, !.calls = 0].beat = run[r].beat
        /\ run' = [run EXCEPT ![r].title = FALSE] => run'[r].beat = run[r].beat /\ run'[r].st = run[r].st
    BY <1>0 DEF RunRows
  <2>3. \A q \in Runs \ {r} : run'[q] = run[q]
    BY <1>0, <1>6 DEF StorePrompt, ChatStream, AppendMessages, AutoTitle, Set, Leave
  <2>4. CASE StorePrompt(r)
    <3>1. run[r].st = "resolved"
      BY <2>4 DEF StorePrompt
    <3>. QED
      BY <2>1, <2>2, <2>3, <2>4, <3>1, WritersQuiet DEF StorePrompt, Writing
  <2>5. CASE ChatStream(r)
    <3>1. run[r].st = "turn" /\ (run'[r].st = "end" \/ run'[r].beat = run[r].beat)
      BY <2>2, <2>5, SetKept DEF ChatStream, Set, States
    <3>. QED
      BY <2>1, <2>3, <3>1, WritersQuiet DEF Writing
  <2>6. CASE AppendMessages(r)
    <3>1. run[r].st = "batch" /\ (run'[r].st = "end" \/ run'[r].beat = run[r].beat)
      BY <1>0, <2>2, <2>6, SetTyped DEF AppendMessages, States
    <3>. QED
      BY <2>1, <2>3, <3>1, WritersQuiet DEF Writing
  <2>7. CASE AutoTitle(r)
    BY <2>1, <2>2, <2>3, <2>7, WritersQuiet DEF AutoTitle
  <2>. QED
    BY <1>6, <2>4, <2>5, <2>6, <2>7
<1>7. ASSUME NEW r \in Runs,
             \/ tryLockRun(r) \/ Refused(r) \/ ResolveProvider(r) \/ PromptRefused(r)
             \/ FinalAnswer(r) /\ Leave(r, "end")
             \/ dispatch(r) \/ Disconnect(r)
      PROVE  WritersHoldLease'
  <2>1. UNCHANGED <<lock, taken>>
    BY <1>7 DEF tryLockRun, Refused, ResolveProvider, PromptRefused, FinalAnswer, dispatch, Disconnect, rest
  <2>2. \/ \E st \in {"end", "over"} : Leave(r, st)
        \/ \E st \in States : Set(r, st) /\ (st \in Writing => run[r].st \in Writing)
    BY <1>7 DEF tryLockRun, Refused, ResolveProvider, PromptRefused, FinalAnswer, dispatch, Disconnect, States, Writing
  <2>. QED
    BY <2>1, <2>2, SetKept, WritersQuiet DEF States, Writing
<1>8. ASSUME NEW r \in Runs, NEW s \in Servers, stream(r, s) PROVE WritersHoldLease'
  <2>1. [Idle EXCEPT !.st = "read", !.srv = s, !.expected = conv.revision, !.seen = Len(msgs), !.title = ~conv.titled].st = "read"
    BY DEF Idle
  <2>2. run'[r].st = "read" /\ \A q \in Runs \ {r} : run'[q] = run[q]
    BY <1>0, <1>8, <2>1 DEF stream
  <2>. QED
    BY <1>8, <2>2, WritersQuiet DEF stream, Writing
<1>9. ASSUME NEW s \in Servers, Crash(s) PROVE WritersHoldLease'
  <2>1. \A r \in Runs : [Rest(r, "over") EXCEPT !.title = FALSE].st = "over"
    BY DEF Rest, Idle
  <2>. QED
    BY <1>9, <2>1, WritersQuiet DEF Crash, rest, Writing
<1>10. CASE createConversation \/ deleteConversation \/ patchConversation \/ UNCHANGED vars
  BY <1>10, WritersQuiet DEF createConversation, deleteConversation, patchConversation, vars
<1>. QED
  BY <1>1, <1>2, <1>3, <1>4, <1>5, <1>6, <1>7, <1>8, <1>9, <1>10, <1>11 DEF Next, run_, FinalAnswer, Stall

-----------------------------------------------------------------------------
(* A prompt follows what its sender has read. *)

\* The steps that write the transcript, and what else they do.
BatchOf(r) ==
    LET ids == completedToolCalls(r) IN
      <<Row("assistant", ids, 0)>> \o [i \in DOMAIN ids |-> Row("tool", <<ids[i]>>, 0)]

LEMMA TranscriptSteps ==
    ASSUME AIRunsTypeOK, [Next]_vars
    PROVE  \/ UNCHANGED msgs
           \/ \E r \in Runs : /\ run[r].st = "resolved" /\ msgs' = Append(msgs, Row("user", <<>>, run[r].seen))
                              /\ run[r].expected > 0 => conv.revision = run[r].expected
                              /\ conv' = [conv EXCEPT !.revision = @ + 1]
                              /\ conv.st # "none"
           \/ /\ msgs' = Append(msgs, Row("assistant", <<>>, 0))
              /\ conv' = [conv EXCEPT !.revision = @ + 1] /\ conv.st # "none"
           \/ \E r \in Runs : /\ msgs' = msgs \o BatchOf(r) /\ run[r].st = "batch"
                              /\ conv' = [conv EXCEPT !.revision = @ + 1]
<1>1. ASSUME NEW r \in Runs, StorePrompt(r) \/ FinalAnswer(r) \/ AppendMessages(r)
      PROVE  \/ /\ run[r].st = "resolved" /\ msgs' = Append(msgs, Row("user", <<>>, run[r].seen))
                /\ run[r].expected > 0 => conv.revision = run[r].expected
                /\ conv' = [conv EXCEPT !.revision = @ + 1] /\ conv.st # "none"
             \/ /\ msgs' = Append(msgs, Row("assistant", <<>>, 0))
                /\ conv' = [conv EXCEPT !.revision = @ + 1] /\ conv.st # "none"
             \/ /\ msgs' = msgs \o BatchOf(r) /\ run[r].st = "batch"
                /\ conv' = [conv EXCEPT !.revision = @ + 1]
  BY <1>1 DEF StorePrompt, FinalAnswer, AppendMessages, AppendUserMessageIfRevision, AppendAssistantMessageWithUsage,
     appendMessage, tryAppendMessage, AppendAssistantToolExchange, tryAppendMessages, BatchOf
<1>2. ASSUME NEW r \in Runs,
             \/ tryLockRun(r) \/ TakeLease(r) \/ Refused(r) \/ ResolveProvider(r) \/ PromptRefused(r) \/ ChatStream(r)
             \/ dispatch(r) \/ Finish(r) \/ AutoTitle(r) \/ Heartbeat(r) \/ Disconnect(r) \/ Stall(r)
             \/ \E s \in Servers : stream(r, s)
      PROVE  UNCHANGED msgs
  BY <1>2 DEF tryLockRun, TakeLease, Refused, ResolveProvider, PromptRefused, ChatStream, dispatch, Finish, AutoTitle,
     Heartbeat, Disconnect, Stall, stream
<1>3. CASE \/ createConversation \/ deleteConversation \/ patchConversation \/ deleteRun \/ Tick
           \/ (\E s \in Servers : Crash(s)) \/ UNCHANGED vars
  BY <1>3 DEF createConversation, deleteConversation, patchConversation, deleteRun, Tick, Crash, vars
<1>. QED
  BY <1>1, <1>2, <1>3 DEF Next, run_

\* A batch: the answer with its calls, and behind it a result for each of them.
LEMMA BatchRows ==
    ASSUME AIRunsTypeOK, NEW r \in Runs
    PROVE  LET ids == completedToolCalls(r) b == BatchOf(r) IN
             /\ ids \in Seq(Nat \X Nat) /\ Len(ids) \in Nat
             /\ b \in Seq(Rows) /\ Len(b) = Len(ids) + 1
             /\ b[1].role = "assistant" /\ b[1].ids = ids
             /\ \A k \in 1..Len(ids) : b[k + 1].role = "tool" /\ b[k + 1].ids = <<ids[k]>>
             /\ \A i \in DOMAIN b : b[i].role # "user"
<1>. DEFINE ids == completedToolCalls(r)
            tools == [i \in DOMAIN ids |-> Row("tool", <<ids[i]>>, 0)]
            b == BatchOf(r)
<1>1. ids \in Seq(Nat \X Nat) /\ b \in Seq(Rows) /\ b = <<Row("assistant", ids, 0)>> \o tools
  BY RowsTyped DEF BatchOf
<1>. HIDE DEF ids, b
<1>2. Len(ids) \in Nat /\ DOMAIN ids = 1..Len(ids)
  BY <1>1
<1>3. tools \in Seq({tools[i] : i \in 1..Len(ids)}) /\ Len(tools) = Len(ids)
  <2>1. tools \in [1..Len(ids) -> {tools[i] : i \in 1..Len(ids)}]
    BY <1>2
  <2>2. tools \in Seq({tools[i] : i \in 1..Len(ids)})
    BY <1>2, <2>1, SeqDef
  <2>3. DOMAIN tools = 1..Len(ids)
    BY <1>2
  <2>. QED
    BY <1>2, <2>2, <2>3, LenProperties
<1>4. \A i \in 1..Len(ids) : tools[i].role = "tool" /\ tools[i].ids = <<ids[i]>>
  BY <1>2 DEF Row
<1>5. Row("assistant", ids, 0).role = "assistant" /\ Row("assistant", ids, 0).ids = ids
  BY DEF Row
<1>. DEFINE a == Row("assistant", ids, 0)
            t == tools
<1>6. b = <<a>> \o t /\ t \in Seq({t[i] : i \in 1..Len(ids)}) /\ Len(t) = Len(ids)
  BY <1>1, <1>3
<1>. HIDE DEF a, tools
<1>7. Len(b) = Len(ids) + 1 /\ b[1] = a /\ \A k \in 1..Len(ids) : b[k + 1] = t[k]
  BY <1>2, <1>6
<1>8. \A i \in DOMAIN b : i = 1 \/ \E k \in 1..Len(ids) : i = k + 1
  <2>1. DOMAIN b = 1..Len(ids) + 1
    BY <1>1, <1>7
  <2>2. ASSUME NEW i \in 1..Len(ids) + 1, i # 1 PROVE i - 1 \in 1..Len(ids) /\ i = (i - 1) + 1
    BY <1>2, <2>2
  <2>. QED
    BY <2>1, <2>2
<1>9. \A i \in DOMAIN b : b[i].role # "user"
  BY <1>4, <1>5, <1>7, <1>8 DEF a
<1>. QED
  BY <1>1, <1>2, <1>4, <1>5, <1>7, <1>9 DEF ids, b, a

\* The revision moves with the transcript, and a conversation does not vanish.
LEMMA RevisionMoves ==
    ASSUME AIRunsTypeOK, ReadIsCurrent, [Next]_vars
    PROVE  /\ \/ conv'.revision = conv.revision /\ msgs' = msgs
              \/ conv'.revision > conv.revision
              \/ conv.st = "none"
           /\ conv.st # "none" => conv'.st # "none"
           /\ conv'.st # "none" => conv'.revision > 0
<1>0. conv \in ConvRows /\ conv.revision \in Nat /\ (conv.st # "none" => conv.revision > 0)
  BY DEF AIRunsTypeOK, ConvRows, ReadIsCurrent
<1>1. conv' = [conv EXCEPT !.revision = @ + 1] => conv'.revision = conv.revision + 1 /\ conv'.st = conv.st
  BY <1>0 DEF ConvRows
<1>2. CASE conv' = conv
  BY <1>0, <1>1, <1>2, TranscriptSteps
<1>3. CASE createConversation
  <2>1. conv.st = "none" /\ conv'.revision = 1
    BY <1>3 DEF createConversation, Create, NewConversation
  <2>. QED
    BY <2>1
<1>4. CASE deleteConversation
  <2>1. conv' = [conv EXCEPT !.st = "deleted", !.revision = @ + 1]
    BY <1>4 DEF deleteConversation, SoftDelete
  <2>2. conv'.revision = conv.revision + 1 /\ conv'.st = "deleted"
    BY <1>0, <2>1 DEF ConvRows
  <2>. QED
    BY <1>0, <2>2
<1>5. ASSUME NEW t, conv.st = "live", conv' = [conv EXCEPT !.titled = t, !.revision = @ + 1]
      PROVE  conv'.revision = conv.revision + 1 /\ conv'.st = "live"
  BY <1>0, <1>5 DEF ConvRows
<1>6. CASE patchConversation
  <2>1. PICK t \in BOOLEAN : conv.st = "live" /\ conv' = [conv EXCEPT !.titled = t, !.revision = @ + 1]
    BY <1>6 DEF patchConversation, SetTitle
  <2>2. conv'.revision = conv.revision + 1 /\ conv'.st = "live"
    BY <1>5, <2>1
  <2>. QED
    BY <1>0, <2>2
<1>7. ASSUME NEW r \in Runs, AutoTitle(r)
      PROVE  conv' = conv \/ (conv'.revision = conv.revision + 1 /\ conv'.st = conv.st)
  BY <1>5, <1>7 DEF AutoTitle, SetTitleIfEmpty
<1>8. ASSUME NEW r \in Runs, StorePrompt(r) \/ FinalAnswer(r) \/ AppendMessages(r)
      PROVE  conv' = [conv EXCEPT !.revision = @ + 1]
  BY <1>8 DEF StorePrompt, FinalAnswer, AppendMessages, AppendUserMessageIfRevision, AppendAssistantMessageWithUsage,
     appendMessage, tryAppendMessage, AppendAssistantToolExchange, tryAppendMessages
<1>9. ASSUME NEW r \in Runs,
             \/ tryLockRun(r) \/ TakeLease(r) \/ Refused(r) \/ ResolveProvider(r) \/ PromptRefused(r) \/ ChatStream(r)
             \/ dispatch(r) \/ Finish(r) \/ Heartbeat(r) \/ Disconnect(r) \/ Stall(r) \/ \E s \in Servers : stream(r, s)
      PROVE  conv' = conv
  BY <1>9 DEF tryLockRun, TakeLease, Refused, ResolveProvider, PromptRefused, ChatStream, dispatch, Finish,
     Heartbeat, Disconnect, Stall, stream
<1>10. CASE deleteRun \/ Tick \/ (\E s \in Servers : Crash(s)) \/ UNCHANGED vars
  BY <1>2, <1>10 DEF deleteRun, Tick, Crash, vars
<1>11. CASE conv'.revision = conv.revision + 1 /\ conv'.st = conv.st
  BY <1>0, <1>11
<1>. QED
  BY <1>1, <1>2, <1>3, <1>4, <1>6, <1>7, <1>8, <1>9, <1>10, <1>11 DEF Next, run_

\* A run that waits has read the conversation now, or it waited before.
LEMMA WaitingSteps ==
    ASSUME AIRunsTypeOK, [Next]_vars, NEW q \in Runs
    PROVE  \/ run'[q].st = run[q].st /\ run'[q].expected = run[q].expected /\ run'[q].seen = run[q].seen
           \/ run[q].st # "idle" /\ run'[q].st \notin Waiting
           \/ /\ run[q].st \in Waiting /\ run'[q].expected = run[q].expected /\ run'[q].seen = run[q].seen
           \/ /\ conv.st # "none" /\ UNCHANGED <<conv, msgs>>
              /\ run'[q].expected = conv.revision /\ run'[q].seen = Len(msgs)
<1>0. run \in [Runs -> RunRows]
  BY DEF AIRunsTypeOK
<1>1. CASE UNCHANGED run
  BY <1>1
<1>2. ASSUME NEW r \in Runs, NEW s \in Servers, stream(r, s)
      PROVE  \/ q # r /\ run'[q] = run[q]
             \/ /\ conv.st # "none" /\ UNCHANGED <<conv, msgs>>
                /\ run'[q].expected = conv.revision /\ run'[q].seen = Len(msgs)
  <2>. DEFINE x == [Idle EXCEPT !.st = "read", !.srv = s, !.expected = conv.revision,
                                !.seen = Len(msgs), !.title = ~conv.titled]
  <2>1. x.expected = conv.revision /\ x.seen = Len(msgs)
    BY DEF Idle
  <2>2. run' = [run EXCEPT ![r] = x] /\ conv.st # "none" /\ UNCHANGED <<conv, msgs>>
    BY <1>2 DEF stream
  <2>. HIDE DEF x
  <2>3. run'[r] = x /\ (q # r => run'[q] = run[q])
    BY <2>2, OthersKept
  <2>. QED
    BY <2>1, <2>2, <2>3
<1>3. ASSUME NEW r \in Runs,
             \/ tryLockRun(r) \/ Refused(r) \/ ResolveProvider(r) \/ PromptRefused(r)
             \/ FinalAnswer(r) /\ Leave(r, "end")
             \/ dispatch(r) \/ Disconnect(r) \/ Finish(r)
      PROVE  \/ run'[q] = run[q]
             \/ run[q].st # "idle" /\ run'[q].st \notin Waiting
             \/ run[q].st \in Waiting /\ run'[q].expected = run[q].expected /\ run'[q].seen = run[q].seen
  <2>1. run[r].st # "idle"
    BY <1>3 DEF tryLockRun, Refused, ResolveProvider, PromptRefused, FinalAnswer, dispatch, Disconnect, Finish, Underway
  <2>2. \/ \E st \in {"end", "over"} : Leave(r, st)
        \/ \E st \in States : Set(r, st) /\ (run[r].st \in Waiting \/ st \notin Waiting)
    BY <1>3 DEF tryLockRun, Refused, ResolveProvider, PromptRefused, FinalAnswer, dispatch, Disconnect, Finish, States, Waiting
  <2>. QED
    BY <2>1, <2>2, SetKept DEF States, Waiting
<1>4. ASSUME NEW r \in Runs, TakeLease(r) \/ StorePrompt(r) \/ ChatStream(r) \/ AppendMessages(r)
      PROVE  \/ run'[q] = run[q]
             \/ run[q].st # "idle" /\ run'[q].st \notin Waiting
             \/ run[q].st \in Waiting /\ run'[q].expected = run[q].expected /\ run'[q].seen = run[q].seen
  <2>1. run[r].st # "idle" /\ \A p \in Runs \ {r} : run'[p] = run[p]
    BY <1>0, <1>4 DEF TakeLease, StorePrompt, ChatStream, AppendMessages, Set, Leave
  <2>2. CASE TakeLease(r)
    <3>1. run[r].st = "locked" /\ run'[r].expected = run[r].expected /\ run'[r].seen = run[r].seen
      BY <1>0, <2>2 DEF TakeLease, RunRows
    <3>. QED
      BY <2>1, <3>1 DEF Waiting
  <2>3. CASE StorePrompt(r)
    <3>1. run'[r].st = "turn"
      BY <1>0, <2>3 DEF StorePrompt, RunRows
    <3>. QED
      BY <2>1, <3>1 DEF Waiting
  <2>4. CASE ChatStream(r)
    <3>1. run' = [run EXCEPT ![r].st = "answer"] \/ (\E n \in CallCounts : run' = [run EXCEPT ![r].st = "calls", ![r].calls = n])
          \/ Leave(r, "end")
      BY <2>4 DEF ChatStream, Set
    <3>2. run'[r].st \in {"answer", "calls", "end"}
      BY <1>0, <3>1, SetKept DEF RunRows, States
    <3>. QED
      BY <2>1, <3>2 DEF Waiting
  <2>5. CASE AppendMessages(r)
    <3>1. run'[r] \in {[run[r] EXCEPT !.st = "turn", !.turn = run[r].turn + 1, !.calls = 0], Rest(r, "end")}
      BY <1>0, <2>5 DEF AppendMessages
    <3>2. run[r] \in RunRows
      BY <1>0
    <3>3. [run[r] EXCEPT !.st = "turn", !.turn = run[r].turn + 1, !.calls = 0].st = "turn"
      BY <3>2 DEF RunRows
    <3>4. Rest(r, "end").st = "end"
      BY SetTyped DEF States
    <3>. QED
      BY <2>1, <3>1, <3>3, <3>4 DEF Waiting
  <2>. QED
    BY <1>4, <2>2, <2>3, <2>4, <2>5
<1>5. ASSUME NEW r \in Runs, Heartbeat(r)
      PROVE  \/ run'[q].st = run[q].st /\ run'[q].expected = run[q].expected /\ run'[q].seen = run[q].seen
             \/ run[q].st # "idle" /\ run'[q].st \notin Waiting
  <2>1. run[r].st # "idle" /\ \A p \in Runs \ {r} : run'[p] = run[p]
    BY <1>0, <1>5 DEF Heartbeat, Renew, Leave, Writing
  <2>2. run[r] \in RunRows /\ (run' = [run EXCEPT ![r] = [run[r] EXCEPT !.beat = Beat]] \/ Leave(r, "end"))
    BY <1>0, <1>5 DEF Heartbeat, Renew
  <2>3. CASE Leave(r, "end")
    BY <2>1, <2>3, SetKept DEF States, Waiting
  <2>4. CASE run' = [run EXCEPT ![r] = [run[r] EXCEPT !.beat = Beat]]
    <3>1. LET x == [run[r] EXCEPT !.beat = Beat] IN x.st = run[r].st /\ x.expected = run[r].expected /\ x.seen = run[r].seen
      BY <2>2 DEF RunRows
    <3>. QED
      BY <2>1, <2>4, <3>1, OthersKept
  <2>. QED
    BY <2>2, <2>3, <2>4
<1>6. ASSUME NEW r \in Runs, AutoTitle(r)
      PROVE  run'[q].st = run[q].st /\ run'[q].expected = run[q].expected /\ run'[q].seen = run[q].seen
  <2>1. run[r] \in RunRows /\ run' = [run EXCEPT ![r] = [run[r] EXCEPT !.title = FALSE]]
    BY <1>0, <1>6 DEF AutoTitle
  <2>2. LET x == [run[r] EXCEPT !.title = FALSE] IN x.st = run[r].st /\ x.expected = run[r].expected /\ x.seen = run[r].seen
    BY <2>1 DEF RunRows
  <2>. QED
    BY <2>1, <2>2, OthersKept
<1>7. CASE Tick
  <2>1. run[q] \in RunRows /\ run'[q] \in {run[q], [run[q] EXCEPT !.beat = @ - 1]}
    BY <1>0, <1>7 DEF Tick
  <2>2. LET x == [run[q] EXCEPT !.beat = @ - 1] IN x.st = run[q].st /\ x.expected = run[q].expected /\ x.seen = run[q].seen
    BY <2>1 DEF RunRows
  <2>. QED
    BY <2>1, <2>2
<1>8. ASSUME NEW s \in Servers, Crash(s)
      PROVE  run'[q] = run[q] \/ (run[q].st # "idle" /\ run'[q].st = "over")
  <2>1. [Rest(q, "over") EXCEPT !.title = FALSE].st = "over"
    BY DEF Rest, Idle
  <2>. QED
    BY <1>8, <2>1 DEF Crash
<1>10. ASSUME NEW r \in Runs, FinalAnswer(r) \/ Stall(r), sendEvent(r)
       PROVE  run'[q] = run[q] \/ (run[q].st # "idle" /\ run'[q].st \notin Waiting)
  <2>1. run[r].st # "idle"
    BY <1>10 DEF FinalAnswer, Stall
  <2>2. run'[r].st = "stalled" /\ \A p \in Runs \ {r} : run'[p] = run[p]
    BY <1>10, StalledTyped
  <2>. QED
    BY <2>1, <2>2 DEF Waiting
<1>9. CASE createConversation \/ deleteConversation \/ patchConversation \/ deleteRun \/ UNCHANGED vars
  BY <1>1, <1>9 DEF createConversation, deleteConversation, patchConversation, deleteRun, vars
<1>. QED
  BY <1>2, <1>3, <1>4, <1>5, <1>6, <1>7, <1>8, <1>9, <1>10 DEF Next, run_, FinalAnswer, Stall, Waiting

LEMMA ReadStep ==
    ASSUME AIRunsTypeOK, ReadIsCurrent, [Next]_vars
    PROVE  ReadIsCurrent'
<1>0. /\ conv.revision \in Nat /\ conv'.revision \in Nat /\ msgs \in Seq(Rows)
      /\ \A r \in Runs : run[r].expected \in Nat /\ run[r].seen \in Nat
      /\ \A r \in Runs : run'[r].expected \in Nat
  <2>1. conv \in ConvRows /\ conv' \in ConvRows /\ msgs \in Seq(Rows)
        /\ \A r \in Runs : run[r] \in RunRows /\ run'[r] \in RunRows
    BY TypeStep DEF AIRunsTypeOK
  <2>2. \A x \in RunRows : x.expected \in Nat /\ x.seen \in Nat
    BY FieldsTyped
  <2>3. \A c \in ConvRows : c.revision \in Nat
    BY DEF ConvRows
  <2>. QED
    BY <2>1, <2>2, <2>3
<1>1. CASE conv.st = "none"
  <2>1. msgs = <<>> /\ \A r \in Runs : run[r].st = "idle"
    BY <1>1 DEF ReadIsCurrent
  <2>2. \A r \in Runs : run'[r].st = "idle"
    BY <1>1, <2>1, WaitingSteps DEF Waiting
  <2>3. msgs' = msgs
    BY <1>1, <2>1, TranscriptSteps
  <2>. QED
    BY <2>1, <2>2, <2>3, RevisionMoves DEF ReadIsCurrent, Waiting
<1>2. CASE conv.st # "none"
  <2>1. conv.revision > 0 /\ conv'.st # "none" /\ conv'.revision > 0
    BY <1>2, RevisionMoves DEF ReadIsCurrent
  <2>2. (conv'.revision = conv.revision /\ msgs' = msgs) \/ conv'.revision > conv.revision
    BY <1>2, RevisionMoves
  <2>3. ASSUME NEW q \in Runs, run'[q].st \in Waiting
        PROVE  /\ 0 < run'[q].expected /\ run'[q].expected <= conv'.revision
               /\ run'[q].expected = conv'.revision => run'[q].seen = Len(msgs')
    <3>1. CASE run[q].st \in Waiting /\ run'[q].expected = run[q].expected /\ run'[q].seen = run[q].seen
      <4>1. /\ 0 < run[q].expected /\ run[q].expected <= conv.revision
            /\ run[q].expected = conv.revision => run[q].seen = Len(msgs)
        BY <3>1 DEF ReadIsCurrent
      <4>. QED
        BY <1>0, <2>2, <3>1, <4>1
    <3>2. CASE /\ conv.st # "none" /\ UNCHANGED <<conv, msgs>>
               /\ run'[q].expected = conv.revision /\ run'[q].seen = Len(msgs)
      BY <1>0, <2>1, <3>2
    <3>. QED
      BY <2>3, <3>1, <3>2, WaitingSteps
  <2>. QED
    BY <2>1, <2>3 DEF ReadIsCurrent
<1>. QED
  BY <1>1, <1>2

LEMMA PromptStep ==
    ASSUME AIRunsTypeOK, ReadIsCurrent, PromptFollowsRead, [Next]_vars
    PROVE  PromptFollowsRead'
<1>0. msgs \in Seq(Rows) /\ Len(msgs) \in Nat
  BY DEF AIRunsTypeOK
<1>1. \A i \in 1..Len(msgs) : msgs[i].role = "user" => i = msgs[i].after + 1
  BY <1>0 DEF PromptFollowsRead
<1>2. ASSUME NEW m \in Rows, msgs' = Append(msgs, m), m.role = "user" => Len(msgs) + 1 = m.after + 1
      PROVE  PromptFollowsRead'
  <2>1. /\ Len(msgs') = Len(msgs) + 1 /\ msgs'[Len(msgs) + 1] = m /\ DOMAIN msgs' = 1..Len(msgs) + 1
        /\ \A i \in 1..Len(msgs) : msgs'[i] = msgs[i]
    BY <1>0, <1>2
  <2>. QED
    BY <1>0, <1>1, <1>2, <2>1 DEF PromptFollowsRead
<1>3. CASE UNCHANGED msgs
  BY <1>3 DEF PromptFollowsRead
<1>4. ASSUME NEW r \in Runs, run[r].st = "resolved", msgs' = Append(msgs, Row("user", <<>>, run[r].seen)),
             run[r].expected > 0 => conv.revision = run[r].expected
      PROVE  PromptFollowsRead'
  <2>1. run[r].seen = Len(msgs)
    BY <1>4 DEF ReadIsCurrent, Waiting
  <2>2. Row("user", <<>>, run[r].seen).after = run[r].seen
    BY DEF Row
  <2>. QED
    BY <1>2, <1>4, <2>1, <2>2, RowsTyped
<1>5. CASE msgs' = Append(msgs, Row("assistant", <<>>, 0))
  <2>1. Row("assistant", <<>>, 0) \in Rows
    <3>1. <<>> \in Seq(Nat \X Nat)
      OBVIOUS
    <3>. QED
      BY <3>1 DEF Row, Rows
  <2>2. Row("assistant", <<>>, 0).role = "assistant"
    BY DEF Row
  <2>. QED
    BY <1>2, <1>5, <2>1, <2>2
<1>6. ASSUME NEW r \in Runs, msgs' = msgs \o BatchOf(r) PROVE PromptFollowsRead'
  <2>1. BatchOf(r) \in Seq(Rows) /\ \A i \in DOMAIN BatchOf(r) : BatchOf(r)[i].role # "user"
    BY BatchRows
  <2>2. /\ \A i \in 1..Len(msgs) : msgs'[i] = msgs[i]
        /\ \A i \in DOMAIN msgs' : i \in 1..Len(msgs) \/ (i - Len(msgs) \in DOMAIN BatchOf(r)
                                                        /\ msgs'[i] = BatchOf(r)[i - Len(msgs)])
    <3>. DEFINE b == BatchOf(r)
    <3>1. b \in Seq(Rows) /\ msgs' = msgs \o b
      BY <1>6, <2>1
    <3>. HIDE DEF b
    <3>2. /\ Len(msgs') = Len(msgs) + Len(b) /\ DOMAIN msgs' = 1..Len(msgs')
          /\ \A i \in 1..Len(msgs') : msgs'[i] = IF i <= Len(msgs) THEN msgs[i] ELSE b[i - Len(msgs)]
      BY <1>0, <3>1, ConcatProperties
    <3>3. DOMAIN b = 1..Len(b) /\ Len(b) \in Nat
      BY <3>1
    <3>. QED
      BY <1>0, <3>2, <3>3 DEF b
  <2>. QED
    BY <1>1, <2>1, <2>2 DEF PromptFollowsRead
<1>. QED
  BY <1>3, <1>4, <1>5, <1>6, TranscriptSteps

-----------------------------------------------------------------------------
(* The transcript is whole. *)

\* A call and its results stay where they are when rows are added, and two whole
\* transcripts one after the other are a whole one.
LEMMA JoinedWhole ==
    ASSUME NEW h \in Seq(Rows), NEW b \in Seq(Rows),
           Answered(h), Called(h), Answered(b), Called(b)
    PROVE  Answered(h \o b) /\ Called(h \o b)
<1>. DEFINE n == Len(h)
            j == h \o b
<1>1. /\ j \in Seq(Rows) /\ Len(j) = n + Len(b) /\ n \in Nat /\ Len(b) \in Nat
      /\ DOMAIN j = 1..n + Len(b) /\ DOMAIN h = 1..n /\ DOMAIN b = 1..Len(b)
  BY ConcatProperties
<1>2. \A i \in 1..n : j[i] = h[i]
  BY <1>1, ConcatProperties
<1>3. \A i \in 1..Len(b) : j[n + i] = b[i]
  <2>1. ASSUME NEW i \in 1..Len(b) PROVE j[n + i] = b[i]
    <3>1. n + i \in 1..n + Len(b) /\ ~(n + i <= n) /\ (n + i) - n = i
      BY <1>1
    <3>. QED
      BY <1>1, <3>1, ConcatProperties
  <2>. QED
    BY <2>1
<1>4. \A i \in 1..n + Len(b) : i \in 1..n \/ \E k \in 1..Len(b) : i = n + k
  <2>1. ASSUME NEW i \in 1..n + Len(b), i \notin 1..n PROVE i - n \in 1..Len(b) /\ i = n + (i - n)
    BY <1>1, <2>1
  <2>. QED
    BY <2>1
<1>5. /\ \A i \in 1..n : Len(h[i].ids) \in Nat /\ DOMAIN h[i].ids = 1..Len(h[i].ids)
      /\ \A i \in 1..Len(b) : Len(b[i].ids) \in Nat /\ DOMAIN b[i].ids = 1..Len(b[i].ids)
  <2>1. \A x \in Rows : x.ids \in Seq(Nat \X Nat)
    BY DEF Rows
  <2>2. (\A i \in 1..n : h[i] \in Rows) /\ (\A i \in 1..Len(b) : b[i] \in Rows)
    BY <1>1
  <2>. QED
    BY <2>1, <2>2
<1>. HIDE DEF j, n
<1>6. ASSUME NEW i \in 1..n, h[i].role = "assistant" PROVE hasCompleteToolResults(j, i)
  <2>1. i + Len(h[i].ids) <= n /\ \A k \in 1..Len(h[i].ids) : h[i + k].role = "tool" /\ h[i + k].ids = <<h[i].ids[k]>>
    BY <1>1, <1>5, <1>6 DEF Answered, hasCompleteToolResults, n
  <2>2. \A k \in 1..Len(h[i].ids) : i + k \in 1..n
    BY <1>1, <1>5, <2>1
  <2>3. i + Len(h[i].ids) <= Len(j)
    <3>1. i \in Nat /\ Len(h[i].ids) \in Nat
      BY <1>1, <1>5
    <3>. QED
      BY <1>1, <2>1, <3>1
  <2>4. j[i] = h[i] /\ \A k \in 1..Len(h[i].ids) : j[i + k] = h[i + k]
    BY <1>2, <2>2
  <2>. QED
    BY <1>5, <2>1, <2>3, <2>4 DEF hasCompleteToolResults
<1>7. ASSUME NEW i \in 1..Len(b), b[i].role = "assistant" PROVE hasCompleteToolResults(j, n + i)
  <2>1. /\ i + Len(b[i].ids) <= Len(b)
        /\ \A k \in 1..Len(b[i].ids) : b[i + k].role = "tool" /\ b[i + k].ids = <<b[i].ids[k]>>
    BY <1>1, <1>5, <1>7 DEF Answered, hasCompleteToolResults
  <2>2. \A k \in 1..Len(b[i].ids) : i + k \in 1..Len(b) /\ (n + i) + k = n + (i + k)
    BY <1>1, <1>5, <2>1
  <2>3. \A k \in 1..Len(b[i].ids) : j[(n + i) + k] = b[i + k]
    BY <1>3, <2>2
  <2>4. (n + i) + Len(b[i].ids) <= Len(j)
    <3>. DEFINE l == Len(b[i].ids)
    <3>1. i \in Nat /\ l \in Nat /\ i + l <= Len(b) /\ n \in Nat /\ Len(b) \in Nat
      BY <1>1, <1>5, <2>1
    <3>. HIDE DEF l
    <3>2. (n + i) + l <= n + Len(b)
      BY <3>1
    <3>. QED
      BY <1>1, <3>2 DEF l
  <2>. QED
    BY <1>3, <1>5, <2>1, <2>3, <2>4 DEF hasCompleteToolResults
<1>8. Answered(j)
  BY <1>1, <1>2, <1>3, <1>4, <1>6, <1>7 DEF Answered
<1>9. ASSUME NEW i \in 1..n, h[i].role = "tool"
      PROVE  \E k \in DOMAIN j : /\ k < i /\ i - k \in DOMAIN j[k].ids
                                /\ j[k].role = "assistant" /\ j[i].ids = <<j[k].ids[i - k]>>
  <2>1. PICK k \in 1..n : /\ k < i /\ i - k \in DOMAIN h[k].ids
                          /\ h[k].role = "assistant" /\ h[i].ids = <<h[k].ids[i - k]>>
    BY <1>1, <1>9 DEF Called
  <2>2. k \in DOMAIN j /\ j[k] = h[k] /\ j[i] = h[i]
    BY <1>1, <1>2
  <2>. QED
    BY <2>1, <2>2
<1>10. ASSUME NEW i \in 1..Len(b), b[i].role = "tool"
       PROVE  \E k \in DOMAIN j : /\ k < n + i /\ (n + i) - k \in DOMAIN j[k].ids
                                 /\ j[k].role = "assistant" /\ j[n + i].ids = <<j[k].ids[(n + i) - k]>>
  <2>1. PICK k \in 1..Len(b) : /\ k < i /\ i - k \in DOMAIN b[k].ids
                               /\ b[k].role = "assistant" /\ b[i].ids = <<b[k].ids[i - k]>>
    BY <1>1, <1>10 DEF Called
  <2>2. n + k \in DOMAIN j /\ n + k < n + i /\ (n + i) - (n + k) = i - k
    BY <1>1, <2>1
  <2>3. j[n + k] = b[k] /\ j[n + i] = b[i]
    BY <1>3
  <2>. QED
    BY <2>1, <2>2, <2>3
<1>11. Called(j)
  <2>. SUFFICES ASSUME NEW i \in 1..n + Len(b), j[i].role = "tool"
                PROVE  \E k \in DOMAIN j : /\ k < i /\ i - k \in DOMAIN j[k].ids
                                          /\ j[k].role = "assistant" /\ j[i].ids = <<j[k].ids[i - k]>>
    BY <1>1 DEF Called
  <2>1. CASE i \in 1..n
    BY <1>2, <1>9, <2>1
  <2>2. ASSUME NEW k \in 1..Len(b), i = n + k
        PROVE  \E l \in DOMAIN j : /\ l < i /\ i - l \in DOMAIN j[l].ids
                                  /\ j[l].role = "assistant" /\ j[i].ids = <<j[l].ids[i - l]>>
    BY <1>3, <1>10, <2>2
  <2>. QED
    BY <1>4, <2>1, <2>2
<1>. QED
  BY <1>8, <1>11 DEF j

\* What the runs add is whole in itself.
LEMMA OneRowWhole ==
    ASSUME NEW m \in Rows, m.role = "user" \/ (m.role = "assistant" /\ m.ids = <<>>)
    PROVE  Answered(<<m>>) /\ Called(<<m>>)
<1>1. DOMAIN <<m>> = {1} /\ <<m>>[1] = m /\ Len(<<m>>) = 1
  OBVIOUS
<1>2. m.ids = <<>> => Len(m.ids) = 0 /\ DOMAIN m.ids = {}
  OBVIOUS
<1>. QED
  BY <1>1, <1>2 DEF Answered, Called, hasCompleteToolResults

LEMMA BatchWhole ==
    ASSUME AIRunsTypeOK, NEW r \in Runs
    PROVE  Answered(BatchOf(r)) /\ Called(BatchOf(r))
<1>. DEFINE ids == completedToolCalls(r)
            b == BatchOf(r)
<1>1. /\ ids \in Seq(Nat \X Nat) /\ Len(ids) \in Nat
      /\ b \in Seq(Rows) /\ Len(b) = Len(ids) + 1
      /\ b[1].role = "assistant" /\ b[1].ids = ids
      /\ \A k \in 1..Len(ids) : b[k + 1].role = "tool" /\ b[k + 1].ids = <<ids[k]>>
  BY BatchRows
<1>. HIDE DEF ids, b
<1>2. DOMAIN b = 1..Len(ids) + 1 /\ DOMAIN ids = 1..Len(ids)
  BY <1>1
<1>3. \A i \in DOMAIN b : i = 1 \/ \E k \in 1..Len(ids) : i = k + 1
  <2>1. ASSUME NEW i \in 1..Len(ids) + 1, i # 1 PROVE i - 1 \in 1..Len(ids) /\ i = (i - 1) + 1
    BY <1>1, <2>1
  <2>. QED
    BY <1>2, <2>1
<1>4. \A k \in 1..Len(ids) : 1 + k = k + 1 /\ (k + 1) - 1 = k /\ 1 < k + 1
  BY <1>1
<1>5. hasCompleteToolResults(b, 1)
  BY <1>1, <1>2, <1>4 DEF hasCompleteToolResults
<1>6. Answered(b)
  <2>1. \A i \in DOMAIN b : b[i].role = "assistant" => i = 1
    BY <1>1, <1>3
  <2>. QED
    BY <1>5, <2>1 DEF Answered
<1>7. Called(b)
  <2>1. \A i \in DOMAIN b : b[i].role = "tool" => \E k \in 1..Len(ids) : i = k + 1
    BY <1>1, <1>3
  <2>2. 1 \in DOMAIN b
    BY <1>1, <1>2
  <2>3. ASSUME NEW k \in 1..Len(ids)
        PROVE  /\ 1 < k + 1 /\ (k + 1) - 1 \in DOMAIN b[1].ids
               /\ b[1].role = "assistant" /\ b[k + 1].ids = <<b[1].ids[(k + 1) - 1]>>
    BY <1>1, <1>2, <1>4
  <2>. QED
    BY <2>1, <2>2, <2>3 DEF Called
<1>. QED
  BY <1>6, <1>7 DEF b

LEMMA WholeStep ==
    ASSUME AIRunsTypeOK, TranscriptWhole, [Next]_vars
    PROVE  TranscriptWhole'
<1>0. msgs \in Seq(Rows) /\ Answered(msgs) /\ Called(msgs)
  BY DEF AIRunsTypeOK, TranscriptWhole
<1>1. CASE UNCHANGED msgs
  <2>1. Answered(msgs') /\ Called(msgs')
    BY <1>0, <1>1
  <2>. QED
    BY <2>1 DEF TranscriptWhole
<1>2. ASSUME NEW m \in Rows, m.role = "user" \/ (m.role = "assistant" /\ m.ids = <<>>),
             msgs' = Append(msgs, m)
      PROVE  TranscriptWhole'
  <2>1. Append(msgs, m) = msgs \o <<m>> /\ <<m>> \in Seq(Rows)
    BY <1>0
  <2>2. Answered(msgs') /\ Called(msgs')
    BY <1>0, <1>2, <2>1, OneRowWhole, JoinedWhole
  <2>. QED
    BY <2>2 DEF TranscriptWhole
<1>3. ASSUME NEW r \in Runs, msgs' = msgs \o BatchOf(r) PROVE TranscriptWhole'
  <2>1. BatchOf(r) \in Seq(Rows)
    BY BatchRows
  <2>2. Answered(msgs') /\ Called(msgs')
    BY <1>0, <1>3, <2>1, BatchWhole, JoinedWhole
  <2>. QED
    BY <2>2 DEF TranscriptWhole
<1>4. ASSUME NEW r \in Runs, msgs' = Append(msgs, Row("user", <<>>, run[r].seen)) PROVE TranscriptWhole'
  <2>1. Row("user", <<>>, run[r].seen).role = "user"
    BY DEF Row
  <2>. QED
    BY <1>2, <1>4, <2>1, RowsTyped
<1>5. CASE msgs' = Append(msgs, Row("assistant", <<>>, 0))
  <2>1. Row("assistant", <<>>, 0) \in Rows
    <3>1. <<>> \in Seq(Nat \X Nat)
      OBVIOUS
    <3>. QED
      BY <3>1 DEF Row, Rows
  <2>2. Row("assistant", <<>>, 0).role = "assistant" /\ Row("assistant", <<>>, 0).ids = <<>>
    BY DEF Row
  <2>. QED
    BY <1>2, <1>5, <2>1, <2>2
<1>. QED
  BY <1>1, <1>3, <1>4, <1>5, TranscriptSteps

-----------------------------------------------------------------------------
(* What a model is asked with.  A cut transcript loses the results it opens   *)
(* with, and nothing else.                                                    *)

LEMMA LeastNatural ==
    ASSUME NEW S \in SUBSET Nat, S # {}
    PROVE  \E m \in S : \A k \in S : m <= k
<1>. DEFINE R == StrictSubsetOrdering(Nat)
            F == FiniteSubsetsOf(Nat)
            T == {0 .. (m - 1) : m \in S}
<1>1. ASSUME NEW m \in Nat PROVE 0 .. (m - 1) \in F
  BY FS_Interval DEF FiniteSubsetsOf
<1>2. T \subseteq F /\ T # {}
  BY <1>1
<1>3. IsWellFoundedOn(R, F)
  BY FS_StrictSubsetOrderingWellFounded
<1>. HIDE DEF F, R, T
<1>4. PICK x \in T : \A y \in T : <<y, x>> \notin R
  BY <1>2, <1>3, WFMin, Zenon
<1>5. PICK m \in S : x = 0 .. (m - 1)
  BY <1>4 DEF T
<1>6. ASSUME NEW k \in S, k < m PROVE FALSE
  <2>1. 0 .. (k - 1) \in T /\ <<0 .. (k - 1), x>> \notin R
    BY <1>4 DEF T
  <2>2. 0 .. (k - 1) \subseteq 0 .. (m - 1) /\ k \in 0 .. (m - 1) /\ k \notin 0 .. (k - 1)
    BY <1>6
  <2>. QED
    BY <1>5, <2>1, <2>2 DEF R, StrictSubsetOrdering
<1>. QED
  BY <1>6

\* The rows of h that repairToolTranscript keeps.
KeptOf(h) ==
    LET calls == {i \in DOMAIN h : h[i].role = "assistant" /\ h[i].ids # <<>> /\ hasCompleteToolResults(h, i)}
        plain == {i \in DOMAIN h : h[i].role # "tool" /\ (h[i].role = "assistant" => h[i].ids = <<>>)}
    IN  plain \cup UNION {i .. i + Len(h[i].ids) : i \in calls}

LEMMA RepairKeepsTail ==
    ASSUME NEW h \in Seq(Rows), NEW o \in 0 .. Len(h), \A i \in 1 .. Len(h) : i \in KeptOf(h) <=> i > o
    PROVE  repairToolTranscript(h) = SubSeq(h, o + 1, Len(h))
<1>. DEFINE Is(f) == f = [i \in 0 .. Len(h) |-> IF i = 0 THEN <<>>
                                               ELSE IF i \in KeptOf(h) THEN Append(f[i-1], h[i]) ELSE f[i-1]]
            z == CHOOSE f : Is(f)
            g == [i \in 0 .. Len(h) |-> SubSeq(h, o + 1, i)]
<1>0. Len(h) \in Nat /\ o \in Nat
  OBVIOUS
<1>1. g[0] = <<>> /\ \A i \in 1 .. Len(h) : g[i] = IF i \in KeptOf(h) THEN Append(g[i-1], h[i]) ELSE g[i-1]
  <2>1. \A i \in 0 .. Len(h) : i <= o => g[i] = <<>>
    BY <1>0, SubSeqEmpty
  <2>0. \A k \in 0 .. Len(h) : g[k] = SubSeq(h, o + 1, k)
    OBVIOUS
  <2>2. ASSUME NEW i \in 1 .. Len(h), i > o PROVE g[i] = Append(g[i-1], h[i])
    <3>1. o + 1 \in 1 .. Len(h) /\ i \in o + 1 .. Len(h) /\ i \in 0 .. Len(h) /\ i - 1 \in 0 .. Len(h)
      BY <1>0, <2>2
    <3>2. SubSeq(h, o + 1, i) = SubSeq(h, o + 1, i - 1) \o <<h[i]>>
      BY <3>1, SubSeqRecursiveSecond
    <3>3. SubSeq(h, o + 1, i - 1) \in Seq(Rows) /\ h[i] \in Rows
      <4>1. \A j \in o + 1 .. i - 1 : h[j] \in Rows
        BY <1>0
      <4>. QED
        BY <1>0, <4>1, SubSeqProperties
    <3>. DEFINE w == SubSeq(h, o + 1, i - 1)
    <3>4. w \o <<h[i]>> = Append(w, h[i])
      <4>. HIDE DEF w
      <4>. QED
        BY <3>3 DEF w
    <3>. HIDE DEF g
    <3>5. g[i] = SubSeq(h, o + 1, i) /\ g[i-1] = w
      BY <2>0, <3>1
    <3>. QED
      BY <3>2, <3>4, <3>5
  <2>3. ASSUME NEW i \in 1 .. Len(h), ~(i > o) PROVE g[i] = g[i-1]
    <3>1. i \in 0 .. Len(h) /\ i - 1 \in 0 .. Len(h) /\ i <= o /\ i - 1 <= o
      BY <1>0, <2>3
    <3>. QED
      BY <2>1, <3>1
  <2>4. 0 \in 0 .. Len(h) /\ 0 <= o
    BY <1>0
  <2>. HIDE DEF g
  <2>. QED
    BY <2>1, <2>2, <2>3, <2>4
<1>2. Is(g)
  <2>1. g = [i \in 0 .. Len(h) |-> g[i]]
    OBVIOUS
  <2>2. \A i \in 0 .. Len(h) : i = 0 \/ i \in 1 .. Len(h)
    BY <1>0
  <2>. HIDE DEF g
  <2>. QED
    BY <1>1, <2>1, <2>2
<1>3. Is(z)
  BY <1>2
<1>4. repairToolTranscript(h) = z[Len(h)]
  BY DEF repairToolTranscript, KeptOf
<1>. HIDE DEF z
<1>5. z[0] = <<>> /\ \A i \in 1 .. Len(h) : z[i] = IF i \in KeptOf(h) THEN Append(z[i-1], h[i]) ELSE z[i-1]
  <2>1. \A i \in 0 .. Len(h) : z[i] = IF i = 0 THEN <<>>
                                    ELSE IF i \in KeptOf(h) THEN Append(z[i-1], h[i]) ELSE z[i-1]
    BY <1>3, Zenon
  <2>2. \A i \in 1 .. Len(h) : i \in 0 .. Len(h) /\ i # 0
    OBVIOUS
  <2>3. 0 \in 0 .. Len(h)
    BY <1>0
  <2>. QED
    BY <2>1, <2>2, <2>3, Zenon
<1>. HIDE DEF g
<1>6. \A i \in 0 .. Len(h) : z[i] = g[i]
  <2>. DEFINE B == {i \in 0 .. Len(h) : z[i] # g[i]}
  <2>. SUFFICES ASSUME B # {} PROVE FALSE
    OBVIOUS
  <2>1. B \in SUBSET Nat
    BY <1>0
  <2>2. PICK m \in B : \A k \in B : m <= k
    <3>. HIDE DEF B
    <3>. QED
      BY <2>1, LeastNatural
  <2>3. m \in 1 .. Len(h) /\ m - 1 \in 0 .. Len(h) /\ m - 1 \notin B
    BY <1>0, <1>1, <1>5, <2>2
  <2>. QED
    BY <1>1, <1>5, <2>2, <2>3
<1>7. g[Len(h)] = SubSeq(h, o + 1, Len(h))
  BY <1>0 DEF g
<1>. QED
  BY <1>0, <1>4, <1>6, <1>7

\* h are the last rows of m, o of them results whose call was cut off.
LEMMA CutKeeps ==
    ASSUME NEW m \in Seq(Rows), Answered(m), Called(m), NEW h \in Seq(Rows), NEW d \in Nat, Len(m) = d + Len(h),
           \A i \in 1 .. Len(h) : h[i] = m[d + i],
           NEW o \in 0 .. Len(h), \A k \in 1 .. o : h[k].role = "tool", o < Len(h) => h[o + 1].role # "tool",
           NEW i \in 1 .. Len(h)
    PROVE  i \in KeptOf(h) <=> i > o
<1>0. Len(h) \in Nat /\ o \in Nat /\ DOMAIN h = 1 .. Len(h) /\ DOMAIN m = 1 .. Len(m)
  OBVIOUS
<1>1. /\ \A j \in 1 .. Len(m) : m[j].role \in {"user", "assistant", "tool"}
                               /\ Len(m[j].ids) \in Nat /\ DOMAIN m[j].ids = 1 .. Len(m[j].ids)
      /\ \A j \in 1 .. Len(h) : d + j \in 1 .. Len(m)
  <2>1. \A x \in Rows : x.role \in {"user", "assistant", "tool"} /\ Len(x.ids) \in Nat /\ DOMAIN x.ids = 1 .. Len(x.ids)
    BY DEF Rows
  <2>. QED
    BY <1>0, <2>1
<1>2. ASSUME NEW j \in 1 .. Len(h), h[j].role = "assistant" PROVE hasCompleteToolResults(h, j)
  <2>. DEFINE l == Len(h[j].ids)
  <2>1. m[d + j] = h[j] /\ d + j \in 1 .. Len(m) /\ l \in Nat /\ DOMAIN h[j].ids = 1 .. l
    BY <1>1
  <2>2. (d + j) + l <= Len(m) /\ \A k \in 1 .. l : m[(d + j) + k].role = "tool" /\ m[(d + j) + k].ids = <<h[j].ids[k]>>
    <3>1. hasCompleteToolResults(m, d + j)
      BY <1>0, <1>2, <2>1 DEF Answered
    <3>2. m[d + j].ids = h[j].ids
      BY <2>1
    <3>. QED
      BY <2>1, <3>1, <3>2, Zenon DEF hasCompleteToolResults
  <2>. HIDE DEF l
  <2>3. j + l <= Len(h) /\ \A k \in 1 .. l : j + k \in 1 .. Len(h) /\ (d + j) + k = d + (j + k)
    BY <1>0, <2>1, <2>2
  <2>4. \A k \in 1 .. l : h[j + k] = m[(d + j) + k]
    BY <2>3
  <2>5. \A k \in 1 .. l : h[j + k].role = "tool" /\ h[j + k].ids = <<h[j].ids[k]>>
    BY <2>2, <2>4
  <2>. QED
    BY <2>1, <2>3, <2>5, Zenon DEF hasCompleteToolResults, l
<1>3. ASSUME i <= o PROVE i \notin KeptOf(h)
  <2>1. i \in 1 .. o /\ h[i].role = "tool"
    BY <1>0, <1>3
  <2>2. ASSUME NEW j \in 1 .. Len(h), h[j].role = "assistant", i \in j .. j + Len(h[j].ids) PROVE FALSE
    <3>1. j \in 1 .. o
      BY <1>0, <1>3, <2>2
    <3>. QED
      BY <2>2, <3>1
  <2>. QED
    BY <1>0, <2>1, <2>2 DEF KeptOf
<1>4. ASSUME i > o PROVE i \in KeptOf(h)
  <2>1. CASE h[i].role # "tool"
    <3>1. CASE h[i].role = "assistant" /\ h[i].ids # <<>>
      <4>1. hasCompleteToolResults(h, i) /\ i \in i .. i + Len(h[i].ids)
        BY <1>1, <1>2, <3>1
      <4>. QED
        BY <1>0, <3>1, <4>1 DEF KeptOf
    <3>2. CASE ~(h[i].role = "assistant" /\ h[i].ids # <<>>)
      BY <1>0, <2>1, <3>2 DEF KeptOf
    <3>. QED
      BY <3>1, <3>2
  <2>2. CASE h[i].role = "tool"
    <3>1. PICK j \in 1 .. Len(m) : j < d + i /\ (d + i) - j \in 1 .. Len(m[j].ids) /\ m[j].role = "assistant"
      BY <1>0, <1>1, <2>2 DEF Called
    <3>2. CASE j > d
      <4>1. j - d \in 1 .. Len(h) /\ d + (j - d) = j
        BY <1>0, <3>1, <3>2
      <4>. DEFINE c == j - d
      <4>2. c \in 1 .. Len(h) /\ h[c] = m[j]
        BY <4>1
      <4>3. Len(m[j].ids) \in Nat /\ Len(m[j].ids) # 0 /\ i \in c .. c + Len(m[j].ids)
        BY <1>0, <1>1, <3>1, <3>2
      <4>. HIDE DEF c
      <4>4. hasCompleteToolResults(h, c) /\ h[c].ids # <<>> /\ i \in c .. c + Len(h[c].ids)
        BY <1>2, <3>1, <4>2, <4>3
      <4>. QED
        BY <1>0, <3>1, <4>2, <4>4 DEF KeptOf
    <3>3. CASE j <= d
      <4>1. o + 1 \in 1 .. Len(h) /\ h[o + 1].role # "tool"
        BY <1>0, <1>4
      <4>. DEFINE k == d + (o + 1) - j
      <4>2. k \in 1 .. Len(m[j].ids) /\ j + k = d + (o + 1)
        BY <1>0, <1>1, <1>4, <3>1, <3>3
      <4>3. m[j + k].role = "tool"
        <5>. HIDE DEF k
        <5>. QED
          BY <1>0, <1>1, <3>1, <4>2 DEF Answered, hasCompleteToolResults
      <4>. QED
        BY <4>1, <4>2, <4>3
    <3>. QED
      BY <1>0, <3>1, <3>2, <3>3
  <2>. QED
    BY <2>1, <2>2
<1>. QED
  BY <1>0, <1>3, <1>4

LEMMA LastRowsAre ==
    ASSUME NEW m \in Seq(Rows), NEW n \in Nat \ {0}
    PROVE  /\ LastRows(m, n) \in Seq(Rows)
           /\ \E d \in Nat : /\ Len(m) = d + Len(LastRows(m, n))
                             /\ \A i \in 1 .. Len(LastRows(m, n)) : LastRows(m, n)[i] = m[d + i]
<1>1. CASE Len(m) > n
  <2>. DEFINE d == Len(m) - n
              a == Len(m) - n + 1
  <2>1. a \in 1 .. Len(m) /\ d \in Nat /\ Len(m) \in Nat /\ n = Len(m) - a + 1
    BY <1>1
  <2>2. \A i \in a .. Len(m) : m[i] \in Rows
    BY <2>1
  <2>3. LastRows(m, n) = SubSeq(m, a, Len(m))
    BY <1>1 DEF LastRows
  <2>a. d + n = Len(m)
    BY <2>1
  <2>. HIDE DEF a
  <2>4. /\ SubSeq(m, a, Len(m)) \in Seq(Rows) /\ Len(SubSeq(m, a, Len(m))) = Len(m) - a + 1
        /\ \A i \in 1 .. Len(m) - a + 1 : SubSeq(m, a, Len(m))[i] = m[a + i - 1]
    BY <2>1, <2>2, SubSeqProperties
  <2>5. \A i \in Nat : a + i - 1 = d + i
    BY <2>1 DEF a
  <2>. HIDE DEF d
  <2>6. Len(LastRows(m, n)) = n /\ \A i \in 1 .. n : LastRows(m, n)[i] = m[d + i]
    <3>. DEFINE w == SubSeq(m, a, Len(m))
    <3>1. Len(w) = n
      BY <2>1, <2>4
    <3>2. \A i \in 1 .. n : i \in 1 .. Len(m) - a + 1 /\ i \in Nat
      BY <2>1
    <3>3. \A i \in 1 .. n : w[i] = m[a + i - 1]
      BY <2>4, <3>2
    <3>4. \A i \in 1 .. n : w[i] = m[d + i]
      BY <2>5, <3>2, <3>3, Zenon
    <3>. HIDE DEF w
    <3>. QED
      BY <2>3, <3>1, <3>4 DEF w
  <2>. QED
    BY <2>1, <2>3, <2>4, <2>6, <2>a
<1>2. CASE ~(Len(m) > n)
  <2>1. LastRows(m, n) = m /\ 0 \in Nat /\ Len(m) = 0 + Len(m) /\ \A i \in 1 .. Len(m) : m[i] = m[0 + i]
    BY <1>2 DEF LastRows
  <2>. QED
    BY <2>1
<1>. QED
  BY <1>1, <1>2

LEMMA OpeningIs ==
    ASSUME NEW h \in Seq(Rows)
    PROVE  /\ Opening(h) \in 0 .. Len(h) /\ \A k \in 1 .. Opening(h) : h[k].role = "tool"
           /\ Opening(h) < Len(h) => h[Opening(h) + 1].role # "tool"
<1>. DEFINE S == {n \in 0 .. Len(h) : n < Len(h) => h[n + 1].role # "tool"}
<1>0. Len(h) \in Nat
  OBVIOUS
<1>1. S \in SUBSET Nat /\ Len(h) \in S
  BY <1>0
<1>2. PICK n \in S : \A k \in S : n <= k
  <2>. HIDE DEF S
  <2>. QED
    BY <1>1, LeastNatural
<1>3. ASSUME NEW k \in 1 .. n PROVE h[k].role = "tool"
  <2>1. k - 1 \in 0 .. Len(h) /\ k - 1 < Len(h) /\ (k - 1) + 1 = k /\ ~(n <= k - 1)
    BY <1>0, <1>2
  <2>2. k - 1 \notin S
    BY <1>2, <2>1
  <2>. QED
    BY <2>1, <2>2
<1>4. \E x \in 0 .. Len(h) : (\A k \in 1 .. x : h[k].role = "tool") /\ (x < Len(h) => h[x + 1].role # "tool")
  BY <1>2, <1>3
<1>. QED
  BY <1>4 DEF Opening

-----------------------------------------------------------------------------
(* The invariant, and what it gives. *)

LEMMA InitInv == Init => IInv
<1>. SUFFICES ASSUME Init PROVE IInv
  OBVIOUS
<1>1. \A r \in Runs : run[r] = Idle /\ run[r].st = "idle"
  BY DEF Init, Idle
<1>2. AIRunsTypeOK
  <2>1. conv \in ConvRows /\ msgs \in Seq(Rows)
    BY DEF Init, ConvRows
  <2>2. lock \in [run : Runs \cup {0}, left : Nat]
    BY DEF Init, NoLock
  <2>3. run \in [Runs -> RunRows]
    BY IdleTyped DEF Init
  <2>. QED
    BY <2>1, <2>2, <2>3 DEF Init, AIRunsTypeOK
<1>3. WritersHoldLease
  BY <1>1 DEF WritersHoldLease, Writing
<1>4. ReadIsCurrent
  BY <1>1 DEF Init, ReadIsCurrent, Waiting
<1>5. PromptFollowsRead
  BY DEF Init, PromptFollowsRead
<1>6. TranscriptWhole
  BY DEF Init, TranscriptWhole, Answered, Called
<1>. QED
  BY <1>2, <1>3, <1>4, <1>5, <1>6 DEF IInv

LEMMA InvStep == IInv /\ [Next]_vars => IInv'
  BY TypeStep, WritersStep, ReadStep, PromptStep, WholeStep DEF IInv

\* Whatever the requests, runs, heartbeats, crashes and the administrator do, the
\* invariant holds.
THEOREM AIRunsInvariance == Spec => []IInv
<1>. QED
  BY InitInv, InvStep, PTL DEF Spec

\* Every row of the conversation's tables and every run stay in their ranges.
THEOREM AIRunsTypeCorrect == Spec => []AIRunsTypeOK
<1>1. IInv => AIRunsTypeOK
  BY DEF IInv
<1>. QED
  BY <1>1, AIRunsInvariance, PTL

\* The lease does what it is for, for every lease that outlasts a late heartbeat:
\* two runs write at once only after an administrator has deleted a lease.
THEOREM OnlyOneWriter == Spec => []OneWriter
<1>1. IInv => OneWriter
  <2>. SUFFICES ASSUME IInv, NEW r \in Runs, NEW q \in Runs,
                       run[r].st \in Writing, run[q].st \in Writing, r \notin taken, q \notin taken
                PROVE  r = q
    BY DEF OneWriter
  <2>. QED
    BY DEF IInv, WritersHoldLease
<1>. QED
  BY <1>1, AIRunsInvariance, PTL

\* The conditional append does what it is for: no prompt is stored behind rows
\* that its sender's request had not read.
THEOREM PromptsFollowRead == Spec => []PromptFollowsRead
<1>1. IInv => PromptFollowsRead
  BY DEF IInv
<1>. QED
  BY <1>1, AIRunsInvariance, PTL

\* Overlapping runs cannot tear an exchange apart: the stored transcript holds
\* each answer's results right behind it and no result without its call.
THEOREM TranscriptStaysWhole == Spec => []TranscriptWhole
<1>1. IInv => TranscriptWhole
  BY DEF IInv
<1>. QED
  BY <1>1, AIRunsInvariance, PTL

\* Whatever a transcript is cut to, the model is asked with all of its rows from
\* the first on that is not a result whose call the cut took off, and with nothing
\* else (trimHistory, repairToolTranscript).
THEOREM RequestsStayWhole == Spec => []RequestsWhole
<1>1. IInv => RequestsWhole
  <2>. SUFFICES ASSUME IInv, NEW n \in 1 .. HistoryMax
                PROVE  Request(n) = SubSeq(LastRows(msgs, n), Opening(LastRows(msgs, n)) + 1, Len(LastRows(msgs, n)))
    BY DEF RequestsWhole
  <2>1. n \in Nat \ {0} /\ msgs \in Seq(Rows) /\ Answered(msgs) /\ Called(msgs)
    BY AIAssumption DEF IInv, AIRunsTypeOK, TranscriptWhole
  <2>. DEFINE h == LastRows(msgs, n)
              o == Opening(h)
  <2>2. h \in Seq(Rows)
    BY <2>1, LastRowsAre
  <2>3. PICK d \in Nat : Len(msgs) = d + Len(h) /\ \A i \in 1 .. Len(h) : h[i] = msgs[d + i]
    BY <2>1, LastRowsAre
  <2>4. Request(n) = repairToolTranscript(h)
    BY DEF Request, trimHistory, History, ListMessages
  <2>. HIDE DEF h
  <2>5. o \in 0 .. Len(h) /\ (\A k \in 1 .. o : h[k].role = "tool") /\ (o < Len(h) => h[o + 1].role # "tool")
    BY <2>2, OpeningIs
  <2>. HIDE DEF o
  <2>6. \A i \in 1 .. Len(h) : i \in KeptOf(h) <=> i > o
    BY <2>1, <2>2, <2>3, <2>5, CutKeeps
  <2>7. repairToolTranscript(h) = SubSeq(h, o + 1, Len(h))
    BY <2>2, <2>5, <2>6, RepairKeepsTail
  <2>. QED
    BY <2>4, <2>7 DEF h, o
<1>. QED
  BY <1>1, AIRunsInvariance, PTL
=============================================================================
