---------------------------- MODULE WorkflowProofs ----------------------------
(***************************************************************************)
(* Theorems about the runs of a workflow (WorkflowRuns) and about its      *)
(* definition and history (WorkflowStore), for any number of runs, minutes *)
(* and node visits, and of clients, definitions, versions and tokens.      *)
(***************************************************************************)
EXTENDS WorkflowRuns, WorkflowStore, SequenceTheorems, TLAPS

-----------------------------------------------------------------------------
(* Runs.  What a cancellation leaves to a walk: one node, of which the walk *)
(* was past the check.                                                      *)

WalkOK(x) ==
    /\ x.late \in {0, 1}
    /\ x.late = 1 => x.status \in {"cancelled", "gone"}
    /\ x.status = "cancelled" /\ x.at = "node" => x.late = 0
    /\ x.status = "none" => x.at = "off"
    /\ x.at = "end" => x.outcome \in Terminal

WalksOK == \A r \in RunIds : WalkOK(run[r])

\* Whatever has been stamped is in the past of the tick under way, which has a
\* minute of its own once it has read the stamp.
Schedule ==
    /\ 1 <= minute /\ fired <= minute
    /\ tick.pc # "idle" => 1 <= tick.minute /\ fired <= tick.minute /\ tick.minute <= minute
    /\ tick.pc = "mark" /\ there => fired < tick.minute
    /\ there => /\ \A m \in launches : m <= fired
                /\ \A r \in RunIds : run[r].minute <= fired

RunsInv == RunsTypeOK /\ WalksOK /\ Schedule /\ OncePerMinute /\ RunningIsWalked

\* What a step makes of the row x of a run and its goroutine.
Moves(x, y) ==
    /\ y \in Run /\ WalkOK(y) /\ y.minute = x.minute
    /\ x.status \in Terminal => y.status \in {x.status, "gone"}
    /\ x.at = "off" => y.at = "off"
    /\ y.status = "running" /\ y.at = "off" /\ y.minute = 0 => x.status = "running" /\ x.at = "off"

LEMMA RowSteps ==
    ASSUME NEW x \in Run, WalkOK(x)
    PROVE  /\ Moves(x, x)
           /\ x.status # "none" => Moves(x, [x EXCEPT !.status = "gone"])
           /\ x.at = "check" => \A o \in Terminal : Moves(x, [x EXCEPT !.at = "end", !.outcome = o])
           /\ x.at = "node" => \A o \in Terminal : Moves(x, [x EXCEPT !.at = "end", !.outcome = o])
           /\ x.at = "check" /\ x.status # "cancelled" => Moves(x, [x EXCEPT !.at = "node"])
           /\ x.status = "running" => Moves(x, [x EXCEPT !.status = "cancelled"])
           /\ x.status = "running" => Moves(x, [x EXCEPT !.status = "failed"])
           /\ x.at = "node" /\ x.minute # 0 => Moves(x, [x EXCEPT !.at = "off"])
<1>. USE RunsAssumption
<1>0. /\ x.at \in {"off", "check", "node", "end"} /\ x.status \in Statuses /\ x.outcome \in Terminal \cup {"none"}
      /\ x.minute \in 0 .. MaxMinute /\ x.visited \in 0 .. MaxNodes /\ x.late \in 0 .. MaxNodes + 1
      /\ x.status = "none" => x.at = "off"
  BY DEF Run, WalkOK
<1>1. Moves(x, x)
  BY <1>0 DEF Moves
<1>2. ASSUME x.status # "none" PROVE Moves(x, [x EXCEPT !.status = "gone"])
  <2>. DEFINE y == [x EXCEPT !.status = "gone"]
  <2>1. y \in Run /\ y.status = "gone" /\ y.at = x.at /\ y.minute = x.minute /\ y.late = x.late /\ y.outcome = x.outcome
    BY DEF Run, Statuses, Terminal
  <2>. HIDE DEF y
  <2>2. Moves(x, y)
    BY <1>0, <2>1 DEF Moves, WalkOK, Terminal
  <2>. QED
    BY <2>2 DEF y
<1>3. ASSUME NEW o \in Terminal, x.at \in {"check", "node"} PROVE Moves(x, [x EXCEPT !.at = "end", !.outcome = o])
  <2>. DEFINE y == [x EXCEPT !.at = "end", !.outcome = o]
  <2>1. y \in Run /\ y.status = x.status /\ y.at = "end" /\ y.outcome = o /\ y.minute = x.minute /\ y.late = x.late
    BY DEF Run
  <2>. HIDE DEF y
  <2>2. Moves(x, y)
    BY <1>0, <1>3, <2>1 DEF Moves, WalkOK
  <2>. QED
    BY <2>2 DEF y
<1>4. ASSUME x.at = "check", x.status # "cancelled" PROVE Moves(x, [x EXCEPT !.at = "node"])
  <2>. DEFINE y == [x EXCEPT !.at = "node"]
  <2>1. y \in Run /\ y.status = x.status /\ y.at = "node" /\ y.minute = x.minute /\ y.late = x.late
    BY DEF Run
  <2>. HIDE DEF y
  <2>2. Moves(x, y)
    BY <1>0, <1>4, <2>1 DEF Moves, WalkOK
  <2>. QED
    BY <2>2 DEF y
<1>5. ASSUME NEW s \in {"cancelled", "failed"}, x.status = "running" PROVE Moves(x, [x EXCEPT !.status = s])
  <2>. DEFINE y == [x EXCEPT !.status = s]
  <2>1. y \in Run /\ y.status = s /\ y.at = x.at /\ y.minute = x.minute /\ y.late = x.late /\ y.outcome = x.outcome
    BY DEF Run, Statuses, Terminal
  <2>. HIDE DEF y
  <2>2. Moves(x, y)
    BY <1>0, <1>5, <2>1 DEF Moves, WalkOK, Terminal
  <2>. QED
    BY <2>2 DEF y
<1>6. ASSUME x.at = "node", x.minute # 0 PROVE Moves(x, [x EXCEPT !.at = "off"])
  <2>. DEFINE y == [x EXCEPT !.at = "off"]
  <2>1. y \in Run /\ y.status = x.status /\ y.at = "off" /\ y.minute = x.minute /\ y.late = x.late
    BY DEF Run
  <2>. HIDE DEF y
  <2>2. Moves(x, y)
    BY <1>0, <1>6, <2>1 DEF Moves, WalkOK
  <2>. QED
    BY <2>2 DEF y
<1>. QED
  BY <1>1, <1>2, <1>3, <1>4, <1>5, <1>6

\* The steps of the engine that count or record, and the death of the process.
LEMMA EngineRowSteps ==
    ASSUME NEW r \in RunIds, run[r] \in Run, WalkOK(run[r])
    PROVE  /\ run[r].at = "node" /\ run[r].visited < MaxNodes =>
                 Moves(run[r], [run[r] EXCEPT !.at = "check", !.visited = @ + 1, !.late = LateBy(r)])
           /\ run[r].at = "node" => \A o \in Terminal :
                 Moves(run[r], [run[r] EXCEPT !.at = "end", !.outcome = o, !.late = LateBy(r)])
           /\ run[r].at \in {"node", "end"} => \A o \in Terminal : Moves(run[r], FinishRun(r, o))
           /\ LET y == [run[r] EXCEPT !.at = "off", !.outcome = "none"]
              IN  y \in Run /\ WalkOK(y) /\ y.minute = run[r].minute /\ y.status = run[r].status /\ y.at = "off"
<1>. DEFINE x == run[r]
            late == LateBy(r)
<1>. USE RunsAssumption
<1>0. /\ x \in Run /\ x.at \in {"off", "check", "node", "end"} /\ x.status \in Statuses
      /\ x.minute \in 0 .. MaxMinute /\ x.visited \in 0 .. MaxNodes /\ x.late \in 0 .. MaxNodes + 1
      /\ WalkOK(x)
  BY DEF Run
<1>1. x.at = "node" => late \in 0 .. MaxNodes + 1 /\ late \in {0, 1} /\ (late = 1 => x.status \in {"cancelled", "gone"})
                       /\ x.status # "none"
  BY <1>0 DEF LateBy, WalkOK
<1>2. late = IF x.status = "cancelled" THEN x.late + 1 ELSE x.late
  BY DEF LateBy
<1>. HIDE DEF x, late
<1>3. ASSUME x.at = "node", x.visited < MaxNodes
      PROVE  Moves(x, [x EXCEPT !.at = "check", !.visited = @ + 1, !.late = late])
  <2>. DEFINE y == [x EXCEPT !.at = "check", !.visited = x.visited + 1, !.late = late]
  <2>1. x.visited + 1 \in 0 .. MaxNodes
    BY <1>0, <1>3
  <2>2. y \in Run /\ y.status = x.status /\ y.at = "check" /\ y.minute = x.minute /\ y.late = late
    BY <1>0, <1>1, <1>3, <2>1 DEF Run
  <2>. HIDE DEF y
  <2>3. Moves(x, y)
    BY <1>0, <1>1, <1>3, <2>2 DEF Moves, WalkOK
  <2>. QED
    BY <2>3 DEF y
<1>4. ASSUME NEW o \in Terminal, x.at = "node"
      PROVE  Moves(x, [x EXCEPT !.at = "end", !.outcome = o, !.late = late])
  <2>. DEFINE y == [x EXCEPT !.at = "end", !.outcome = o, !.late = late]
  <2>1. y \in Run /\ y.status = x.status /\ y.at = "end" /\ y.outcome = o /\ y.minute = x.minute /\ y.late = late
    BY <1>0, <1>1, <1>4 DEF Run
  <2>. HIDE DEF y
  <2>2. Moves(x, y)
    BY <1>0, <1>1, <1>4, <2>1 DEF Moves, WalkOK
  <2>. QED
    BY <2>2 DEF y
<1>5. ASSUME NEW o \in Terminal, x.at \in {"node", "end"} PROVE Moves(x, FinishRun(r, o))
  <2>. DEFINE status == IF x.status = "running" THEN o ELSE x.status
              y == [x EXCEPT !.at = "off", !.outcome = "none", !.status = status]
  <2>1. status \in Statuses /\ (x.status = "running" => status \in Terminal) /\ (x.status # "running" => status = x.status)
    BY <1>0 DEF Statuses
  <2>. HIDE DEF status
  <2>2. y \in Run /\ y.status = status /\ y.at = "off" /\ y.minute = x.minute /\ y.late = x.late
    BY <1>0, <2>1 DEF Run
  <2>3. FinishRun(r, o) = y
    BY DEF FinishRun, x, y, status
  <2>. HIDE DEF y
  <2>4. x.status = "running" => x.late = 0
    BY <1>0 DEF WalkOK
  <2>5. status # "running" /\ status # "none"
    BY <1>0, <1>5, <2>1 DEF WalkOK, Terminal
  <2>. QED
    BY <1>0, <1>5, <2>1, <2>2, <2>3, <2>4, <2>5 DEF Moves, WalkOK, Terminal
<1>6. LET y == [x EXCEPT !.at = "off", !.outcome = "none"]
      IN  y \in Run /\ WalkOK(y) /\ y.minute = x.minute /\ y.status = x.status /\ y.at = "off"
  <2>. DEFINE y == [x EXCEPT !.at = "off", !.outcome = "none"]
  <2>1. y \in Run /\ y.status = x.status /\ y.at = "off" /\ y.minute = x.minute /\ y.late = x.late
    BY <1>0 DEF Run
  <2>. HIDE DEF y
  <2>3. WalkOK(y)
    BY <1>0, <2>1 DEF WalkOK
  <2>. QED
    BY <2>1, <2>3 DEF y
<1>. QED
  BY <1>3, <1>4, <1>5, <1>6 DEF x, late

LEMMA NewRows ==
    /\ NoRun \in Run /\ WalkOK(NoRun) /\ NoRun.minute = 0 /\ NoRun.at = "off" /\ NoRun.status = "none"
    /\ \A m \in 0 .. MaxMinute : LET y == Started(m) IN
          y \in Run /\ WalkOK(y) /\ y.minute = m /\ y.at = "check" /\ y.status = "running"
<1>. USE RunsAssumption
<1>1. NoRun \in Run /\ NoRun.minute = 0 /\ NoRun.at = "off" /\ NoRun.status = "none" /\ NoRun.late = 0
  BY DEF NoRun, Run, Statuses
<1>2. ASSUME NEW m \in 0 .. MaxMinute
      PROVE  LET y == Started(m) IN
               y \in Run /\ y.minute = m /\ y.at = "check" /\ y.status = "running" /\ y.late = 0
  <2>1. \A x \in Run : LET y == [x EXCEPT !.status = "running", !.at = "check", !.minute = m] IN
           y \in Run /\ y.minute = m /\ y.at = "check" /\ y.status = "running" /\ y.late = x.late
    BY DEF Run, Statuses
  <2>. QED
    BY <1>1, <2>1 DEF Started
<1>. QED
  BY <1>1, <1>2 DEF WalkOK

\* A step of one run moves that run and nothing else.
LEMMA OneRunMoves ==
    ASSUME RunsTypeOK, WalksOK, NEW r \in RunIds, CancelRun(r) \/ Engine(r)
    PROVE  /\ run' \in [RunIds -> Run] /\ \A q \in RunIds : Moves(run[q], run'[q])
           /\ UNCHANGED <<there, active, fired, minute, up, seen, tick, launches>>
<1>0. run \in [RunIds -> Run] /\ run[r] \in Run /\ WalkOK(run[r])
  BY DEF RunsTypeOK, WalksOK
<1>1. ASSUME NEW new, Update(r, new), Moves(run[r], new)
      PROVE  /\ run' \in [RunIds -> Run] /\ \A q \in RunIds : Moves(run[q], run'[q])
             /\ UNCHANGED <<there, active, fired, minute, up, seen, tick>>
  <2>1. \A q \in RunIds : Moves(run[q], run[q])
    BY RowSteps DEF RunsTypeOK, WalksOK
  <2>2. new \in Run /\ run' = [run EXCEPT ![r] = new] /\ UNCHANGED <<there, active, fired, minute, up, seen, tick>>
    BY <1>1 DEF Moves, Update
  <2>3. run' \in [RunIds -> Run] /\ run'[r] = new /\ \A q \in RunIds \ {r} : run'[q] = run[q]
    BY <1>0, <2>2
  <2>. QED
    BY <1>1, <2>1, <2>2, <2>3
<1>2. "success" \in Terminal /\ Interruptions(r) \subseteq Terminal /\ runNode(r) \subseteq Terminal
  BY DEF Interruptions, runNode, Terminal
<1>3. UNCHANGED launches
  BY DEF CancelRun, Engine, WalkCheck, StartNode, LastNode, Finish, Panic
<1>4. CASE CancelRun(r)
  <2>1. run[r].status = "running" /\ Update(r, [run[r] EXCEPT !.status = "cancelled"])
    BY <1>4 DEF CancelRun
  <2>2. Moves(run[r], [run[r] EXCEPT !.status = "cancelled"])
    BY <1>0, <2>1, RowSteps
  <2>. QED
    BY <1>1, <1>3, <2>1, <2>2
<1>5. CASE WalkCheck(r)
  <2>1. ASSUME NEW o \in Terminal, End(r, o) PROVE Update(r, [run[r] EXCEPT !.at = "end", !.outcome = o])
    BY <2>1 DEF End
  <2>2. "cancelled" \in Terminal
    BY DEF Terminal
  <2>3. /\ run[r].at = "check"
        /\ \/ \E o \in Terminal : Update(r, [run[r] EXCEPT !.at = "end", !.outcome = o])
           \/ run[r].status # "cancelled" /\ Update(r, [run[r] EXCEPT !.at = "node"])
    BY <1>2, <1>5, <2>1, <2>2 DEF WalkCheck
  <2>4. /\ \A o \in Terminal : Moves(run[r], [run[r] EXCEPT !.at = "end", !.outcome = o])
        /\ run[r].status # "cancelled" => Moves(run[r], [run[r] EXCEPT !.at = "node"])
    BY <1>0, <2>3, RowSteps
  <2>. QED
    BY <1>1, <1>3, <2>3, <2>4
<1>6. CASE StartNode(r)
  <2>1. /\ run[r].at = "node" /\ run[r].visited < MaxNodes
        /\ \/ Update(r, [run[r] EXCEPT !.at = "end", !.outcome = "failed"])
           \/ Update(r, [run[r] EXCEPT !.at = "check", !.visited = @ + 1, !.late = LateBy(r)])
    BY <1>6 DEF StartNode, End
  <2>2. Moves(run[r], [run[r] EXCEPT !.at = "end", !.outcome = "failed"])
    BY <1>0, <2>1, RowSteps DEF Terminal
  <2>3. Moves(run[r], [run[r] EXCEPT !.at = "check", !.visited = @ + 1, !.late = LateBy(r)])
    BY <1>0, <2>1, EngineRowSteps
  <2>. QED
    BY <1>1, <1>3, <2>1, <2>2, <2>3
<1>7. CASE LastNode(r)
  <2>1. PICK o \in Terminal : Update(r, [run[r] EXCEPT !.at = "end", !.outcome = o, !.late = LateBy(r)])
    BY <1>2, <1>7 DEF LastNode
  <2>2. Moves(run[r], [run[r] EXCEPT !.at = "end", !.outcome = o, !.late = LateBy(r)])
    BY <1>0, <1>7, EngineRowSteps DEF LastNode
  <2>. QED
    BY <1>1, <1>3, <2>1, <2>2
<1>8. CASE Finish(r)
  <2>1. run[r].at = "end" /\ Update(r, FinishRun(r, run[r].outcome))
    BY <1>8 DEF Finish
  <2>2. run[r].outcome \in Terminal
    BY <1>0, <2>1 DEF Run, WalkOK
  <2>3. Moves(run[r], FinishRun(r, run[r].outcome))
    BY <1>0, <2>1, <2>2, EngineRowSteps
  <2>. QED
    BY <1>1, <1>3, <2>1, <2>3
<1>9. CASE Panic(r)
  <2>1. /\ run[r].at = "node"
        /\ \/ Update(r, FinishRun(r, "failed"))
           \/ run[r].minute # 0 /\ Update(r, [run[r] EXCEPT !.at = "off"])
    BY <1>9 DEF Panic
  <2>2. Moves(run[r], FinishRun(r, "failed"))
    BY <1>0, <2>1, EngineRowSteps DEF Terminal
  <2>3. run[r].minute # 0 => Moves(run[r], [run[r] EXCEPT !.at = "off"])
    BY <1>0, <2>1, RowSteps
  <2>. QED
    BY <1>1, <1>3, <2>1, <2>2, <2>3
<1>. QED
  BY <1>4, <1>5, <1>6, <1>7, <1>8, <1>9 DEF Engine

\* What a step of any kind makes of the runs.
SomeRuns ==
    /\ run' \in [RunIds -> Run] /\ WalksOK' /\ VerdictStands
    /\ \A q \in RunIds : run'[q].minute # run[q].minute =>
          run[q] = NoRun /\ there /\ run'[q].minute \in launches

LEMMA MovesAreSome ==
    ASSUME RunsTypeOK, run' \in [RunIds -> Run], \A q \in RunIds : Moves(run[q], run'[q])
    PROVE  SomeRuns /\ \A q \in RunIds : run'[q].minute = run[q].minute
  BY DEF SomeRuns, WalksOK, VerdictStands, Moves

LEMMA RunsStep ==
    ASSUME RunsTypeOK, WalksOK, RunningIsWalked, [RunsNext]_vars
    PROVE  SomeRuns /\ RunningIsWalked' /\ (~up' => \A q \in RunIds : run'[q].at = "off")
<1>0. /\ run \in [RunIds -> Run] /\ \A q \in RunIds : run[q] \in Run /\ WalkOK(run[q])
      /\ launches \subseteq 1 .. MaxMinute /\ (~up => launches = {} /\ \A q \in RunIds : run[q].at = "off")
      /\ up \in BOOLEAN
  BY DEF RunsTypeOK, WalksOK
<1>1. ASSUME run' \in [RunIds -> Run], \A q \in RunIds : Moves(run[q], run'[q]), up' = up
      PROVE  SomeRuns /\ RunningIsWalked' /\ (~up' => \A q \in RunIds : run'[q].at = "off")
  <2>1. RunningIsWalked'
    BY <1>1 DEF RunningIsWalked, Moves
  <2>. QED
    BY <1>0, <1>1, <2>1, MovesAreSome DEF Moves
<1>2. CASE UNCHANGED <<run, up>>
  <2>1. \A q \in RunIds : Moves(run[q], run[q])
    BY <1>0, RowSteps
  <2>. QED
    BY <1>0, <1>1, <1>2, <2>1
<1>3. CASE DeleteWorkflow
  <2>1. \A q \in RunIds : run'[q] = IF run[q].status = "none" THEN run[q] ELSE [run[q] EXCEPT !.status = "gone"]
    BY <1>3 DEF DeleteWorkflow
  <2>2. \A q \in RunIds : Moves(run[q], run'[q])
    <3>1. ASSUME NEW q \in RunIds PROVE Moves(run[q], run'[q])
      <4>1. Moves(run[q], run[q]) /\ (run[q].status # "none" => Moves(run[q], [run[q] EXCEPT !.status = "gone"]))
        BY <1>0, RowSteps
      <4>. QED
        BY <2>1, <4>1
    <3>. QED
      BY <3>1
  <2>3. run' = [q \in RunIds |-> run'[q]] /\ \A q \in RunIds : run'[q] \in Run
    BY <1>3, <2>2 DEF DeleteWorkflow, Moves
  <2>4. run' \in [RunIds -> Run]
    BY <2>3
  <2>. QED
    BY <1>1, <1>3, <2>2, <2>4 DEF DeleteWorkflow
<1>4. ASSUME NEW r \in RunIds, NEW m \in 0 .. MaxMinute, Update(r, Started(m)),
             run[r] = NoRun, up, m = 0 \/ (there /\ m \in launches)
      PROVE  SomeRuns /\ RunningIsWalked' /\ (~up' => \A q \in RunIds : run'[q].at = "off")
  <2>. DEFINE y == Started(m)
  <2>1. y \in Run /\ WalkOK(y) /\ y.minute = m /\ y.at = "check" /\ y.status = "running"
    BY NewRows
  <2>2. run' = [run EXCEPT ![r] = y] /\ up' = up
    BY <1>4 DEF Update
  <2>. HIDE DEF y
  <2>3. run' \in [RunIds -> Run] /\ run'[r] = y /\ \A q \in RunIds \ {r} : run'[q] = run[q]
    BY <1>0, <2>1, <2>2
  <2>4. run[r].status = "none" /\ run[r].minute = 0
    BY <1>4, NewRows
  <2>5. WalksOK' /\ VerdictStands
    BY <1>0, <2>1, <2>3, <2>4 DEF WalksOK, VerdictStands, Terminal
  <2>6. RunningIsWalked'
    BY <2>1, <2>2, <2>3 DEF RunningIsWalked
  <2>7. \A q \in RunIds : run'[q].minute # run[q].minute => run[q] = NoRun /\ there /\ run'[q].minute \in launches
    BY <1>4, <2>1, <2>3, <2>4
  <2>. QED
    BY <1>4, <2>2, <2>3, <2>5, <2>6, <2>7 DEF SomeRuns
<1>5. CASE Launch
  <2>1. up
    BY <1>0, <1>5 DEF Launch
  <2>2. PICK m \in launches : \/ there /\ \E r \in RunIds : run[r] = NoRun /\ Update(r, Started(m))
                             \/ UNCHANGED <<there, active, fired, minute, up, seen, tick, run>>
    BY <1>5 DEF Launch
  <2>3. m \in 0 .. MaxMinute
    BY <1>0, RunsAssumption
  <2>. QED
    BY <1>2, <1>4, <2>1, <2>2, <2>3
<1>6. ASSUME NEW r \in RunIds, runWorkflow(r) \/ webhook(r)
      PROVE  SomeRuns /\ RunningIsWalked' /\ (~up' => \A q \in RunIds : run'[q].at = "off")
  <2>1. up /\ run[r] = NoRun /\ Update(r, Started(0)) /\ 0 \in 0 .. MaxMinute
    BY <1>6, RunsAssumption DEF runWorkflow, webhook, ExecuteAsync
  <2>. QED
    BY <1>4, <2>1
<1>7. ASSUME NEW r \in RunIds, CancelRun(r) \/ Engine(r)
      PROVE  SomeRuns /\ RunningIsWalked' /\ (~up' => \A q \in RunIds : run'[q].at = "off")
  BY <1>1, <1>7, OneRunMoves
<1>8. CASE Crash
  <2>1. ASSUME NEW q \in RunIds
        PROVE  /\ run'[q] \in Run /\ WalkOK(run'[q]) /\ run'[q].minute = run[q].minute
               /\ run'[q].status = run[q].status /\ run'[q].at = "off"
    <3>1. run'[q] = [run[q] EXCEPT !.at = "off", !.outcome = "none"]
      BY <1>8 DEF Crash
    <3>. QED
      BY <1>0, <3>1, EngineRowSteps
  <2>2. run' = [q \in RunIds |-> [run[q] EXCEPT !.at = "off", !.outcome = "none"]] /\ ~up'
    BY <1>8 DEF Crash
  <2>3. run' \in [RunIds -> Run]
    BY <2>1, <2>2
  <2>4. WalksOK' /\ VerdictStands /\ RunningIsWalked'
    BY <2>1, <2>2 DEF WalksOK, VerdictStands, RunningIsWalked
  <2>. QED
    BY <2>1, <2>3, <2>4 DEF SomeRuns
<1>9. CASE Restart
  <2>1. \A q \in RunIds : run'[q] = IF run[q].status = "running" THEN [run[q] EXCEPT !.status = "failed"] ELSE run[q]
    BY <1>9 DEF Restart
  <2>2. ASSUME NEW q \in RunIds PROVE Moves(run[q], run'[q]) /\ run'[q].status # "running"
    <3>1. /\ Moves(run[q], run[q])
          /\ run[q].status = "running" => Moves(run[q], [run[q] EXCEPT !.status = "failed"])
      BY <1>0, RowSteps
    <3>2. [run[q] EXCEPT !.status = "failed"].status = "failed"
      BY <1>0 DEF Run
    <3>. QED
      BY <2>1, <3>1, <3>2
  <2>3. run' = [q \in RunIds |-> run'[q]] /\ \A q \in RunIds : run'[q] \in Run
    BY <1>9, <2>2 DEF Restart, Moves
  <2>4. run' \in [RunIds -> Run]
    BY <2>3
  <2>5. SomeRuns
    BY <2>2, <2>4, MovesAreSome
  <2>. QED
    BY <1>9, <2>2, <2>5 DEF RunningIsWalked, Restart
<1>10. CASE Toggle \/ NextMinute \/ TickFire \/ TickList \/ TickRead \/ TickMark \/ TickError \/ UNCHANGED vars
  <2>1. UNCHANGED <<run, up>>
    BY <1>10 DEF Toggle, NextMinute, TickFire, TickList, TickRead, TickMark, TickError, vars
  <2>. QED
    BY <1>2, <2>1
<1>. QED
  BY <1>3, <1>5, <1>6, <1>7, <1>8, <1>9, <1>10 DEF RunsNext

-----------------------------------------------------------------------------
(* The schedule. *)

LEMMA ScheduleStep ==
    ASSUME RunsInv, [RunsNext]_vars
    PROVE  Schedule' /\ OncePerMinute'
<1>0. /\ fired \in 0 .. MaxMinute /\ minute \in 0 .. MaxMinute /\ launches \subseteq 1 .. MaxMinute
      /\ tick \in [pc : {"idle", "list", "read", "mark"}, minute : 0 .. MaxMinute]
      /\ \A r \in RunIds : run[r].minute \in 0 .. MaxMinute
      /\ MaxMinute \in Nat
  BY RunsAssumption DEF RunsInv, RunsTypeOK, Run
<1>1. SomeRuns
  BY RunsStep DEF RunsInv
<1>2. /\ 1 <= minute /\ fired <= minute
      /\ tick.pc # "idle" => 1 <= tick.minute /\ fired <= tick.minute /\ tick.minute <= minute
      /\ tick.pc = "mark" /\ there => fired < tick.minute
      /\ there => /\ \A m \in launches : m <= fired
                  /\ \A r \in RunIds : run[r].minute <= fired
  BY DEF RunsInv, Schedule
<1>3. /\ \A q, r \in RunIds : (run[q].minute # 0 /\ run[q].minute = run[r].minute) => q = r
      /\ there => \A r \in RunIds : run[r].minute \notin launches
  BY DEF RunsInv, OncePerMinute
\* Steps that leave the minutes of the runs, the stamp and the launches alone.
<1>4. ASSUME \A r \in RunIds : run'[r].minute = run[r].minute,
             UNCHANGED <<fired, launches>>, there' => there, minute \in Nat, minute' \in {minute, minute + 1},
             \/ tick' = tick \/ tick' = IdleTick
             \/ tick' = [pc |-> "list", minute |-> minute]
             \/ tick.pc # "idle" /\ tick' = [tick EXCEPT !.pc = "read"]
             \/ tick.pc = "read" /\ (there => fired # tick.minute) /\ tick' = [tick EXCEPT !.pc = "mark"]
      PROVE  Schedule' /\ OncePerMinute'
  <2>1. OncePerMinute'
    BY <1>3, <1>4 DEF OncePerMinute
  <2>2. /\ tick'.pc # "idle" => 1 <= tick'.minute /\ fired <= tick'.minute /\ tick'.minute <= minute'
        /\ tick'.pc = "mark" /\ there' => fired < tick'.minute
    BY <1>0, <1>2, <1>4 DEF IdleTick
  <2>. QED
    BY <1>0, <1>2, <1>4, <2>1, <2>2 DEF Schedule
<1>5. minute \in Nat
  BY <1>0
<1>6. CASE UNCHANGED vars
  BY <1>4, <1>5, <1>6 DEF vars
<1>7. CASE Toggle \/ NextMinute
  BY <1>4, <1>5, <1>7 DEF Toggle, NextMinute
<1>8. CASE TickFire \/ TickList \/ TickError
  <2>1. UNCHANGED <<there, fired, minute, launches, run>>
    BY <1>8 DEF TickFire, TickList, TickError
  <2>2. \/ tick' = IdleTick \/ tick' = [pc |-> "list", minute |-> minute]
        \/ tick.pc # "idle" /\ tick' = [tick EXCEPT !.pc = "read"]
    BY <1>8 DEF TickFire, TickList, TickError
  <2>. QED
    BY <1>4, <1>5, <2>1, <2>2
<1>9. CASE TickRead
  <2>1. UNCHANGED <<there, fired, minute, launches, run>>
    BY <1>9 DEF TickRead
  <2>2. \/ tick' = IdleTick
        \/ tick.pc = "read" /\ (there => fired # tick.minute) /\ tick' = [tick EXCEPT !.pc = "mark"]
    BY <1>9 DEF TickRead, GetLastFiredAt
  <2>. QED
    BY <1>4, <1>5, <2>1, <2>2
<1>10. CASE TickMark
  <2>1. /\ tick.pc = "mark" /\ tick' = IdleTick /\ UNCHANGED <<there, minute, run>>
        /\ fired' = IF there THEN tick.minute ELSE fired
        /\ launches' = launches \cup {tick.minute}
    BY <1>10 DEF TickMark
  <2>2. 1 <= tick.minute /\ tick.minute <= minute /\ (there => fired < tick.minute)
    BY <1>2, <2>1
  <2>3. there => /\ \A m \in launches' : m <= fired'
                 /\ \A r \in RunIds : run'[r].minute <= fired' /\ run'[r].minute \notin launches'
    BY <1>0, <1>2, <1>3, <2>1, <2>2
  <2>. QED
    BY <1>0, <1>2, <1>3, <2>1, <2>2, <2>3 DEF Schedule, OncePerMinute, IdleTick
<1>11. CASE Launch
  <2>1. PICK m \in launches :
          /\ launches' = launches \ {m}
          /\ \/ there /\ \E r \in RunIds : run[r] = NoRun /\ Update(r, Started(m))
             \/ UNCHANGED <<there, active, fired, minute, up, seen, tick, run>>
    BY <1>11 DEF Launch
  <2>2. CASE UNCHANGED <<there, active, fired, minute, up, seen, tick, run>>
    BY <1>2, <1>3, <2>1, <2>2 DEF Schedule, OncePerMinute
  <2>3. ASSUME there, NEW r \in RunIds, run[r] = NoRun, Update(r, Started(m)) PROVE Schedule' /\ OncePerMinute'
    <3>1. Started(m).minute = m /\ m # 0
      BY <1>0, NewRows
    <3>2. UNCHANGED <<there, fired, minute, tick>> /\ run'[r].minute = m /\ \A q \in RunIds \ {r} : run'[q] = run[q]
      BY <2>3, <3>1 DEF Update, RunsInv, RunsTypeOK
    <3>3. \A q \in RunIds \ {r} : run[q].minute # m
      BY <1>3, <2>3
    <3>4. OncePerMinute'
      <4>1. \A q, p \in RunIds : (run'[q].minute # 0 /\ run'[q].minute = run'[p].minute) => q = p
        BY <1>3, <3>2, <3>3
      <4>2. \A q \in RunIds : run'[q].minute \notin launches'
        BY <1>3, <2>1, <2>3, <3>2
      <4>. QED
        BY <4>1, <4>2 DEF OncePerMinute
    <3>5. \A q \in RunIds : run'[q].minute <= fired
      BY <1>2, <2>3, <3>2
    <3>6. \A n \in launches' : n <= fired
      BY <1>2, <2>1, <2>3
    <3>. QED
      BY <1>2, <3>2, <3>4, <3>5, <3>6 DEF Schedule
  <2>. QED
    BY <2>1, <2>2, <2>3
<1>12. ASSUME NEW r \in RunIds, runWorkflow(r) \/ webhook(r) PROVE Schedule' /\ OncePerMinute'
  <2>1. run[r] = NoRun /\ Update(r, Started(0)) /\ UNCHANGED launches
    BY <1>12 DEF runWorkflow, webhook, ExecuteAsync
  <2>2. Started(0).minute = 0 /\ NoRun.minute = 0
    BY <1>0, NewRows
  <2>3. UNCHANGED <<there, fired, minute, tick>> /\ \A q \in RunIds : run'[q].minute = run[q].minute
    BY <2>1, <2>2 DEF Update, RunsInv, RunsTypeOK
  <2>. QED
    BY <1>4, <1>5, <2>1, <2>3
<1>13. ASSUME NEW r \in RunIds, CancelRun(r) \/ Engine(r) PROVE Schedule' /\ OncePerMinute'
  <2>1. UNCHANGED <<there, fired, minute, tick, launches>> /\ \A q \in RunIds : run'[q].minute = run[q].minute
    BY <1>13, OneRunMoves DEF RunsInv, Moves
  <2>. QED
    BY <1>4, <1>5, <2>1
<1>14. CASE DeleteWorkflow \/ Restart
  <2>1. \A q \in RunIds : run[q] \in Run
    BY DEF RunsInv, RunsTypeOK
  <2>2. \A q \in RunIds : run'[q] = run[q] \/ (\E st \in Statuses : run'[q] = [run[q] EXCEPT !.status = st])
    BY <1>14 DEF DeleteWorkflow, Restart, Statuses, Terminal
  <2>3. \A q \in RunIds : run'[q].minute = run[q].minute
    BY <2>1, <2>2 DEF Run
  <2>4. UNCHANGED <<fired, minute, tick, launches>> /\ (there' => there)
    BY <1>14 DEF DeleteWorkflow, Restart
  <2>. QED
    BY <1>4, <1>5, <2>3, <2>4
<1>15. CASE Crash
  <2>1. \A q \in RunIds : run[q] \in Run /\ run'[q] = [run[q] EXCEPT !.at = "off", !.outcome = "none"]
    BY <1>15 DEF Crash, RunsInv, RunsTypeOK
  <2>2. \A q \in RunIds : run'[q].minute = run[q].minute
    BY <2>1 DEF Run
  <2>3. UNCHANGED <<there, fired, minute>> /\ tick' = IdleTick /\ launches' = {}
    BY <1>15 DEF Crash
  <2>. QED
    BY <1>2, <1>3, <2>2, <2>3 DEF Schedule, OncePerMinute, IdleTick
<1>. QED
  BY <1>6, <1>7, <1>8, <1>9, <1>10, <1>11, <1>12, <1>13, <1>14, <1>15 DEF RunsNext

LEMMA RunsTypeStep == RunsInv /\ [RunsNext]_vars => RunsTypeOK'
<1>. SUFFICES ASSUME RunsInv, [RunsNext]_vars PROVE RunsTypeOK'
  OBVIOUS
<1>0. /\ {there, active, up} \subseteq BOOLEAN /\ {fired, minute, seen} \subseteq 0 .. MaxMinute
      /\ tick \in [pc : {"idle", "list", "read", "mark"}, minute : 0 .. MaxMinute]
      /\ launches \subseteq 1 .. MaxMinute /\ MaxMinute \in Nat /\ MaxMinute > 0
      /\ IdleTick \in [pc : {"idle", "list", "read", "mark"}, minute : 0 .. MaxMinute]
      /\ ~up => seen = 0 /\ tick = IdleTick /\ launches = {}
  BY RunsAssumption DEF RunsInv, RunsTypeOK, IdleTick
<1>1. run' \in [RunIds -> Run] /\ (~up' => \A q \in RunIds : run'[q].at = "off")
  BY RunsStep DEF RunsInv, SomeRuns
<1>2. tick.pc # "idle" => up
  BY <1>0 DEF IdleTick
<1>3. CASE UNCHANGED <<there, fired, minute, up, seen, tick, launches>> /\ active' \in BOOLEAN
  BY <1>0, <1>1, <1>3 DEF RunsTypeOK
<1>4. CASE Toggle \/ UNCHANGED vars
  <2>1. active' \in BOOLEAN
    BY <1>0, <1>4 DEF Toggle, vars
  <2>. QED
    BY <1>3, <1>4, <2>1 DEF Toggle, vars
<1>5. CASE NextMinute
  <2>1. minute' \in 0 .. MaxMinute
    BY <1>0, <1>5 DEF NextMinute
  <2>. QED
    BY <1>0, <1>1, <1>5, <2>1 DEF NextMinute, RunsTypeOK
<1>6. CASE TickFire \/ TickList \/ TickRead \/ TickError
  <2>1. UNCHANGED <<there, active, fired, minute, up, launches>> /\ up
    BY <1>0, <1>2, <1>6 DEF TickFire, TickList, TickRead, TickError
  <2>2. seen' \in 0 .. MaxMinute
    BY <1>0, <1>6 DEF TickFire, TickList, TickRead, TickError
  <2>3. tick' \in [pc : {"idle", "list", "read", "mark"}, minute : 0 .. MaxMinute]
    <3>1. \/ tick' = IdleTick \/ tick' = [pc |-> "list", minute |-> minute]
          \/ tick' = [tick EXCEPT !.pc = "read"] \/ tick' = [tick EXCEPT !.pc = "mark"]
      BY <1>6 DEF TickFire, TickList, TickRead, TickError
    <3>. QED
      BY <1>0, <3>1
  <2>. QED
    BY <1>0, <1>1, <2>1, <2>2, <2>3 DEF RunsTypeOK
<1>7. CASE TickMark
  <2>1. tick.pc = "mark" /\ UNCHANGED <<there, active, minute, up, seen>> /\ up /\ tick' = IdleTick
    BY <1>2, <1>7 DEF TickMark
  <2>2. tick.minute \in 1 .. MaxMinute
    BY <1>0, <2>1 DEF RunsInv, Schedule
  <2>3. fired' \in 0 .. MaxMinute /\ launches' \subseteq 1 .. MaxMinute
    BY <1>0, <1>7, <2>2 DEF TickMark
  <2>. QED
    BY <1>0, <1>1, <2>1, <2>3 DEF RunsTypeOK
<1>8. CASE Launch
  <2>1. UNCHANGED <<there, active, fired, minute, up, seen, tick>> /\ launches' \subseteq launches
    BY <1>8 DEF Launch, Update
  <2>. QED
    BY <1>0, <1>1, <2>1 DEF RunsTypeOK
<1>9. ASSUME NEW r \in RunIds, runWorkflow(r) \/ webhook(r) \/ CancelRun(r) \/ Engine(r) PROVE RunsTypeOK'
  <2>1. UNCHANGED <<there, active, fired, minute, up, seen, tick, launches>>
    BY <1>9, OneRunMoves DEF runWorkflow, webhook, ExecuteAsync, Update, RunsInv
  <2>. QED
    BY <1>0, <1>3, <2>1
<1>10. CASE DeleteWorkflow \/ Crash \/ Restart
  <2>1. /\ there' \in BOOLEAN /\ active' \in BOOLEAN /\ up' \in BOOLEAN
        /\ UNCHANGED <<fired, minute>> /\ seen' \in {seen, 0} /\ tick' \in {tick, IdleTick} /\ launches' \in {launches, {}}
    BY <1>0, <1>10 DEF DeleteWorkflow, Crash, Restart
  <2>2. ~up' => seen' = 0 /\ tick' = IdleTick /\ launches' = {}
    BY <1>0, <1>10 DEF DeleteWorkflow, Crash, Restart
  <2>3. /\ {there', active', up'} \subseteq BOOLEAN /\ {fired', minute', seen'} \subseteq 0 .. MaxMinute
        /\ tick' \in [pc : {"idle", "list", "read", "mark"}, minute : 0 .. MaxMinute]
        /\ launches' \subseteq 1 .. MaxMinute
    BY <1>0, <2>1
  <2>. QED
    BY <1>1, <2>2, <2>3 DEF RunsTypeOK
<1>. QED
  BY <1>4, <1>5, <1>6, <1>7, <1>8, <1>9, <1>10 DEF RunsNext

LEMMA RunsInitInv == RunsInit => RunsInv
<1>. SUFFICES ASSUME RunsInit PROVE RunsInv
  OBVIOUS
<1>. USE RunsAssumption
<1>1. \A r \in RunIds : run[r] = NoRun /\ WalkOK(NoRun) /\ NoRun \in Run /\ NoRun.minute = 0 /\ NoRun.at = "off"
                       /\ NoRun.status = "none"
  BY NewRows DEF RunsInit
<1>2. RunsTypeOK
  <2>1. {there, active, up} \subseteq BOOLEAN /\ up
    BY DEF RunsInit
  <2>2. {fired, minute, seen} \subseteq 0 .. MaxMinute
    BY DEF RunsInit
  <2>3. tick \in [pc : {"idle", "list", "read", "mark"}, minute : 0 .. MaxMinute]
    BY DEF RunsInit, IdleTick
  <2>4. run \in [RunIds -> Run]
    BY <1>1 DEF RunsInit
  <2>. QED
    BY <2>1, <2>2, <2>3, <2>4 DEF RunsInit, RunsTypeOK
<1>3. WalksOK /\ OncePerMinute /\ RunningIsWalked
  BY <1>1 DEF RunsInit, WalksOK, OncePerMinute, RunningIsWalked
<1>4. Schedule
  BY <1>1 DEF RunsInit, Schedule, IdleTick
<1>. QED
  BY <1>2, <1>3, <1>4 DEF RunsInv

LEMMA RunsInvStep == RunsInv /\ [RunsNext]_vars => RunsInv'
<1>. SUFFICES ASSUME RunsInv, [RunsNext]_vars PROVE RunsInv'
  OBVIOUS
<1>1. RunsTypeOK' /\ Schedule' /\ OncePerMinute'
  BY RunsTypeStep, ScheduleStep
<1>2. WalksOK' /\ RunningIsWalked'
  BY RunsStep DEF RunsInv, SomeRuns
<1>. QED
  BY <1>1, <1>2 DEF RunsInv

\* Through ticks, crashes, restarts and the deletion of the workflow, the
\* scheduler's memory, the stamp, the goroutines on their way and the rows of the
\* runs keep to the invariant.
THEOREM RunsInvariance == RunsSpec => []RunsInv
<1>. QED
  BY RunsInitInv, RunsInvStep, PTL DEF RunsSpec

\* The rows of the runs and the scheduler's memory are well formed, and nothing
\* that lives in memory outlives the process.
THEOREM RunsTypeCorrect == RunsSpec => []RunsTypeOK
<1>1. RunsInv => RunsTypeOK
  BY DEF RunsInv
<1>. QED
  BY <1>1, RunsInvariance, PTL

\* A scheduled minute is run at most once, across ticks, restarts and errors.
THEOREM MinutesRunOnce == RunsSpec => []OncePerMinute
<1>1. RunsInv => OncePerMinute
  BY DEF RunsInv
<1>. QED
  BY <1>1, RunsInvariance, PTL

\* A cancelled walk visits at most the node whose check it was past.
THEOREM CancelStops == RunsSpec => []CancelStopsWalk
<1>1. RunsInv => CancelStopsWalk
  BY DEF RunsInv, WalksOK, WalkOK, CancelStopsWalk
<1>. QED
  BY <1>1, RunsInvariance, PTL

\* No manual or webhook run is shown as running without a goroutine that walks it.
THEOREM RunningRunsAreWalked == RunsSpec => []RunningIsWalked
<1>1. RunsInv => RunningIsWalked
  BY DEF RunsInv
<1>. QED
  BY <1>1, RunsInvariance, PTL

\* Whoever finishes, cancels or reaps a run second changes nothing.
THEOREM VerdictsAreFinal == RunsSpec => VerdictIsFinal
<1>1. RunsInv /\ [RunsNext]_vars => [VerdictStands]_vars
  BY RunsStep DEF RunsInv, SomeRuns
<1>. QED
  BY <1>1, RunsInvariance, PTL DEF RunsSpec, VerdictIsFinal

-----------------------------------------------------------------------------
(* The definition and its history. *)

\* What a request under way carries: a copy of a row that was there, as it was
\* read until the definition is replaced in it.
Copies ==
    /\ There => wf.def \in Defs
    /\ wf.st = "absent" => \A c \in Clients : req[c] = Idle
    /\ \A c \in Clients :
        /\ req[c].op # "idle" => req[c].copy.st = "there" /\ req[c].copy.def \in Defs
        /\ req[c].op = "snapshot" => req[c].copy = req[c].base /\ req[c].new \in Defs

\* Every version below that of the row, or of a copy that may become the row, is
\* in the history.
KeptBelow(n) == \A v \in 1 .. n - 1 : Kept(v)
HistoryKept ==
    /\ KeptBelow(wf.version) /\ (~There => wf.version = 0)
    /\ There => \A c \in Clients : KeptBelow(req[c].copy.version)

\* A definition about to be replaced is in the history.
Archived(w) == \E n \in DOMAIN snapshots : snapshots[n] = [version |-> w.version, def |-> w.def]
BasesKept ==
    There => \A c \in Clients :
        req[c].op = "save" /\ req[c].copy.def # req[c].base.def => Archived(req[c].base)

\* A token that a request has minted is nobody else's.
Fresh(c) == req[c].copy.token \notin {0, req[c].base.token}
TokensUnique ==
    /\ wf.token <= lastToken /\ \A t \in revoked : 0 < t /\ t <= lastToken
    /\ \A c \in Clients : req[c].copy.token <= lastToken /\ req[c].base.token <= lastToken
    /\ \A c \in Clients : Fresh(c) =>
          /\ req[c].copy.token \notin revoked \cup {wf.token}
          /\ \A d \in Clients \ {c} : req[c].copy.token \notin {req[d].copy.token, req[d].base.token}

Requests == [op : {"idle", "snapshot", "save", "setActive", "delete", "created"},
             base : Workflow, copy : Workflow, new : Defs \cup {NoDef}]
StoreTyped == StoreTypeOK /\ req \in [Clients -> Requests]

StoreInv == StoreTyped /\ Copies /\ HistoryKept /\ BasesKept /\ TokensUnique /\ RevokedStaysRevoked

LEMMA WorkflowFields ==
    ASSUME NEW w \in Workflow
    PROVE  /\ w.version \in Versions /\ w.token \in Tokens /\ w.def \in Defs \cup {NoDef}
           /\ w.st \in {"absent", "there", "deleted"} /\ w.columns \in Defs \cup {NoDef} /\ w.active \in BOOLEAN
  BY DEF Workflow

\* The trigger columns are derived: nothing else of the row changes, and the
\* token is none or the next one.
LEMMA TriggerColumns ==
    ASSUME NEW w \in Workflow, lastToken \in Tokens, Mintable
    PROVE  LET y == ApplyTriggerColumns(w) IN
             /\ y \in Workflow /\ y.st = w.st /\ y.def = w.def /\ y.version = w.version /\ y.active = w.active
             /\ y.token \in {0, lastToken + 1}
             /\ Minted(y) \in Tokens /\ Minted(y) >= lastToken /\ y.token <= Minted(y)
<1>. USE LimitsAssumption
<1>0. lastToken + 1 \in Tokens /\ 0 \in Tokens /\ lastToken \in Nat
  BY DEF Tokens, Mintable
<1>1. \A t \in Tokens, d \in Defs \cup {NoDef} :
        LET y == [w EXCEPT !.columns = d, !.token = t]
        IN  /\ y \in Workflow /\ y.st = w.st /\ y.def = w.def /\ y.version = w.version /\ y.active = w.active
            /\ y.token = t
  BY DEF Workflow
<1>. DEFINE y == ApplyTriggerColumns(w)
<1>2. \E t \in {0, lastToken + 1}, d \in Defs \cup {NoDef} : y = [w EXCEPT !.columns = d, !.token = t]
  BY WorkflowFields DEF ApplyTriggerColumns
<1>. HIDE DEF y
<1>. PICK t \in {0, lastToken + 1}, d \in Defs \cup {NoDef} : y = [w EXCEPT !.columns = d, !.token = t]
  BY <1>2
<1>3. /\ y \in Workflow /\ y.st = w.st /\ y.def = w.def /\ y.version = w.version /\ y.active = w.active
      /\ y.token \in {0, lastToken + 1}
  BY <1>0, <1>1, <1>2
<1>4. Minted(y) \in Tokens /\ Minted(y) >= lastToken /\ y.token <= Minted(y)
  BY <1>0, <1>3 DEF Minted
<1>. QED
  BY <1>3, <1>4 DEF y

\* A new definition takes the next version and, with it, the trigger columns.
LEMMA NewDefinition ==
    ASSUME NEW w \in Workflow, NEW d \in Defs \cup {NoDef}, w.version < MaxVersion, lastToken \in Tokens, Mintable
    PROVE  LET y == Redefined(w, d) IN
             /\ y \in Workflow /\ y.st = w.st /\ y.def = d /\ y.version = w.version + 1
             /\ y.token \in {0, lastToken + 1}
             /\ Minted(y) \in Tokens /\ Minted(y) >= lastToken /\ y.token <= Minted(y)
<1>. DEFINE x == [w EXCEPT !.def = d, !.version = w.version + 1]
<1>1. w.version + 1 \in Versions
  BY LimitsAssumption, WorkflowFields DEF Versions
<1>2. x \in Workflow /\ x.st = w.st /\ x.def = d /\ x.version = w.version + 1
  BY <1>1 DEF Workflow
<1>3. Redefined(w, d) = ApplyTriggerColumns(x)
  BY DEF Redefined
<1>. HIDE DEF x
<1>. QED
  BY <1>2, <1>3, TriggerColumns

LEMMA NoWorkflowTyped ==
    /\ NoWorkflow \in Workflow /\ NoWorkflow.version = 0 /\ NoWorkflow.token = 0 /\ NoWorkflow.st = "absent"
    /\ Deleted \in Workflow /\ Deleted.version = 0 /\ Deleted.token = 0 /\ Deleted.st = "deleted"
    /\ Idle \in Requests /\ Idle.op = "idle" /\ Idle.copy = NoWorkflow /\ Idle.base = NoWorkflow
<1>. USE LimitsAssumption
<1>1. /\ NoWorkflow \in Workflow /\ NoWorkflow.version = 0 /\ NoWorkflow.token = 0 /\ NoWorkflow.st = "absent"
  BY DEF NoWorkflow, Workflow, Versions, Tokens
<1>2. \A w \in Workflow : LET y == [w EXCEPT !.st = "deleted"] IN
        y \in Workflow /\ y.version = w.version /\ y.token = w.token /\ y.st = "deleted"
  BY DEF Workflow
<1>3. Idle \in Requests /\ Idle.op = "idle" /\ Idle.copy = NoWorkflow /\ Idle.base = NoWorkflow
  BY <1>1 DEF Idle, Requests
<1>. QED
  BY <1>1, <1>2, <1>3 DEF Deleted

-----------------------------------------------------------------------------
(* What the steps do to the row, the history and the request q of client c.  *)

Counters == <<lastToken, revoked, raced>>
Mints(q) ==
    /\ lastToken' \in Tokens /\ lastToken' >= lastToken
    /\ q.copy.token \in {0, lastToken + 1} /\ q.copy.token <= lastToken'
GivesUp(q) == q = Idle /\ UNCHANGED <<wf, snapshots, Counters>>
TakesCopy(q) ==
    /\ There /\ q.base = wf /\ q.copy = wf /\ q.op \in {"save", "snapshot", "delete"}
    /\ q.op = "snapshot" => q.new \in Defs
    /\ UNCHANGED <<wf, snapshots, Counters>>
TakesToggled(q) ==
    /\ There /\ q.base = wf /\ q.op = "setActive"
    /\ q.copy.version = wf.version /\ q.copy.def = wf.def /\ q.copy.st = "there"
    /\ Mints(q) /\ UNCHANGED <<wf, snapshots, revoked, raced>>
Creates(q) ==
    /\ wf.st = "absent" /\ wf' \in Workflow /\ wf'.st = "there" /\ wf'.version = 1 /\ wf'.token = 0 /\ wf'.def \in Defs
    /\ q.op = "created" /\ q.base = wf' /\ q.copy = wf'
    /\ UNCHANGED <<snapshots, Counters>>
Archives(c) ==
    /\ There /\ Len(snapshots) < MaxSnapshots
    /\ snapshots' = Append(snapshots, [version |-> req[c].copy.version, def |-> req[c].copy.def])
    /\ UNCHANGED <<wf, revoked, raced>>
Redefines(c, q) ==
    /\ req[c].op = "snapshot" /\ Archives(c)
    /\ q.op = "save" /\ q.base = req[c].base
    /\ q.copy.version = req[c].copy.version + 1 /\ q.copy.st = "there" /\ q.copy.def \in Defs
    /\ Mints(q)
RecordsFirst(c, q) ==
    /\ req[c].op = "created" /\ q = Idle /\ UNCHANGED Counters
    /\ There /\ Len(snapshots) < MaxSnapshots
    /\ snapshots' = Append(snapshots, [version |-> 1, def |-> req[c].copy.def])
    /\ UNCHANGED wf
Writes(c, q) ==
    /\ There /\ q = Idle /\ Write(c, wf') /\ UNCHANGED lastToken
    /\ \/ req[c].op = "save" /\ wf' = req[c].copy /\ UNCHANGED snapshots
       \/ /\ req[c].op = "setActive" /\ UNCHANGED snapshots
          /\ wf' \in Workflow /\ wf'.st = "there" /\ wf'.version = wf.version /\ wf'.def = wf.def
          /\ wf'.token = req[c].copy.token
       \/ req[c].op = "delete" /\ wf' = Deleted /\ snapshots' = <<>>

StepOf(c, q) ==
    \/ GivesUp(q) \/ TakesCopy(q) \/ TakesToggled(q) \/ Creates(q)
    \/ Redefines(c, q) \/ RecordsFirst(c, q) \/ Writes(c, q)

LEMMA StoreSteps ==
    ASSUME StoreTyped, Copies, StoreNext
    PROVE  \E c \in Clients, q \in Requests : req' = [req EXCEPT ![c] = q] /\ StepOf(c, q)
<1>. PICK c \in Clients :
        \/ Create(c) \/ CreateSnapshot(c)
        \/ BeginUpdate(c) \/ UpdateSnapshot(c) \/ UpdateSave(c)
        \/ BeginSetActive(c) \/ SetActive(c)
        \/ BeginDelete(c) \/ Delete(c)
        \/ Abandon(c)
  BY DEF StoreNext
<1>0. /\ wf \in Workflow /\ req[c] \in Requests /\ req[c].copy \in Workflow /\ req[c].base \in Workflow
      /\ req[c].new \in Defs \cup {NoDef} /\ lastToken \in Tokens
      /\ ~There => snapshots = <<>>
  BY DEF StoreTyped, StoreTypeOK, Requests, There
<1>1. Idle \in Requests /\ (Done(c) => req' = [req EXCEPT ![c] = Idle])
  BY NoWorkflowTyped DEF Done
<1>2. ASSUME NEW op \in {"idle", "snapshot", "save", "setActive", "delete", "created"}, NEW base \in Workflow,
             NEW copy \in Workflow, NEW new \in Defs \cup {NoDef}, Proceed(c, op, base, copy, new)
      PROVE  LET q == [op |-> op, base |-> base, copy |-> copy, new |-> new]
             IN  /\ q \in Requests /\ req' = [req EXCEPT ![c] = q]
                 /\ q.op = op /\ q.base = base /\ q.copy = copy /\ q.new = new
  BY <1>2 DEF Proceed, Requests
<1>3. CASE Create(c)
  <2>1. PICK d \in Defs : LET w == [NoWorkflow EXCEPT !.st = "there", !.def = d, !.version = 1]
                          IN  wf' = w /\ Proceed(c, "created", w, w, NoDef)
    BY <1>3 DEF Create
  <2>2. 1 \in Versions
    BY LimitsAssumption DEF Versions
  <2>3. \A x \in Workflow : LET w == [x EXCEPT !.st = "there", !.def = d, !.version = 1] IN
          w \in Workflow /\ w.st = "there" /\ w.def = d /\ w.version = 1 /\ w.token = x.token
    BY <2>2 DEF Workflow
  <2>. DEFINE w == [NoWorkflow EXCEPT !.st = "there", !.def = d, !.version = 1]
  <2>4. w \in Workflow /\ w.st = "there" /\ w.def = d /\ w.version = 1 /\ w.token = 0 /\ wf' = w
        /\ Proceed(c, "created", w, w, NoDef)
    BY <2>1, <2>3, NoWorkflowTyped
  <2>. HIDE DEF w
  <2>. DEFINE q == [op |-> "created", base |-> w, copy |-> w, new |-> NoDef]
  <2>5. /\ q \in Requests /\ req' = [req EXCEPT ![c] = q]
        /\ q.op = "created" /\ q.base = w /\ q.copy = w
    BY <1>2, <2>4
  <2>. HIDE DEF q
  <2>6. Creates(q)
    BY <1>3, <2>4, <2>5 DEF Create, Creates, Counters
  <2>. QED
    BY <2>5, <2>6 DEF StepOf
<1>4. CASE CreateSnapshot(c)
  <2>1. RecordsFirst(c, Idle)
    BY <1>4 DEF CreateSnapshot, InsertSnapshot, RecordsFirst, Counters
  <2>2. Done(c)
    BY <1>4 DEF CreateSnapshot
  <2>. QED
    BY <1>1, <2>1, <2>2 DEF StepOf
<1>5. CASE BeginUpdate(c)
  <2>1. PICK d \in Defs \cup {NoDef} :
           There /\ Proceed(c, IF d \in {NoDef, wf.def} THEN "save" ELSE "snapshot", wf, wf, d)
    BY <1>5 DEF BeginUpdate
  <2>. DEFINE op == IF d \in {NoDef, wf.def} THEN "save" ELSE "snapshot"
              q == [op |-> op, base |-> wf, copy |-> wf, new |-> d]
  <2>2. op \in {"save", "snapshot"} /\ (op = "snapshot" => d \in Defs)
    OBVIOUS
  <2>. HIDE DEF op
  <2>3. /\ q \in Requests /\ req' = [req EXCEPT ![c] = q]
        /\ q.op = op /\ q.base = wf /\ q.copy = wf /\ q.new = d
    BY <1>0, <1>2, <2>1, <2>2 DEF op
  <2>. HIDE DEF q
  <2>4. TakesCopy(q)
    BY <1>5, <2>1, <2>2, <2>3 DEF BeginUpdate, TakesCopy, Counters
  <2>. QED
    BY <2>3, <2>4 DEF StepOf
<1>6. CASE UpdateSnapshot(c)
  <2>. DEFINE w == Redefined(req[c].copy, req[c].new)
              q == [op |-> "save", base |-> req[c].base, copy |-> w, new |-> NoDef]
  <2>1. /\ req[c].op = "snapshot" /\ req[c].copy.version < MaxVersion /\ Mintable
        /\ Archives(c) /\ Proceed(c, "save", req[c].base, w, NoDef) /\ lastToken' = Minted(w)
    BY <1>6 DEF UpdateSnapshot, InsertSnapshot, Archives
  <2>2. /\ w \in Workflow /\ w.st = req[c].copy.st /\ w.def = req[c].new /\ w.version = req[c].copy.version + 1
        /\ w.token \in {0, lastToken + 1}
        /\ lastToken' \in Tokens /\ lastToken' >= lastToken /\ w.token <= lastToken'
    BY <1>0, <2>1, NewDefinition
  <2>3. w.st = "there" /\ w.def \in Defs
    BY <2>1, <2>2 DEF Copies
  <2>. HIDE DEF w
  <2>4. q \in Requests /\ req' = [req EXCEPT ![c] = q] /\ q.op = "save" /\ q.base = req[c].base /\ q.copy = w
    BY <1>0, <1>2, <2>1, <2>2
  <2>. HIDE DEF q
  <2>5. Redefines(c, q)
    BY <2>1, <2>2, <2>3, <2>4 DEF Redefines, Mints
  <2>. QED
    BY <2>4, <2>5 DEF StepOf
<1>7. CASE UpdateSave(c)
  <2>1. CASE There
    <3>1. Writes(c, Idle)
      BY <1>7, <2>1 DEF UpdateSave, Writes, Write
    <3>. QED
      BY <1>1, <1>7, <3>1 DEF StepOf, UpdateSave
  <2>2. CASE ~There
    <3>1. GivesUp(Idle)
      BY <1>7, <2>2 DEF UpdateSave, GivesUp, Counters
    <3>. QED
      BY <1>1, <1>7, <3>1 DEF StepOf, UpdateSave
  <2>. QED
    BY <2>1, <2>2
<1>8. CASE BeginSetActive(c)
  <2>. DEFINE x == [wf EXCEPT !.active = ~wf.active]
              w == ApplyTriggerColumns(x)
              q == [op |-> "setActive", base |-> wf, copy |-> w, new |-> NoDef]
  <2>1. There /\ Mintable /\ Proceed(c, "setActive", wf, w, NoDef) /\ lastToken' = Minted(w)
        /\ UNCHANGED <<wf, snapshots, revoked, raced>>
    BY <1>8 DEF BeginSetActive
  <2>2. x \in Workflow /\ x.st = wf.st /\ x.def = wf.def /\ x.version = wf.version
    <3>1. \A a \in BOOLEAN : LET y == [wf EXCEPT !.active = a] IN
            y \in Workflow /\ y.st = wf.st /\ y.def = wf.def /\ y.version = wf.version
      BY <1>0 DEF Workflow
    <3>2. (~wf.active) \in BOOLEAN
      OBVIOUS
    <3>. QED
      BY <3>1, <3>2
  <2>. HIDE DEF x
  <2>3. /\ w \in Workflow /\ w.st = wf.st /\ w.def = wf.def /\ w.version = wf.version
        /\ w.token \in {0, lastToken + 1}
        /\ lastToken' \in Tokens /\ lastToken' >= lastToken /\ w.token <= lastToken'
    BY <1>0, <2>1, <2>2, TriggerColumns
  <2>. HIDE DEF w
  <2>4. q \in Requests /\ req' = [req EXCEPT ![c] = q] /\ q.op = "setActive" /\ q.base = wf /\ q.copy = w
    BY <1>0, <1>2, <2>1, <2>3
  <2>. HIDE DEF q
  <2>5. TakesToggled(q)
    BY <2>1, <2>3, <2>4 DEF TakesToggled, Mints, There
  <2>. QED
    BY <2>4, <2>5 DEF StepOf
<1>9. CASE SetActive(c)
  <2>1. CASE There
    <3>. DEFINE w == req[c].copy
                new == [wf EXCEPT !.active = w.active, !.columns = w.columns, !.token = w.token]
    <3>1. Write(c, new) /\ wf' = new /\ req[c].op = "setActive" /\ UNCHANGED <<snapshots, lastToken>>
      BY <1>9, <2>1 DEF SetActive, Write
    <3>2. w.active \in BOOLEAN /\ w.columns \in Defs \cup {NoDef} /\ w.token \in Tokens
      BY <1>0, WorkflowFields
    <3>3. new \in Workflow /\ new.st = wf.st /\ new.version = wf.version /\ new.def = wf.def /\ new.token = w.token
      BY <1>0, <3>2 DEF Workflow
    <3>. HIDE DEF new
    <3>4. Writes(c, Idle)
      BY <2>1, <3>1, <3>3 DEF Writes, There
    <3>. QED
      BY <1>1, <1>9, <3>4 DEF StepOf, SetActive
  <2>2. CASE ~There
    <3>1. GivesUp(Idle)
      BY <1>9, <2>2 DEF SetActive, GivesUp, Counters
    <3>. QED
      BY <1>1, <1>9, <3>1 DEF StepOf, SetActive
  <2>. QED
    BY <2>1, <2>2
<1>10. CASE BeginDelete(c)
  <2>. DEFINE q == [op |-> "delete", base |-> wf, copy |-> wf, new |-> NoDef]
  <2>1. There /\ Proceed(c, "delete", wf, wf, NoDef) /\ UNCHANGED <<wf, snapshots, lastToken, revoked, raced>>
    BY <1>10 DEF BeginDelete
  <2>2. q \in Requests /\ req' = [req EXCEPT ![c] = q] /\ q.op = "delete" /\ q.base = wf /\ q.copy = wf
    BY <1>0, <1>2, <2>1
  <2>. HIDE DEF q
  <2>3. TakesCopy(q)
    BY <2>1, <2>2 DEF TakesCopy, Counters
  <2>. QED
    BY <2>2, <2>3 DEF StepOf
<1>11. CASE Delete(c)
  <2>1. CASE There
    <3>1. Writes(c, Idle)
      BY <1>11, <2>1 DEF Delete, Writes, Write
    <3>. QED
      BY <1>1, <1>11, <3>1 DEF StepOf, Delete
  <2>2. CASE ~There
    <3>1. GivesUp(Idle)
      BY <1>0, <1>11, <2>2 DEF Delete, GivesUp, Counters
    <3>. QED
      BY <1>1, <1>11, <3>1 DEF StepOf, Delete
  <2>. QED
    BY <2>1, <2>2
<1>12. CASE Abandon(c)
  <2>1. GivesUp(Idle)
    BY <1>12 DEF Abandon, GivesUp, Counters
  <2>. QED
    BY <1>1, <1>12, <2>1 DEF StepOf, Abandon
<1>. QED
  BY <1>3, <1>4, <1>5, <1>6, <1>7, <1>8, <1>9, <1>10, <1>11, <1>12

LEMMA StoreTypedStep ==
    ASSUME StoreTyped, Copies, StoreNext
    PROVE  StoreTyped' /\ Copies'
<1>. PICK c \in Clients, q \in Requests : req' = [req EXCEPT ![c] = q] /\ StepOf(c, q)
  BY StoreSteps
<1>0. /\ wf \in Workflow /\ snapshots \in Seq(Snapshot) /\ Len(snapshots) <= MaxSnapshots /\ Len(snapshots) \in Nat
      /\ (wf.st = "there" \/ snapshots = <<>>)
      /\ lastToken \in Tokens /\ revoked \subseteq Tokens /\ raced \in BOOLEAN
      /\ req \in [Clients -> Requests] /\ req[c] \in Requests /\ req[c].copy \in Workflow
      /\ MaxSnapshots \in Nat
  BY LimitsAssumption DEF StoreTyped, StoreTypeOK, Requests
<1>1. req' \in [Clients -> Requests] /\ req'[c] = q /\ \A d \in Clients \ {c} : req'[d] = req[d]
  BY <1>0
<1>2. /\ There => wf.def \in Defs
      /\ \A d \in Clients : /\ (req[d].op # "idle" => req[d].copy.st = "there" /\ req[d].copy.def \in Defs)
                             /\ (req[d].op = "snapshot" => req[d].copy = req[d].base /\ req[d].new \in Defs)
  BY DEF Copies
\* The row and the request.
<1>3. /\ wf' \in Workflow /\ (wf'.st = "there" => wf'.def \in Defs)
      /\ q.op # "idle" => q.copy.st = "there" /\ q.copy.def \in Defs
      /\ q.op = "snapshot" => q.copy = q.base /\ q.new \in Defs
  <2>1. CASE GivesUp(q)
    BY <1>0, <1>2, <2>1, NoWorkflowTyped DEF GivesUp, There
  <2>2. CASE TakesCopy(q)
    BY <1>0, <1>2, <2>2 DEF TakesCopy, There
  <2>3. CASE TakesToggled(q)
    BY <1>0, <1>2, <2>3 DEF TakesToggled, There
  <2>4. CASE Creates(q)
    BY <2>4 DEF Creates
  <2>5. CASE Redefines(c, q)
    BY <1>0, <1>2, <2>5 DEF Redefines, Archives, There
  <2>6. CASE RecordsFirst(c, q)
    BY <1>0, <1>2, <2>6, NoWorkflowTyped DEF RecordsFirst, There
  <2>7. CASE Writes(c, q)
    BY <1>0, <1>2, <2>7, NoWorkflowTyped DEF Writes, There
  <2>. QED
    BY <2>1, <2>2, <2>3, <2>4, <2>5, <2>6, <2>7 DEF StepOf
<1>4. Copies'
  <2>1. wf.st = "absent" => \A d \in Clients : req[d] = Idle
    BY DEF Copies
  <2>2. wf'.st = "absent" => wf.st = "absent" /\ q = Idle
    <3>1. CASE Writes(c, q)
      BY <1>0, <1>2, <3>1, NoWorkflowTyped DEF Writes, There
    <3>. QED
      BY <3>1 DEF StepOf, GivesUp, TakesCopy, TakesToggled, Creates, Redefines, Archives, RecordsFirst, There
  <2>. QED
    BY <1>1, <1>2, <1>3, <2>1, <2>2 DEF Copies, There
\* The history.
<1>5. /\ snapshots' \in Seq(Snapshot) /\ Len(snapshots') <= MaxSnapshots
      /\ (wf'.st = "there" \/ snapshots' = <<>>)
  <2>1. ASSUME There, Len(snapshots) < MaxSnapshots, UNCHANGED wf, NEW v \in Versions, req[c].op # "idle",
               snapshots' = Append(snapshots, [version |-> v, def |-> req[c].copy.def])
        PROVE  /\ snapshots' \in Seq(Snapshot) /\ Len(snapshots') <= MaxSnapshots
               /\ (wf'.st = "there" \/ snapshots' = <<>>)
    <3>. DEFINE x == [version |-> v, def |-> req[c].copy.def]
    <3>1. x \in Snapshot
      BY <1>2, <2>1 DEF Snapshot
    <3>. HIDE DEF x
    <3>2. Append(snapshots, x) \in Seq(Snapshot) /\ Len(Append(snapshots, x)) = Len(snapshots) + 1
      BY <1>0, <3>1
    <3>. QED
      BY <1>0, <2>1, <3>2 DEF x, There
  <2>2. CASE Redefines(c, q)
    <3>1. req[c].copy.version \in Versions
      BY <1>0, WorkflowFields
    <3>. QED
      BY <2>1, <2>2, <3>1 DEF Redefines, Archives
  <2>3. CASE RecordsFirst(c, q)
    <3>1. 1 \in Versions
      BY LimitsAssumption DEF Versions
    <3>. QED
      BY <2>1, <2>3, <3>1 DEF RecordsFirst
  <2>4. CASE Writes(c, q)
    <3>1. CASE req[c].op = "save" /\ wf' = req[c].copy /\ UNCHANGED snapshots
      BY <1>0, <1>2, <3>1
    <3>2. CASE wf'.st = "there" /\ UNCHANGED snapshots
      BY <1>0, <3>2
    <3>3. CASE snapshots' = <<>>
      BY <1>0, <3>3
    <3>. QED
      BY <2>4, <3>1, <3>2, <3>3 DEF Writes
  <2>5. CASE GivesUp(q) \/ TakesCopy(q) \/ TakesToggled(q) \/ Creates(q)
    BY <1>0, <2>5 DEF GivesUp, TakesCopy, TakesToggled, Creates
  <2>. QED
    BY <2>2, <2>3, <2>4, <2>5 DEF StepOf
<1>6. lastToken' \in Tokens /\ revoked' \subseteq Tokens /\ raced' \in BOOLEAN
  <2>1. wf.token \in Tokens
    BY <1>0, WorkflowFields
  <2>2. lastToken' \in Tokens
    BY <1>0 DEF StepOf, GivesUp, TakesCopy, TakesToggled, Mints, Creates, Redefines, Archives, RecordsFirst, Writes, Counters
  <2>3. revoked' \in {revoked, revoked \cup {wf.token}}
    BY DEF StepOf, GivesUp, TakesCopy, TakesToggled, Creates, Redefines, Archives, RecordsFirst, Writes, Write, Counters
  <2>4. raced' \in BOOLEAN
    <3>1. raced' = raced \/ raced' = (raced \/ req[c].base # wf)
      BY DEF StepOf, GivesUp, TakesCopy, TakesToggled, Creates, Redefines, Archives, RecordsFirst, Writes, Write, Counters
    <3>. QED
      BY <1>0, <3>1
  <2>. QED
    BY <1>0, <2>1, <2>2, <2>3, <2>4
<1>7. \A d \in Clients :
         /\ req'[d].op \in {"idle", "snapshot", "save", "setActive", "delete", "created"}
         /\ {req'[d].base, req'[d].copy} \subseteq Workflow
         /\ req'[d].new \in Defs \cup {NoDef}
  BY <1>1 DEF Requests
<1>. QED
  BY <1>1, <1>3, <1>4, <1>5, <1>6, <1>7 DEF StoreTyped, StoreTypeOK

\* The history only grows while the workflow is there.
LEMMA HistoryGrows ==
    ASSUME StoreTyped, NEW x, snapshots' = Append(snapshots, x)
    PROVE  /\ \A n \in DOMAIN snapshots : n \in DOMAIN snapshots' /\ snapshots'[n] = snapshots[n]
           /\ Len(snapshots) + 1 \in DOMAIN snapshots' /\ snapshots'[Len(snapshots) + 1] = x
<1>. DEFINE T == Snapshot \cup {x}
<1>1. snapshots \in Seq(Snapshot)
  BY DEF StoreTyped, StoreTypeOK
<1>2. snapshots \in Seq(T)
  BY <1>1, SeqDef
<1>3. x \in T
  OBVIOUS
<1>. HIDE DEF T
<1>. QED
  BY <1>2, <1>3, AppendProperties

\* The history after a step.
KeptBelowNext(n) == \A v \in 1 .. n - 1 : \E k \in DOMAIN snapshots' : snapshots'[k].version = v
ArchivedNext(w)  == \E k \in DOMAIN snapshots' : snapshots'[k] = [version |-> w.version, def |-> w.def]

LEMMA HistoryStep ==
    ASSUME StoreTyped, Copies, HistoryKept, BasesKept, StoreNext
    PROVE  HistoryKept' /\ BasesKept'
<1>. PICK c \in Clients, q \in Requests : req' = [req EXCEPT ![c] = q] /\ StepOf(c, q)
  BY StoreSteps
<1>0. /\ wf \in Workflow /\ req \in [Clients -> Requests] /\ req[c].copy \in Workflow
      /\ req[c].copy.version \in Nat /\ wf.version \in Nat
      /\ snapshots \in Seq(Snapshot)
  BY WorkflowFields DEF StoreTyped, StoreTypeOK, Requests, Versions
<1>1. req'[c] = q /\ \A d \in Clients \ {c} : req'[d] = req[d]
  BY <1>0
<1>2. /\ KeptBelow(wf.version) /\ (~There => wf.version = 0)
      /\ There => \A d \in Clients : KeptBelow(req[d].copy.version)
  BY DEF HistoryKept
<1>3. There => \A d \in Clients : (req[d].op = "save" /\ req[d].copy.def # req[d].base.def => Archived(req[d].base))
  BY DEF BasesKept
<1>4. KeptBelowNext(0) /\ KeptBelowNext(1) /\ KeptBelow(0)
  BY DEF KeptBelow, KeptBelowNext
\* What is left to show.
<1>5. ASSUME wf'.st = "there" => KeptBelowNext(wf'.version) /\ \A d \in Clients : KeptBelowNext(req'[d].copy.version),
             wf'.st # "there" => wf'.version = 0,
             wf'.st = "there" => \A d \in Clients :
                 (req'[d].op = "save" /\ req'[d].copy.def # req'[d].base.def => ArchivedNext(req'[d].base))
      PROVE  HistoryKept' /\ BasesKept'
  <2>1. HistoryKept'
    BY <1>4, <1>5 DEF HistoryKept, KeptBelow, Kept, KeptBelowNext, There
  <2>2. BasesKept'
    BY <1>5 DEF BasesKept, Archived, ArchivedNext, There
  <2>. QED
    BY <2>1, <2>2
\* What is kept stays, unless the history is deleted.
<1>6. ASSUME UNCHANGED snapshots \/ \E x : snapshots' = Append(snapshots, x)
      PROVE  (\A n : KeptBelow(n) => KeptBelowNext(n)) /\ (\A w : Archived(w) => ArchivedNext(w))
  <2>1. \A n \in DOMAIN snapshots : n \in DOMAIN snapshots' /\ snapshots'[n] = snapshots[n]
    BY <1>6, HistoryGrows
  <2>. QED
    BY <2>1 DEF KeptBelow, Kept, KeptBelowNext, Archived, ArchivedNext
<1>7. ASSUME UNCHANGED snapshots \/ \E x : snapshots' = Append(snapshots, x),
             There => wf'.version = wf.version \/ \E d \in Clients : wf'.version = req[d].copy.version,
             wf'.st = "there" => There, wf'.st # "there" => wf'.version = 0,
             There => KeptBelowNext(q.copy.version),
             There => (q.op = "save" /\ q.copy.def # q.base.def => ArchivedNext(q.base))
      PROVE  HistoryKept' /\ BasesKept'
  <2>1. There => KeptBelowNext(wf'.version) /\ \A d \in Clients : KeptBelowNext(req'[d].copy.version)
    BY <1>1, <1>2, <1>6, <1>7
  <2>2. There => \A d \in Clients :
           (req'[d].op = "save" /\ req'[d].copy.def # req'[d].base.def => ArchivedNext(req'[d].base))
    BY <1>1, <1>3, <1>6, <1>7
  <2>. QED
    BY <1>5, <1>7, <2>1, <2>2
<1>8. CASE GivesUp(q)
  BY <1>2, <1>4, <1>7, <1>8, NoWorkflowTyped DEF GivesUp, There
<1>9. CASE TakesCopy(q) \/ TakesToggled(q)
  <2>1. /\ UNCHANGED <<snapshots, wf>> /\ q.copy.version = wf.version
        /\ (q.op = "save" => q.copy.def = q.base.def)
    BY <1>9 DEF TakesCopy, TakesToggled
  <2>2. KeptBelowNext(q.copy.version)
    BY <1>2, <1>6, <2>1
  <2>. QED
    BY <1>2, <1>7, <2>1, <2>2 DEF There
<1>10. CASE Creates(q)
  <2>1. wf.st = "absent" /\ wf'.version = 1 /\ q.copy.version = 1 /\ q.op = "created" /\ wf'.st = "there"
    BY <1>10 DEF Creates
  <2>2. \A d \in Clients \ {c} : req[d].op = "idle" /\ req[d].copy.version = 0
    BY <2>1, NoWorkflowTyped DEF Copies
  <2>. QED
    BY <1>1, <1>4, <1>5, <2>1, <2>2
<1>11. CASE Redefines(c, q)
  <2>. DEFINE x == [version |-> req[c].copy.version, def |-> req[c].copy.def]
  <2>1. /\ snapshots' = Append(snapshots, x) /\ UNCHANGED wf /\ There
        /\ q.copy.version = req[c].copy.version + 1 /\ q.base = req[c].base
        /\ req[c].copy = req[c].base
    BY <1>11 DEF Redefines, Archives, Copies
  <2>2. x.version = req[c].copy.version /\ x = [version |-> q.base.version, def |-> q.base.def]
    BY <2>1
  <2>. HIDE DEF x
  <2>3. ArchivedNext(q.base)
    BY <2>1, <2>2, HistoryGrows DEF ArchivedNext
  <2>4. KeptBelowNext(q.copy.version)
    <3>1. KeptBelowNext(req[c].copy.version)
      BY <1>2, <1>6, <2>1
    <3>2. \E k \in DOMAIN snapshots' : snapshots'[k].version = req[c].copy.version
      BY <2>1, <2>2, HistoryGrows
    <3>3. \A v \in 1 .. q.copy.version - 1 : v \in 1 .. req[c].copy.version - 1 \/ v = req[c].copy.version
      BY <1>0, <2>1
    <3>. QED
      BY <3>1, <3>2, <3>3 DEF KeptBelowNext
  <2>. QED
    BY <1>2, <1>7, <2>1, <2>3, <2>4 DEF There
<1>12. CASE RecordsFirst(c, q)
  <2>1. q.copy.version = 0 /\ q.op = "idle" /\ UNCHANGED wf /\ \E x : snapshots' = Append(snapshots, x)
    BY <1>12, NoWorkflowTyped DEF RecordsFirst
  <2>. QED
    BY <1>2, <1>4, <1>7, <2>1 DEF There
<1>13. CASE Writes(c, q)
  <2>1. q.copy.version = 0 /\ q.op = "idle" /\ There
    BY <1>13, NoWorkflowTyped DEF Writes
  <2>2. CASE wf' = Deleted
    BY <1>5, <2>2, NoWorkflowTyped
  <2>3. CASE UNCHANGED snapshots /\ wf'.st = "there" /\ (wf'.version = wf.version \/ wf'.version = req[c].copy.version)
    BY <1>4, <1>7, <2>1, <2>3
  <2>4. req[c].op = "save" => req[c].copy.st = "there"
    BY DEF Copies
  <2>. QED
    BY <1>13, <2>2, <2>3, <2>4 DEF Writes
<1>. QED
  BY <1>8, <1>9, <1>10, <1>11, <1>12, <1>13 DEF StepOf

LEMMA TokensStep ==
    ASSUME StoreTyped, Copies, TokensUnique, RevokedStaysRevoked, StoreNext
    PROVE  TokensUnique' /\ RevokedStaysRevoked'
<1>. PICK c \in Clients, q \in Requests : req' = [req EXCEPT ![c] = q] /\ StepOf(c, q)
  BY StoreSteps
<1>0. /\ wf \in Workflow /\ wf.token \in Nat /\ lastToken \in Nat /\ lastToken' \in Nat
      /\ req \in [Clients -> Requests]
      /\ \A d \in Clients : req[d].copy.token \in Nat /\ req[d].base.token \in Nat
      /\ \A t \in revoked : t \in Nat
      /\ q.copy.token \in Nat /\ q.base.token \in Nat
  <2>1. StoreTyped'
    BY StoreTypedStep
  <2>. QED
    BY <2>1, WorkflowFields DEF StoreTyped, StoreTypeOK, Requests, Tokens
<1>1. req'[c] = q /\ \A d \in Clients \ {c} : req'[d] = req[d]
  BY <1>0
<1>2. /\ wf.token <= lastToken /\ \A t \in revoked : 0 < t /\ t <= lastToken
      /\ \A d \in Clients : req[d].copy.token <= lastToken /\ req[d].base.token <= lastToken
  BY DEF TokensUnique
<1>3. \A d \in Clients : req[d].copy.token \notin {0, req[d].base.token} =>
         /\ req[d].copy.token \notin revoked \cup {wf.token}
         /\ \A e \in Clients \ {d} : req[d].copy.token \notin {req[e].copy.token, req[e].base.token}
  BY DEF TokensUnique, Fresh
\* What is left to show: the tokens of the row and of the request.
<1>4. ASSUME lastToken <= lastToken', wf'.token <= lastToken', q.copy.token <= lastToken', q.base.token <= lastToken',
             revoked' \subseteq revoked \cup ({wf.token} \ {0}),
             q.copy.token \notin {0, q.base.token} => q.copy.token = lastToken + 1 /\ wf'.token = wf.token,
             q.copy.token \in {0, lastToken + 1, wf.token, wf'.token},
             q.base.token \in {0, wf.token, wf'.token, req[c].base.token},
             wf'.token \in {0, wf.token, req[c].copy.token}
      PROVE  TokensUnique'
  <2>1. \A t \in revoked' : 0 < t /\ t <= lastToken'
    BY <1>0, <1>2, <1>4
  <2>2. ASSUME NEW d \in Clients \ {c}, req[d].copy.token \notin {0, req[d].base.token}
        PROVE  /\ req[d].copy.token \notin revoked' \cup {wf'.token}
               /\ req[d].copy.token \notin {q.copy.token, q.base.token}
    <3>1. req[d].copy.token \notin revoked \cup {wf.token} /\ req[d].copy.token \notin {req[c].copy.token, req[c].base.token}
      BY <1>3, <2>2
    <3>2. req[d].copy.token # lastToken + 1
      BY <1>0, <1>2
    <3>. QED
      BY <1>4, <2>2, <3>1, <3>2
  <2>3. ASSUME q.copy.token \notin {0, q.base.token}
        PROVE  /\ q.copy.token \notin revoked' \cup {wf'.token}
               /\ \A d \in Clients \ {c} : q.copy.token \notin {req[d].copy.token, req[d].base.token}
    BY <1>0, <1>2, <1>4, <2>3
  <2>4. \A d \in Clients : req'[d].copy.token <= lastToken' /\ req'[d].base.token <= lastToken'
    BY <1>0, <1>1, <1>2, <1>4
  <2>5. \A d \in Clients : req'[d].copy.token \notin {0, req'[d].base.token} =>
           /\ req'[d].copy.token \notin revoked' \cup {wf'.token}
           /\ \A e \in Clients \ {d} : req'[d].copy.token \notin {req'[e].copy.token, req'[e].base.token}
    BY <1>1, <1>3, <2>2, <2>3
  <2>. QED
    BY <1>4, <2>1, <2>4, <2>5 DEF TokensUnique, Fresh
\* Steps that do not write the row.
<1>5. ASSUME UNCHANGED <<wf, revoked, raced>>, lastToken <= lastToken', q.copy.token <= lastToken',
             q.copy.token \in {0, lastToken + 1, wf.token}, q.base.token \in {0, wf.token, req[c].base.token},
             q.copy.token = wf.token => q.copy.token \in {0, q.base.token}
      PROVE  TokensUnique' /\ RevokedStaysRevoked'
  <2>1. RevokedStaysRevoked'
    BY <1>5 DEF RevokedStaysRevoked
  <2>2. wf.token <= lastToken' /\ q.base.token <= lastToken'
    BY <1>0, <1>2, <1>5
  <2>. QED
    BY <1>4, <1>5, <2>1, <2>2
<1>6. CASE GivesUp(q) \/ RecordsFirst(c, q)
  BY <1>0, <1>5, <1>6, NoWorkflowTyped DEF GivesUp, RecordsFirst, Counters
<1>7. CASE TakesCopy(q)
  <2>1. /\ UNCHANGED <<wf, revoked, raced, lastToken>> /\ q.copy.token = wf.token /\ q.base.token = wf.token
    BY <1>7 DEF TakesCopy, Counters
  <2>. QED
    BY <1>0, <1>2, <1>5, <2>1
<1>8. CASE TakesToggled(q) \/ Redefines(c, q)
  <2>1. /\ UNCHANGED <<wf, revoked, raced>> /\ lastToken' >= lastToken /\ q.copy.token <= lastToken'
        /\ q.copy.token \in {0, lastToken + 1} /\ q.base.token \in {wf.token, req[c].base.token}
    BY <1>8 DEF TakesToggled, Redefines, Archives, Mints
  <2>2. q.copy.token = wf.token => q.copy.token = 0
    BY <1>0, <1>2, <2>1
  <2>. QED
    BY <1>0, <1>5, <2>1, <2>2
<1>9. CASE Creates(q)
  <2>1. /\ wf'.token = 0 /\ q.copy.token = 0 /\ q.base.token = 0 /\ UNCHANGED <<revoked, raced, lastToken>>
    BY <1>9 DEF Creates, Counters
  <2>2. RevokedStaysRevoked'
    BY <1>2, <2>1 DEF RevokedStaysRevoked
  <2>. QED
    BY <1>0, <1>4, <2>1, <2>2
<1>10. CASE Writes(c, q)
  <2>1. /\ q = Idle /\ q.copy.token = 0 /\ q.base.token = 0 /\ UNCHANGED lastToken
        /\ revoked' = IF wf.token \notin {0, wf'.token} THEN revoked \cup {wf.token} ELSE revoked
        /\ raced' = (raced \/ req[c].base # wf)
        /\ wf'.token \in {0, req[c].copy.token}
    BY <1>10, NoWorkflowTyped DEF Writes, Write
  <2>2. RevokedStaysRevoked'
    <3>. SUFFICES ASSUME ~raced' PROVE wf'.token \notin revoked'
      BY DEF RevokedStaysRevoked
    <3>1. ~raced /\ req[c].base = wf /\ wf.token \notin revoked
      BY <2>1 DEF RevokedStaysRevoked
    <3>2. CASE wf'.token = 0
      BY <1>0, <1>2, <2>1, <3>2
    <3>3. CASE wf'.token = wf.token
      BY <2>1, <3>1, <3>3
    <3>4. CASE wf'.token = req[c].copy.token /\ req[c].copy.token \notin {0, req[c].base.token}
      BY <1>3, <2>1, <3>4
    <3>. QED
      BY <2>1, <3>1, <3>2, <3>3, <3>4
  <2>3. revoked' \subseteq revoked \cup ({wf.token} \ {0})
    BY <2>1
  <2>4. wf'.token <= lastToken'
    BY <1>0, <1>2, <2>1
  <2>. QED
    BY <1>0, <1>4, <2>1, <2>2, <2>3, <2>4
<1>. QED
  BY <1>6, <1>7, <1>8, <1>9, <1>10 DEF StepOf

LEMMA StoreInitInv == StoreInit => StoreInv
<1>. SUFFICES ASSUME StoreInit PROVE StoreInv
  OBVIOUS
<1>1. /\ wf = NoWorkflow /\ snapshots = <<>> /\ lastToken = 0 /\ revoked = {} /\ raced = FALSE
      /\ req = [c \in Clients |-> Idle] /\ \A c \in Clients : req[c] = Idle
  BY DEF StoreInit
<1>2. StoreTyped
  <2>1. req \in [Clients -> Requests] /\ wf \in Workflow
    BY <1>1, NoWorkflowTyped
  <2>2. snapshots \in Seq(Snapshot) /\ Len(snapshots) <= MaxSnapshots
    BY <1>1, LimitsAssumption
  <2>3. lastToken \in Tokens
    BY <1>1, LimitsAssumption DEF Tokens
  <2>. QED
    BY <1>1, <2>1, <2>2, <2>3 DEF StoreTyped, StoreTypeOK, Requests
<1>3. Copies
  BY <1>1, NoWorkflowTyped DEF Copies, There
<1>4. HistoryKept /\ BasesKept
  BY <1>1, NoWorkflowTyped DEF HistoryKept, BasesKept, KeptBelow, There
<1>5. TokensUnique /\ RevokedStaysRevoked
  BY <1>1, NoWorkflowTyped DEF TokensUnique, RevokedStaysRevoked, Fresh
<1>. QED
  BY <1>2, <1>3, <1>4, <1>5 DEF StoreInv

LEMMA StoreInvStep == StoreInv /\ [StoreNext]_storeVars => StoreInv'
<1>1. CASE UNCHANGED storeVars
  BY <1>1 DEF storeVars, StoreInv, StoreTyped, StoreTypeOK, Copies, HistoryKept, KeptBelow, Kept, BasesKept, Archived,
     TokensUnique, Fresh, RevokedStaysRevoked, There
<1>2. CASE StoreNext
  BY <1>2, StoreTypedStep, HistoryStep, TokensStep DEF StoreInv
<1>. QED
  BY <1>1, <1>2

\* Through the statements of any number of racing requests, the row, the history,
\* the copies and the tokens keep to the invariant.
THEOREM StoreInvariance == StoreSpec => []StoreInv
<1>. QED
  BY StoreInitInv, StoreInvStep, PTL DEF StoreSpec

\* The tables hold what the schema says; a deleted workflow has no history.
THEOREM StoreTypeCorrect == StoreSpec => []StoreTypeOK
<1>1. StoreInv => StoreTypeOK
  BY DEF StoreInv, StoreTyped
<1>. QED
  BY <1>1, StoreInvariance, PTL

\* However updates race and stop half way, no version before the current one is
\* missing from the history.
THEOREM HistoryIsContiguous == StoreSpec => []HistoryContiguous
<1>1. StoreInv => HistoryContiguous
  BY DEF StoreInv, HistoryKept, KeptBelow, HistoryContiguous
<1>. QED
  BY <1>1, StoreInvariance, PTL

\* While no stale copy has been written, a webhook token once given up is never
\* listened on again.
THEOREM RevokedTokensStayRevoked == StoreSpec => []RevokedStaysRevoked
<1>1. StoreInv => RevokedStaysRevoked
  BY DEF StoreInv
<1>. QED
  BY <1>1, StoreInvariance, PTL

\* While no stale copy has been written, a definition that is overwritten is in
\* the history under its version.
THEOREM ReplacedDefinitionsAreKept == StoreSpec => ReplacedIsKept
<1>1. ASSUME StoreInv, StoreNext PROVE OverwrittenIsKept
  <2>. SUFFICES ASSUME There, wf'.st = "there", wf'.def # wf.def, ~raced'
                PROVE  \E n \in DOMAIN snapshots' : snapshots'[n] = [version |-> wf.version, def |-> wf.def]
    BY DEF OverwrittenIsKept
  <2>1. PICK c \in Clients, q \in Requests : StepOf(c, q)
    BY <1>1, StoreSteps DEF StoreInv
  <2>2. Writes(c, q)
    BY <2>1 DEF StepOf, GivesUp, TakesCopy, TakesToggled, Creates, Redefines, Archives, RecordsFirst, There
  <2>3. req[c].op = "save" /\ wf' = req[c].copy /\ UNCHANGED snapshots /\ req[c].base = wf
    BY <2>2, NoWorkflowTyped DEF Writes, Write
  <2>4. Archived(wf)
    BY <1>1, <2>3 DEF StoreInv, BasesKept
  <2>. QED
    BY <2>3, <2>4 DEF Archived
<1>2. StoreInv /\ [StoreNext]_storeVars => [OverwrittenIsKept]_storeVars
  BY <1>1
<1>. QED
  BY <1>2, StoreInvariance, PTL DEF StoreSpec, ReplacedIsKept
=============================================================================
