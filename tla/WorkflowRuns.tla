---------------------------- MODULE WorkflowRuns ----------------------------
(***************************************************************************)
(* Runs of one workflow: the cron scheduler (internal/workflow/trigger),   *)
(* the engine that walks the graph (internal/workflow/exec), cancellation, *)
(* deletion of the workflow, and crash and restart of the process.         *)
(*                                                                         *)
(* The graph is abstracted to how many nodes are still to be visited, and  *)
(* a cron expression to "may match any minute".  Bounds: RunIds runs,      *)
(* MaxMinute minutes, MaxNodes node visits per run.                        *)
(***************************************************************************)
EXTENDS Integers, FiniteSets

CONSTANTS RunIds, MaxMinute, MaxNodes
ASSUME RunsAssumption == MaxMinute \in Nat \ {0} /\ MaxNodes \in Nat \ {0}

VARIABLES
    there,          \* the row of workflows exists
    active,         \* is_active, with a schedule trigger
    fired,          \* last_fired_at, as a minute; 0: NULL
    minute,         \* the clock
    up,             \* the process runs
    seen,           \* Scheduler.seen: last minute dispatched, in memory; 0: none
    tick,           \* the scheduler's tick: "idle", or where it is in the dispatch
    launches,       \* minutes whose goroutine has started and has no run row yet
    run             \* per run id: its row and the goroutine that walks it

vars == <<there, active, fired, minute, up, seen, tick, launches, run>>

Terminal == {"success", "failed", "cancelled", "timed_out"}
Statuses == {"none", "running", "gone"} \cup Terminal

\* at: where the goroutine is ("check" before a node, "node" in one, "end" with
\* an outcome to record, "off" when there is none); minute 0: not scheduled;
\* late (history): nodes started after the cancellation.
Run == [status : Statuses, at : {"off", "check", "node", "end"}, outcome : Terminal \cup {"none"},
        minute : 0 .. MaxMinute, visited : 0 .. MaxNodes, late : 0 .. MaxNodes + 1]
NoRun == [status |-> "none", at |-> "off", outcome |-> "none",
          minute |-> 0, visited |-> 0, late |-> 0]
IdleTick == [pc |-> "idle", minute |-> 0]

\* Tables and memory are well formed; what lives in memory lives with the process.
RunsTypeOK ==
    /\ {there, active, up} \subseteq BOOLEAN
    /\ {fired, minute, seen} \subseteq 0 .. MaxMinute
    /\ tick \in [pc : {"idle", "list", "read", "mark"}, minute : 0 .. MaxMinute]
    /\ launches \subseteq 1 .. MaxMinute
    /\ run \in [RunIds -> Run]
    /\ ~up => /\ seen = 0 /\ tick = IdleTick /\ launches = {}
              /\ \A r \in RunIds : run[r].at = "off"

RunsInit ==
    /\ there = TRUE /\ active = FALSE /\ fired = 0
    /\ minute = 1 /\ up = TRUE
    /\ seen = 0 /\ tick = IdleTick /\ launches = {}
    /\ run = [r \in RunIds |-> NoRun]

-----------------------------------------------------------------------------
(* The workflow row, as the editor's requests change it (WorkflowStore).    *)

Toggle ==
    /\ there
    /\ active' = ~active
    /\ UNCHANGED <<there, fired, minute, up, seen, tick, launches, run>>

\* The rows of the runs are cascaded; their goroutines go on.  A workflow that was
\* activated after the handler looked is deleted all the same.
DeleteWorkflow ==
    /\ there
    /\ there' = FALSE
    /\ run' = [r \in RunIds |-> IF run[r].status = "none" THEN run[r]
                                ELSE [run[r] EXCEPT !.status = "gone"]]
    /\ UNCHANGED <<active, fired, minute, up, seen, tick, launches>>

NextMinute ==
    /\ minute < MaxMinute
    /\ minute' = minute + 1
    /\ UNCHANGED <<there, active, fired, up, seen, tick, launches, run>>

-----------------------------------------------------------------------------
(* Scheduler.tick: list the active schedules, check the memory, check the   *)
(* row, stamp the row, start a goroutine.  One tick at a time.              *)

\* The ticker hands over its time; the clock may go on before the list is read.
TickFire ==
    /\ up /\ tick = IdleTick
    /\ tick' = [pc |-> "list", minute |-> minute]
    /\ UNCHANGED <<there, active, fired, minute, up, seen, launches, run>>

\* The memory is started afresh when it holds a thousand other workflows, and may
\* have forgotten the minute.
alreadyDispatched(m) == {seen = m, FALSE}

\* The active schedules are listed, and the one that matches is looked up in memory.
TickList ==
    /\ tick.pc = "list"
    /\ \E dispatched \in alreadyDispatched(tick.minute) :
         IF there /\ active /\ ~dispatched
         THEN tick' = [tick EXCEPT !.pc = "read"] /\ seen' = tick.minute
         ELSE tick' = IdleTick /\ UNCHANGED seen
    /\ UNCHANGED <<there, active, fired, minute, up, launches, run>>

\* Fault: the persisted stamp is not looked at.
TickReadNothing ==
    /\ tick.pc = "read"
    /\ tick' = [tick EXCEPT !.pc = "mark"]
    /\ UNCHANGED <<there, active, fired, minute, up, seen, launches, run>>

\* A deleted workflow reads as never fired.
GetLastFiredAt == IF there THEN fired ELSE 0

TickRead ==
    /\ tick.pc = "read"
    /\ tick' = IF GetLastFiredAt = tick.minute THEN IdleTick ELSE [tick EXCEPT !.pc = "mark"]
    /\ UNCHANGED <<there, active, fired, minute, up, seen, launches, run>>

\* MarkScheduleFired, then the goroutine.
TickMark ==
    /\ tick.pc = "mark"
    /\ fired' = IF there THEN tick.minute ELSE fired
    /\ launches' = launches \cup {tick.minute}
    /\ tick' = IdleTick
    /\ UNCHANGED <<there, active, minute, up, seen, run>>

\* A statement of the tick fails; once in memory, the minute is not tried again.
TickError ==
    /\ tick.pc \in {"list", "read", "mark"}
    /\ tick' = IdleTick
    /\ UNCHANGED <<there, active, fired, minute, up, seen, launches, run>>

-----------------------------------------------------------------------------
(* Engine. *)

Update(r, new) ==
    /\ run' = [run EXCEPT ![r] = new]
    /\ UNCHANGED <<there, active, fired, minute, up, seen, tick>>

Started(m) == [NoRun EXCEPT !.status = "running", !.at = "check", !.minute = m]

\* Execute, for the scheduler: CreateRun.  The insert fails when the workflow is
\* gone; is_active is not looked at again.
Launch ==
    \E m \in launches :
        /\ launches' = launches \ {m}
        /\ \/ /\ there
              /\ \E r \in RunIds : run[r] = NoRun /\ Update(r, Started(m))
           \/ UNCHANGED <<there, active, fired, minute, up, seen, tick, run>>

\* The row of the run, then its goroutine.
ExecuteAsync(r) ==
    /\ run[r] = NoRun
    /\ Update(r, Started(0))
    /\ UNCHANGED launches

runWorkflow(r) == up /\ there /\ ExecuteAsync(r)

\* A workflow with a webhook has no schedule.
webhook(r) == up /\ there /\ ~active /\ ExecuteAsync(r)

End(r, outcome) == Update(r, [run[r] EXCEPT !.at = "end", !.outcome = outcome])

\* Fault: the flag is not polled.
WalkCheckTimeOnly(r) ==
    /\ run[r].at = "check"
    /\ End(r, "timed_out") \/ Update(r, [run[r] EXCEPT !.at = "node"])
    /\ UNCHANGED launches

\* How a walk may stop early: an error, the time limit, and, for a scheduled run,
\* whose context is the scheduler's, the shutdown of the process.
Interruptions(r) == {"failed", "timed_out"} \cup (IF run[r].minute = 0 THEN {} ELSE {"cancelled"})

\* walk, at the head of the loop: the context, then the cancelled flag.
WalkCheck(r) ==
    /\ run[r].at = "check"
    /\ \/ \E outcome \in Interruptions(r) : End(r, outcome)
       \/ run[r].status = "cancelled" /\ End(r, "cancelled")
       \/ run[r].status # "cancelled" /\ Update(r, [run[r] EXCEPT !.at = "node"])
    /\ UNCHANGED launches

\* Nodes visited after the cancellation, the one at hand included.
LateBy(r) == IF run[r].status = "cancelled" THEN run[r].late + 1 ELSE run[r].late

\* The row of a step needs that of its run.
CreateStep(r) == run[r].status # "gone"

\* executeNode: the step row, and the node's effect.
StartNode(r) ==
    /\ run[r].at = "node" /\ run[r].visited < MaxNodes
    /\ IF ~CreateStep(r) THEN End(r, "failed")
       ELSE Update(r, [run[r] EXCEPT !.at = "check", !.visited = @ + 1, !.late = LateBy(r)])
    /\ UNCHANGED launches

\* What a node makes of its run: it goes on, or the configuration, the action or a
\* delay that is cut short ends it.
runNode(r) == {"success"} \cup Interruptions(r)

\* The queue is empty after the node, or the node fails.
LastNode(r) ==
    /\ run[r].at = "node"
    /\ \E outcome \in runNode(r) :
         Update(r, [run[r] EXCEPT !.at = "end", !.outcome = outcome, !.late = LateBy(r)])
    /\ UNCHANGED launches

\* Fault: the status is written whatever it is.
FinishRunAlways(r, outcome) ==
    [run[r] EXCEPT !.at = "off", !.outcome = "none",
                   !.status = IF run[r].status = "gone" THEN "gone" ELSE outcome]

\* FinishRun: only a running row changes.
FinishRun(r, outcome) ==
    [run[r] EXCEPT !.at = "off", !.outcome = "none",
                   !.status = IF run[r].status = "running" THEN outcome ELSE @]

Finish(r) ==
    /\ run[r].at = "end"
    /\ Update(r, FinishRun(r, run[r].outcome))
    /\ UNCHANGED launches

\* Fault: the goroutine of an asynchronous run dies silently.
PanicUnrecorded(r) ==
    /\ run[r].at = "node"
    /\ Update(r, [run[r] EXCEPT !.at = "off"])
    /\ UNCHANGED launches

\* A node panics.  runDetached records the failure; Execute does not, and the
\* row of a scheduled run stays "running" until the next start.
Panic(r) ==
    /\ run[r].at = "node"
    /\ Update(r, IF run[r].minute = 0 THEN FinishRun(r, "failed")
                 ELSE [run[r] EXCEPT !.at = "off"])
    /\ UNCHANGED launches

\* CancelRun: the row is marked, the walk is not interrupted.
CancelRun(r) ==
    /\ up /\ run[r].status = "running"
    /\ Update(r, [run[r] EXCEPT !.status = "cancelled"])
    /\ UNCHANGED launches

-----------------------------------------------------------------------------
(* The process. *)

Crash ==
    /\ up
    /\ up' = FALSE
    /\ seen' = 0 /\ tick' = IdleTick /\ launches' = {}
    /\ run' = [r \in RunIds |-> [run[r] EXCEPT !.at = "off", !.outcome = "none"]]
    /\ UNCHANGED <<there, active, fired, minute>>

\* ReapStaleRunning, before the scheduler and the HTTP server start.
Restart ==
    /\ ~up
    /\ up' = TRUE
    /\ run' = [r \in RunIds |-> IF run[r].status = "running"
                                THEN [run[r] EXCEPT !.status = "failed"] ELSE run[r]]
    /\ UNCHANGED <<there, active, fired, minute, seen, tick, launches>>

Engine(r) == WalkCheck(r) \/ StartNode(r) \/ LastNode(r) \/ Finish(r) \/ Panic(r)

RunsNext ==
    \/ Toggle \/ DeleteWorkflow \/ NextMinute
    \/ TickFire \/ TickList \/ TickRead \/ TickMark \/ TickError
    \/ Launch
    \/ \E r \in RunIds : runWorkflow(r) \/ webhook(r) \/ CancelRun(r) \/ Engine(r)
    \/ Crash \/ Restart

\* A goroutine goes on, since every node has a time limit, and the supervisor
\* starts a dead process again.
RunsFairness == WF_vars(Restart) /\ \A r \in RunIds : WF_vars(Engine(r))

RunsSpec == RunsInit /\ [][RunsNext]_vars /\ RunsFairness

-----------------------------------------------------------------------------
(* Properties. *)

\* A scheduled minute runs at most once, across ticks, restarts and errors; nor
\* is a goroutine on its way to run it again.
OncePerMinute ==
    /\ \A q, r \in RunIds : (run[q].minute # 0 /\ run[q].minute = run[r].minute) => q = r
    /\ there => \A r \in RunIds : run[r].minute \notin launches

\* After a cancellation at most one more node is visited: the one whose check
\* was already past.
CancelStopsWalk == \A r \in RunIds : run[r].late <= 1

\* A run shown as running is being walked, or waits for the restart that fails
\* it; the exception is a scheduled run whose node panicked.
RunningIsWalked ==
    \A r \in RunIds :
        (up /\ run[r].status = "running" /\ run[r].minute = 0) => run[r].at # "off"

\* A verdict is final: success, failure, time-out or cancellation of a run is
\* never replaced by another, whoever finishes it second.
VerdictStands ==
    \A r \in RunIds : run[r].status \in Terminal => run'[r].status \in {run[r].status, "gone"}
VerdictIsFinal == [][VerdictStands]_vars

\* Every manual or webhook run comes to an end, whatever its nodes do and
\* however often the process dies.
AsyncRunsEnd ==
    \A r \in RunIds : (run[r].status = "running" /\ run[r].minute = 0)
                      ~> (run[r].status # "running")
=============================================================================
