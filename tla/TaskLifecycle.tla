----------------------------- MODULE TaskLifecycle -----------------------------
(***************************************************************************)
(* The production task system of one crane: its queue (task_queue.py), the  *)
(* attach/release state machine (task_state_machine.py) and the timeouts and *)
(* recoveries (task_failure.py), in the order ProductionTaskSystem calls     *)
(* them.  The queues of two cranes share nothing, so one queue is the whole  *)
(* component.                                                               *)
(*                                                                          *)
(* A frame is three steps in a fixed order: ActivateDueTasks at the frame's  *)
(* time, then, one dt later, one step of the state machine, then the         *)
(* handling of timeouts and failures.  The clock counts frames.              *)
(*                                                                          *)
(* Geometry is reduced to what the code asks of it: `ok`, whether the test   *)
(* the current stage makes of hook position, height, speed and capacity      *)
(* succeeds after this frame's physics, and `moved`, whether the hook went   *)
(* at least no_progress_xy_epsilon_m since the previous frame.               *)
(***************************************************************************)
EXTENDS Integers, Sequences, FiniteSets

CONSTANTS
    Ordinary,            \* how many ordinary tasks the queue starts with
    PlannedStart,        \* planned_start_s of each, or NoTime
    Deadline,            \* deadline_s of each, or NoTime
    Unrecoverable,       \* the tasks whose dropoff is no usable recovery target
    InterTaskDelay,      \* queue_policy.inter_task_delay_s
    AttachDelay, ReleaseDelay,
    AttachTimeout, ReleaseTimeout, NoProgressTimeout, RecoveryTimeout,
    Duration             \* the episode's duration: its scheduler runs no frame after it

NoTime == -1
Time   == Nat \cup {NoTime}
NoTask == 0

ASSUME CountAssumption    == Ordinary \in Nat \ {0}
ASSUME ScheduleAssumption == /\ PlannedStart \in [1..Ordinary -> Time]
                             /\ Deadline \in [1..Ordinary -> Time]
                             /\ Unrecoverable \subseteq 1..Ordinary
ASSUME PeriodAssumption   == /\ InterTaskDelay \in Nat /\ Duration \in Nat
                             /\ AttachDelay \in Nat /\ ReleaseDelay \in Nat
                             /\ AttachTimeout \in Nat /\ ReleaseTimeout \in Nat
                             /\ NoProgressTimeout \in Nat /\ RecoveryTimeout \in Nat

Statuses == {"pending", "active", "completed", "failed"}
AttachStages  == {"move_to_pickup", "align_pickup", "lower_for_attach", "attach_pending"}
ReleaseTimed  == {"move_to_dropoff", "align_dropoff", "lower_for_release", "release_pending"}
ReleaseStages == ReleaseTimed \cup {"recovery_release"}
CarryStages   == ReleaseStages \cup {"lift_load"}
Stages  == {"idle"} \cup AttachStages \cup CarryStages
Actions == {"none", "request_attach", "request_release"}
Requests == {"none", "failed_invalid_state", "failed_recovery_blocked",
             "failed_recovery_timeout"}

(* The stages left as soon as their geometric test succeeds, and their successors. *)
Successor == [move_to_pickup  |-> "align_pickup",
              align_pickup    |-> "lower_for_attach",
              lift_load       |-> "move_to_dropoff",
              move_to_dropoff |-> "align_dropoff",
              align_dropoff   |-> "lower_for_release"]

TaskRecord == [kind : {"ordinary", "recovery_release"}, status : Statuses,
               plannedStart : Time, startedAt : Time, endedAt : Time,
               deadline : Time, deadlineMissed : BOOLEAN,
               dropoffUsable : BOOLEAN, source : Nat]

VARIABLES
    now,            \* the frame's sim_time, in frames
    phase,          \* the next call of the frame: "activate", "machine" or "timing"
    tasks,          \* TaskQueue.tasks; a task's id is its index, a recovery is appended
    activeTask,     \* TaskQueue.active_task_id
    nextTask,       \* TaskQueue.next_task_index, counted from 1
    readyAfter,     \* TaskQueue.ready_after_s
    blocked,        \* TaskQueue.blocked_by_recovery
    stage,          \* CraneState.task_stage
    attached,       \* CraneState.load_attached
    stateTask,      \* CraneState.task_id
    machineRuntime, \* state_machine_runtime: the entry last written, and its key
    failureRuntime, \* failure_runtime: the entry last written, and its key
    signature,      \* _last_progress_signature: the entry last written, and its key
    handled,        \* the task update_after_physics is working on
    request         \* the last episode_failure_request

queueVars   == <<tasks, activeTask, nextTask, readyAfter, blocked>>
craneVars   == <<stage, attached, stateTask>>
runtimeVars == <<machineRuntime, failureRuntime, signature>>
vars == <<now, phase, queueVars, craneVars, runtimeVars, handled, request>>

NewTask(i) == [kind |-> "ordinary", status |-> "pending",
               plannedStart |-> PlannedStart[i], startedAt |-> NoTime, endedAt |-> NoTime,
               deadline |-> Deadline[i], deadlineMissed |-> FALSE,
               dropoffUsable |-> i \notin Unrecoverable, source |-> NoTask]

Init ==
    /\ now = 0 /\ phase = "activate"
    /\ tasks = [i \in 1..Ordinary |-> NewTask(i)]
    /\ activeTask = NoTask /\ nextTask = 1 /\ readyAfter = 0 /\ blocked = FALSE
    /\ stage = "idle" /\ attached = FALSE /\ stateTask = NoTask
    /\ machineRuntime = [task |-> NoTask, attachAt |-> NoTime, releaseAt |-> NoTime]
    /\ failureRuntime = [task |-> NoTask, releaseStageAt |-> NoTime,
                         progressAt |-> NoTime, recoveryAt |-> NoTime]
    /\ signature = [task |-> NoTask, stage |-> "idle"]
    /\ handled = NoTask /\ request = "none"

TaskIds == 1..Len(tasks)
Current == tasks[activeTask]
Recovering == Current.kind = "recovery_release"

(* The scheduler ends the episode on these two requests and at its duration; *)
(* it knows no other request.                                               *)
EpisodeOver == \/ request \in {"failed_recovery_blocked", "failed_recovery_timeout"}
               \/ phase = "activate" /\ now >= Duration

--------------------------------------------------------------------------------
(* activate_due_tasks *)

(* Mutants: a queue that forgets its slot, or the status of the next task. *)
CanActivateBesideActive ==
    /\ ~blocked /\ nextTask <= Len(tasks) /\ now >= readyAfter
    /\ tasks[nextTask].status = "pending"
CanActivateFinished ==
    /\ ~blocked /\ activeTask = NoTask /\ nextTask <= Len(tasks) /\ now >= readyAfter

CanActivate ==
    /\ ~blocked
    /\ activeTask = NoTask
    /\ nextTask <= Len(tasks)
    /\ now >= readyAfter
    /\ tasks[nextTask].status = "pending"
    /\ tasks[nextTask].plannedStart # NoTime => now >= tasks[nextTask].plannedStart

StartedTask == [tasks[nextTask] EXCEPT !.status = "active", !.startedAt = now]

(* schedule_task_queues starts the next task of the queue when it may. *)
ActivateTask ==
    /\ phase = "activate" /\ ~EpisodeOver /\ CanActivate
    /\ tasks' = [tasks EXCEPT ![nextTask] = StartedTask]
    /\ activeTask' = nextTask
    /\ nextTask' = nextTask + 1
    /\ stage' = "move_to_pickup"
    /\ stateTask' = nextTask
    /\ phase' = "machine"
    /\ UNCHANGED <<now, readyAfter, blocked, attached, runtimeVars, handled, request>>

ActivateNothing ==
    /\ phase = "activate" /\ ~EpisodeOver /\ ~CanActivate
    /\ phase' = "machine"
    /\ UNCHANGED <<now, queueVars, craneVars, runtimeVars, handled, request>>

--------------------------------------------------------------------------------
(* update_after_physics, first half: step_task_state_machine on the active task *)

(* state_machine_runtime.get(task_id, TaskRuntimeState()).  Ids of earlier   *)
(* tasks are never looked up again, so one entry is all the dict remembers.  *)
MachineRuntimeOf(i) ==
    IF machineRuntime.task = i THEN machineRuntime
    ELSE [task |-> i, attachAt |-> NoTime, releaseAt |-> NoTime]

(* failure_runtime.get(task_id, TaskFailureRuntimeState(last_progress_at_s=started_at)) *)
FailureRuntimeOf(i) ==
    IF failureRuntime.task = i THEN failureRuntime
    ELSE [task |-> i, releaseStageAt |-> NoTime,
          progressAt |-> tasks[i].startedAt, recoveryAt |-> NoTime]

(* _hook_progressed: same stage as in the previous frame, and far enough from there. *)
HookProgressed(i, s, moved) ==
    signature.task = i /\ signature.stage = s /\ moved

(* _advance_failure_runtime_for_progress, after the state machine reached stage s. *)
AdvancedRuntime(i, s, progressed, moved) ==
    LET kept == FailureRuntimeOf(i) IN
    [task |-> i,
     releaseStageAt |-> IF s \in ReleaseStages /\ kept.releaseStageAt = NoTime
                        THEN now + 1 ELSE kept.releaseStageAt,
     progressAt |-> IF progressed \/ HookProgressed(i, s, moved)
                    THEN now + 1 ELSE kept.progressAt,
     recoveryAt |-> kept.recoveryAt]

(* What every step of the state machine does besides its own change: physics *)
(* moved the clock on, and the task's progress record follows stage s.       *)
MachineStep(s, progressed, moved) ==
    /\ phase = "machine" /\ activeTask # NoTask
    /\ now' = now + 1
    /\ stage' = s
    /\ failureRuntime' = AdvancedRuntime(activeTask, s, progressed, moved)
    /\ signature' = [task |-> activeTask, stage |-> s]
    /\ handled' = activeTask
    /\ phase' = "timing"
    /\ UNCHANGED <<nextTask, readyAfter, blocked, request>>

(* A request outside its stages returns before any stage is looked at. *)
WrongStage(a) ==
    \/ a = "request_attach" /\ stage \notin {"lower_for_attach", "attach_pending"}
    \/ a = "request_release"
       /\ stage \notin {"lower_for_release", "recovery_release", "release_pending"}

(* _attach_rejection_reason and _release_rejection_reason are None. *)
AttachAllowed(ok)  == ~attached /\ ok
ReleaseAllowed(ok) == attached /\ ok

CanAdvance(a, ok) ==
    /\ ~WrongStage(a) /\ ok /\ stage \in DOMAIN Successor
    /\ stage = "align_dropoff" => attached
CanStartAttach(a, ok) ==
    stage = "lower_for_attach" /\ a = "request_attach" /\ AttachAllowed(ok)
CanStartRelease(a, ok) ==
    /\ stage \in {"lower_for_release", "recovery_release"}
    /\ a = "request_release" /\ ReleaseAllowed(ok)
InPending(a) == stage \in {"attach_pending", "release_pending"} /\ ~WrongStage(a)
PendingAllowed(ok) ==
    IF stage = "attach_pending" THEN AttachAllowed(ok) ELSE ReleaseAllowed(ok)
DelayPassed ==
    LET rt == MachineRuntimeOf(activeTask)
        since == IF stage = "attach_pending" THEN rt.attachAt ELSE rt.releaseAt
        delay == IF stage = "attach_pending" THEN AttachDelay ELSE ReleaseDelay
    IN  since # NoTime /\ (now + 1) - since >= delay
CanSettle(a, ok) == InPending(a) /\ PendingAllowed(ok) /\ DelayPassed

AdvanceStage(a, ok, moved) ==
    /\ CanAdvance(a, ok)
    /\ MachineStep(Successor[stage], TRUE, moved)
    /\ machineRuntime' = MachineRuntimeOf(activeTask)
    /\ UNCHANGED <<tasks, activeTask, attached, stateTask>>

StartAttach(a, ok, moved) ==
    /\ CanStartAttach(a, ok)
    /\ MachineStep("attach_pending", TRUE, moved)
    /\ machineRuntime' = [MachineRuntimeOf(activeTask) EXCEPT !.attachAt = now + 1]
    /\ UNCHANGED <<tasks, activeTask, attached, stateTask>>

StartRelease(a, ok, moved) ==
    /\ CanStartRelease(a, ok)
    /\ MachineStep("release_pending", TRUE, moved)
    /\ machineRuntime' = [MachineRuntimeOf(activeTask) EXCEPT !.releaseAt = now + 1]
    /\ UNCHANGED <<tasks, activeTask, attached, stateTask>>

(* The crane drifted away while the attach or release was pending. *)
CancelAttach(a, ok, moved) ==
    /\ stage = "attach_pending" /\ ~WrongStage(a) /\ ~AttachAllowed(ok)
    /\ MachineStep("lower_for_attach", TRUE, moved)
    /\ machineRuntime' = [MachineRuntimeOf(activeTask) EXCEPT !.attachAt = NoTime]
    /\ UNCHANGED <<tasks, activeTask, attached, stateTask>>

CancelRelease(a, ok, moved) ==
    /\ stage = "release_pending" /\ ~WrongStage(a) /\ ~ReleaseAllowed(ok)
    /\ MachineStep(IF Recovering THEN "recovery_release" ELSE "lower_for_release",
                   TRUE, moved)
    /\ machineRuntime' = [MachineRuntimeOf(activeTask) EXCEPT !.releaseAt = NoTime]
    /\ UNCHANGED <<tasks, activeTask, attached, stateTask>>

AttachLoad(a, ok, moved) ==
    /\ stage = "attach_pending" /\ CanSettle(a, ok)
    /\ MachineStep("lift_load", TRUE, moved)
    /\ attached' = TRUE
    /\ machineRuntime' = [MachineRuntimeOf(activeTask) EXCEPT !.attachAt = NoTime]
    /\ UNCHANGED <<tasks, activeTask, stateTask>>

CompletedTask == [Current EXCEPT !.status = "completed", !.endedAt = now + 1]

(* The load is on the ground: the task completes and leaves the queue's slot *)
(* (the production wrapper only clears active_task_id).                       *)
ReleaseLoad(a, ok, moved) ==
    /\ stage = "release_pending" /\ CanSettle(a, ok)
    /\ MachineStep("idle", TRUE, moved)
    /\ tasks' = [tasks EXCEPT ![activeTask] = CompletedTask]
    /\ activeTask' = NoTask
    /\ attached' = FALSE
    /\ stateTask' = NoTask
    /\ machineRuntime' = [MachineRuntimeOf(activeTask) EXCEPT !.releaseAt = NoTime]

(* A rejected request, or nothing to do yet. *)
HoldStage(a, ok, moved) ==
    /\ ~CanAdvance(a, ok) /\ ~CanStartAttach(a, ok) /\ ~CanStartRelease(a, ok)
    /\ InPending(a) => PendingAllowed(ok) /\ ~DelayPassed
    /\ MachineStep(stage, FALSE, moved)
    /\ machineRuntime' = MachineRuntimeOf(activeTask)
    /\ UNCHANGED <<tasks, activeTask, attached, stateTask>>

(* A queue without an active task is passed over. *)
SkipQueue ==
    /\ phase = "machine" /\ activeTask = NoTask
    /\ now' = now + 1 /\ handled' = NoTask /\ phase' = "activate"
    /\ UNCHANGED <<queueVars, craneVars, runtimeVars, request>>

StepMachine(a, ok, moved) ==
    \/ AdvanceStage(a, ok, moved)
    \/ StartAttach(a, ok, moved) \/ CancelAttach(a, ok, moved) \/ AttachLoad(a, ok, moved)
    \/ StartRelease(a, ok, moved) \/ CancelRelease(a, ok, moved) \/ ReleaseLoad(a, ok, moved)
    \/ HoldStage(a, ok, moved)

--------------------------------------------------------------------------------
(* update_after_physics, second half: handle_task_timing_and_failures *)

Handled == tasks[handled]
Elapsed(t, limit) == t # NoTime /\ now - t > limit

(* Mutant: waits for the load the completion has already put down. *)
RecoveryDoneLoaded == /\ Handled.kind = "recovery_release"
                      /\ Handled.status = "completed" /\ attached

RecoveryDone == /\ Handled.kind = "recovery_release"
                /\ Handled.status = "completed" /\ ~attached
RecoveryTimedOut == /\ Handled.kind = "recovery_release" /\ Handled.status = "active"
                    /\ Elapsed(failureRuntime.recoveryAt, RecoveryTimeout)
AttachTimedOut == stage \in AttachStages /\ Elapsed(Handled.startedAt, AttachTimeout)
(* Mutant: one stage is missing from the timed set. *)
ReleaseTimedOutNotLowering == stage \in ReleaseTimed \ {"lower_for_release"}
                              /\ Elapsed(failureRuntime.releaseStageAt, ReleaseTimeout)

ReleaseTimedOut == stage \in ReleaseTimed
                   /\ Elapsed(failureRuntime.releaseStageAt, ReleaseTimeout)
NoProgress == /\ Elapsed(failureRuntime.progressAt, NoProgressTimeout)
              /\ Handled.status = "active"

(* Mutant: a failure that does not look at the hook. *)
FailureVerdictUnloaded == "fail"

(* A release or no-progress timeout: a loaded crane enters recovery if it can. *)
FailureVerdict ==
    IF ~attached THEN "fail" ELSE IF Handled.dropoffUsable THEN "recover" ELSE "abort"

(* Which branch of the handler the frame takes, in the order of its tests. *)
Verdict ==
    CASE RecoveryDone -> "unblock"
      [] ~RecoveryDone /\ RecoveryTimedOut -> "abort"
      [] ~RecoveryDone /\ ~RecoveryTimedOut /\ AttachTimedOut ->
             IF attached THEN "invalid" ELSE "fail"
      [] ~RecoveryDone /\ ~RecoveryTimedOut /\ ~AttachTimedOut
             /\ (ReleaseTimedOut \/ NoProgress) -> FailureVerdict
      [] OTHER -> "keep"

(* _update_deadline: only a task that is still active is marked, and only by *)
(* a handler that did not return for its recovery task first.                *)
MarkedTask ==
    [Handled EXCEPT !.deadlineMissed =
        \/ @
        \/ /\ Handled.deadline # NoTime /\ Handled.startedAt # NoTime
           /\ Handled.status = "active"
           /\ now > Handled.startedAt + Handled.deadline]

(* Mutant: the failure time is written, the status is not. *)
FailedTaskStillActive == [MarkedTask EXCEPT !.endedAt = now]

FailedTask == [MarkedTask EXCEPT !.status = "failed", !.endedAt = now]

EndFrame == phase = "timing" /\ phase' = "activate" /\ handled' = NoTask

(* A completed recovery lets ordinary tasks start again. *)
UnblockQueue ==
    /\ EndFrame /\ Verdict = "unblock"
    /\ blocked' = FALSE
    /\ UNCHANGED <<now, tasks, activeTask, nextTask, readyAfter, craneVars, runtimeVars, request>>

(* _fail_without_recovery *)
FailTask ==
    /\ EndFrame /\ Verdict = "fail"
    /\ tasks' = [tasks EXCEPT ![handled] = FailedTask]
    /\ activeTask' = NoTask
    /\ stage' = "idle" /\ stateTask' = NoTask
    /\ UNCHANGED <<now, nextTask, readyAfter, blocked, attached, runtimeVars, request>>

(* Mutants: a recovery nobody activates, and one looked up under the wrong id. *)
RecoveryTaskPending ==
    [kind |-> "recovery_release", status |-> "pending",
     plannedStart |-> now, startedAt |-> now, endedAt |-> NoTime,
     deadline |-> NoTime, deadlineMissed |-> FALSE,
     dropoffUsable |-> Handled.dropoffUsable, source |-> handled]
RecoveryIdBehind == Len(tasks) + 2

(* The id the recovery is appended under, derived from the failed task's in the code. *)
RecoveryId == Len(tasks) + 1

(* _create_recovery_task; its dropoff is the failed task's. *)
RecoveryTask ==
    [kind |-> "recovery_release", status |-> "active",
     plannedStart |-> now, startedAt |-> now, endedAt |-> NoTime,
     deadline |-> NoTime, deadlineMissed |-> FALSE,
     dropoffUsable |-> Handled.dropoffUsable, source |-> handled]

(* _enter_recovery with a usable target.  The runtime that carries           *)
(* recovery_started_at_s is stored under the id of the task that failed.     *)
EnterRecovery ==
    /\ EndFrame /\ Verdict = "recover"
    /\ tasks' = Append([tasks EXCEPT ![handled] = FailedTask], RecoveryTask)
    /\ activeTask' = RecoveryId
    /\ stage' = "recovery_release"
    /\ blocked' = TRUE
    /\ failureRuntime' = [failureRuntime EXCEPT !.recoveryAt = now]
    /\ UNCHANGED <<now, nextTask, readyAfter, attached, stateTask, machineRuntime,
                   signature, request>>

(* The recovery has no target, or ran out of time: the task fails, keeps the *)
(* queue's slot, and the episode is asked to end.                            *)
AbortEpisode ==
    /\ EndFrame /\ Verdict = "abort"
    /\ tasks' = [tasks EXCEPT ![handled] = FailedTask]
    /\ stage' = IF RecoveryTimedOut THEN stage ELSE "recovery_release"
    /\ request' = IF RecoveryTimedOut THEN "failed_recovery_timeout"
                  ELSE "failed_recovery_blocked"
    /\ UNCHANGED <<now, activeTask, nextTask, readyAfter, blocked, attached, stateTask,
                   runtimeVars>>

(* No timeout; an attach stage that timed out with a load only asks. *)
KeepTask ==
    /\ EndFrame /\ Verdict \in {"keep", "invalid"}
    /\ tasks' = [tasks EXCEPT ![handled] = MarkedTask]
    /\ request' = IF Verdict = "invalid" THEN "failed_invalid_state" ELSE request
    /\ UNCHANGED <<now, activeTask, nextTask, readyAfter, blocked, craneVars, runtimeVars>>

HandleTiming == UnblockQueue \/ FailTask \/ EnterRecovery \/ AbortEpisode \/ KeepTask

--------------------------------------------------------------------------------
Next ==
    \/ ActivateTask \/ ActivateNothing
    \/ \E a \in Actions, ok \in BOOLEAN, moved \in BOOLEAN : StepMachine(a, ok, moved)
    \/ SkipQueue
    \/ HandleTiming

Spec == Init /\ [][Next]_vars

--------------------------------------------------------------------------------
(* Properties *)

(* The fields have the types the pydantic models declare. *)
TypeOK ==
    /\ now \in Nat
    /\ phase \in {"activate", "machine", "timing"}
    /\ tasks \in Seq(TaskRecord)
    /\ activeTask \in 0..Len(tasks) /\ nextTask \in 1..Len(tasks) + 1
    /\ readyAfter \in Nat /\ blocked \in BOOLEAN
    /\ stage \in Stages /\ attached \in BOOLEAN /\ stateTask \in 0..Len(tasks)
    /\ machineRuntime \in [task : Nat, attachAt : Time, releaseAt : Time]
    /\ failureRuntime \in [task : Nat, releaseStageAt : Time, progressAt : Time,
                          recoveryAt : Time]
    /\ signature \in [task : Nat, stage : Stages]
    /\ handled \in 0..Len(tasks) /\ request \in Requests

(* The crane carries a load exactly in the stages between attach and release, *)
(* recoveries included: no failure path drops the load or idles a loaded crane *)
(* ("no failure path silently clears the load", moduleD task06).              *)
Custody == attached <=> stage \in CarryStages

Aborted == request \in {"failed_recovery_blocked", "failed_recovery_timeout"}

(* The queue's slot names the one task whose status is active, and is empty   *)
(* when there is none: neither a completion, a failure nor a recovery leaves   *)
(* a task active outside the slot, or a finished one in it (until the abort).  *)
SlotNamesActiveTask ==
    \A i \in TaskIds : tasks[i].status = "active" <=> i = activeTask /\ ~Aborted

(* blocked_by_recovery is set exactly while a recovery holds the slot: an      *)
(* ordinary task never runs during one, and the queue is never left blocked    *)
(* with nothing to unblock it, which would idle the crane for the whole run.   *)
BlockedOnlyByRecovery ==
    phase # "timing" => (blocked <=> activeTask # NoTask /\ Recovering)

(* Ordinary tasks run in queue order and one at a time, whatever recoveries    *)
(* were appended behind them.                                                  *)
OrdinaryInOrder ==
    \A i, j \in 1..Ordinary :
        i < j /\ tasks[j].status # "pending" => tasks[i].status \in {"completed", "failed"}

(* Between frames no task outstays its stage group's timeout, and none goes    *)
(* without progress for longer than its limit: no path through the state       *)
(* machine, not even the early return of a rejected request, skips the clocks. *)
(* A pending attach or release, whose only clock is the one under the active    *)
(* task's key, has that clock: it would wait in that stage for ever without it. *)
StagesBounded ==
    /\ stage = "attach_pending" =>
           machineRuntime.task = activeTask /\ machineRuntime.attachAt # NoTime
    /\ stage = "release_pending" =>
           machineRuntime.task = activeTask /\ machineRuntime.releaseAt # NoTime
    /\ (phase = "activate" /\ activeTask # NoTask /\ ~Aborted) =>
            /\ stage \in AttachStages => now - Current.startedAt <= AttachTimeout
            /\ failureRuntime.task = activeTask =>
                 /\ stage \in ReleaseTimed =>
                        /\ failureRuntime.releaseStageAt # NoTime
                        /\ now - failureRuntime.releaseStageAt <= ReleaseTimeout
                 /\ now - failureRuntime.progressAt <= NoProgressTimeout

(* A finished task is history: it is not restarted, failed after completing,   *)
(* completed after failing, or dropped from the queue by a later replacement.  *)
FinishedStaysFinished ==
    [][\A i \in TaskIds : tasks[i].status \in {"completed", "failed"} =>
           i \in DOMAIN tasks' /\ tasks'[i].status = tasks[i].status
                              /\ tasks'[i].endedAt = tasks[i].endedAt]_vars

(* Every step of the frame is a step of LoadCustody or leaves it unchanged: a  *)
(* load is handed from a failed task to its recovery and never lost.           *)
Contract == INSTANCE LoadCustody WITH
    status <- [i \in TaskIds |-> tasks[i].status], active <- activeTask, onHook <- attached
ImplementsContract == Contract!Spec

(* moduleD task06, recovery_release failure: past recovery_release_timeout_s    *)
(* the recovery task is failed and the episode ends failed_recovery_timeout.    *)
RecoveryBounded ==
    phase = "activate" /\ activeTask # NoTask /\ ~Aborted /\ Recovering =>
        now - Current.startedAt <= RecoveryTimeout

================================================================================
