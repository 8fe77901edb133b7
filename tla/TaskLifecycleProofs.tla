--------------------------- MODULE TaskLifecycleProofs --------------------------
(***************************************************************************)
(* Proofs about the task system of one crane, for every queue, schedule and  *)
(* timeout.  TypeCorrect comes first; QueueInvariant then proves the         *)
(* inductive invariant IInv, which implies the safety properties TLC checks. *)
(* That finished tasks stay finished and that the task system implements     *)
(* LoadCustody are read off the effect every step has (StepEffect); that no  *)
(* stage is left running beyond its timeout needs the clock of each stage,   *)
(* which ClockInv at the end adds.                                           *)
(***************************************************************************)
EXTENDS TaskLifecycle, SequenceTheorems, TLAPS

--------------------------------------------------------------------------------
(* Sequences: replacing an element and appending one stay inside Seq(S). *)
LEMMA ReplaceElement ==
  ASSUME NEW S, NEW s \in Seq(S), NEW i \in 1..Len(s), NEW e \in S
  PROVE  /\ [s EXCEPT ![i] = e] \in Seq(S)
         /\ Len([s EXCEPT ![i] = e]) = Len(s)
         /\ \A j \in 1..Len(s) : [s EXCEPT ![i] = e][j] = IF j = i THEN e ELSE s[j]
  OBVIOUS

LEMMA AppendElement ==
  ASSUME NEW S, NEW s \in Seq(S), NEW e \in S
  PROVE  /\ Append(s, e) \in Seq(S)
         /\ Len(Append(s, e)) = Len(s) + 1
         /\ \A j \in 1..Len(s) : Append(s, e)[j] = s[j]
         /\ Append(s, e)[Len(s) + 1] = e
  OBVIOUS

--------------------------------------------------------------------------------
(* Type correctness needs one fact more: the task the timing step works on. *)
HandledInQueue == phase = "timing" => handled \in TaskIds
Typed == TypeOK /\ HandledInQueue

(* A task of the generated schedule is a well typed task. *)
LEMMA NewTaskType ==
  ASSUME NEW i \in 1..Ordinary
  PROVE  NewTask(i) \in TaskRecord
  BY CountAssumption, ScheduleAssumption
  DEF NewTask, TaskRecord, Statuses, Time, NoTime, NoTask

(* The production task system starts well typed. *)
LEMMA TypedInit == Init => Typed
<1> SUFFICES ASSUME Init PROVE Typed
  OBVIOUS
<1>1. tasks \in Seq(TaskRecord) /\ Len(tasks) = Ordinary
  BY NewTaskType, CountAssumption DEF Init
<1>2. /\ activeTask \in 0..Len(tasks) /\ nextTask \in 1..Len(tasks) + 1
      /\ stateTask \in 0..Len(tasks) /\ handled \in 0..Len(tasks)
  BY <1>1, CountAssumption DEF Init, NoTask
<1>4. /\ machineRuntime \in [task : Nat, attachAt : Time, releaseAt : Time]
      /\ failureRuntime \in [task : Nat, releaseStageAt : Time, progressAt : Time,
                             recoveryAt : Time]
  BY DEF Init, Time, NoTime, NoTask
<1>5. signature \in [task : Nat, stage : Stages] /\ stage \in Stages
  BY DEF Init, Stages, NoTask
<1>6. TypeOK
  BY <1>1, <1>2, <1>4, <1>5 DEF Init, TypeOK, Requests
<1>3. HandledInQueue
  BY DEF Init, HandledInQueue
<1> QED
  BY <1>6, <1>3 DEF Typed

(* The runtime entries looked up for the active task are well typed. *)
LEMMA RuntimeTypes ==
  ASSUME TypeOK, activeTask # NoTask
  PROVE  /\ activeTask \in TaskIds
         /\ Current \in TaskRecord
         /\ MachineRuntimeOf(activeTask) \in [task : Nat, attachAt : Time, releaseAt : Time]
         /\ FailureRuntimeOf(activeTask) \in [task : Nat, releaseStageAt : Time,
                                              progressAt : Time, recoveryAt : Time]
<1>1. activeTask \in TaskIds
  BY DEF TypeOK, TaskIds, NoTask
<1>2. Current \in TaskRecord
  BY <1>1 DEF TypeOK, TaskIds, Current
<1>3. MachineRuntimeOf(activeTask) \in [task : Nat, attachAt : Time, releaseAt : Time]
  BY <1>1 DEF TypeOK, MachineRuntimeOf, Time, NoTime, TaskIds
<1>4. tasks[activeTask].startedAt \in Time
  BY <1>2 DEF Current, TaskRecord
<1>5. FailureRuntimeOf(activeTask) \in [task : Nat, releaseStageAt : Time,
                                       progressAt : Time, recoveryAt : Time]
  BY <1>1, <1>4 DEF TypeOK, FailureRuntimeOf, Time, NoTime, TaskIds
<1> QED
  BY <1>1, <1>2, <1>3, <1>5

(* What MachineStep fixes is typed, whatever the stage it leads to. *)
LEMMA MachineStepTyped ==
  ASSUME TypeOK, NEW s \in Stages, NEW p \in BOOLEAN, NEW m \in BOOLEAN,
         MachineStep(s, p, m)
  PROVE  /\ now' \in Nat /\ phase' = "timing" /\ stage' \in Stages
         /\ failureRuntime' \in [task : Nat, releaseStageAt : Time, progressAt : Time,
                                 recoveryAt : Time]
         /\ signature' \in [task : Nat, stage : Stages]
         /\ handled' = activeTask /\ activeTask \in TaskIds
         /\ nextTask' = nextTask /\ readyAfter' = readyAfter /\ blocked' = blocked
         /\ request' = request
<1>1. activeTask # NoTask
  BY DEF MachineStep
<1>2. now + 1 \in Time /\ now + 1 \in Nat
  BY DEF TypeOK, Time
<1>3. AdvancedRuntime(activeTask, s, p, m) \in [task : Nat, releaseStageAt : Time,
                                               progressAt : Time, recoveryAt : Time]
  <2>1. activeTask \in Nat
    BY DEF TypeOK
  <2>2. FailureRuntimeOf(activeTask) \in [task : Nat, releaseStageAt : Time,
                                         progressAt : Time, recoveryAt : Time]
    BY <1>1, RuntimeTypes
  <2> QED
    BY <1>2, <2>1, <2>2 DEF AdvancedRuntime
<1>4. signature' \in [task : Nat, stage : Stages]
  BY DEF MachineStep, TypeOK
<1>5. activeTask \in TaskIds
  BY <1>1, RuntimeTypes
<1> QED
  BY <1>1, <1>2, <1>3, <1>4, <1>5 DEF MachineStep

(* A step of the state machine that keeps the queue is typed if its own two  *)
(* assignments are.                                                          *)
LEMMA KeepingStepTyped ==
  ASSUME Typed, NEW s \in Stages, NEW p \in BOOLEAN, NEW m \in BOOLEAN,
         MachineStep(s, p, m),
         machineRuntime' \in [task : Nat, attachAt : Time, releaseAt : Time],
         attached' \in BOOLEAN, UNCHANGED <<tasks, activeTask, stateTask>>
  PROVE  Typed'
<1>1. TypeOK
  BY DEF Typed
<1>2. Len(tasks') = Len(tasks) /\ TaskIds' = TaskIds
  BY DEF TaskIds
<1>3. /\ now' \in Nat /\ phase' = "timing" /\ stage' \in Stages
      /\ failureRuntime' \in [task : Nat, releaseStageAt : Time, progressAt : Time,
                              recoveryAt : Time]
      /\ signature' \in [task : Nat, stage : Stages]
      /\ handled' = activeTask /\ activeTask \in TaskIds
      /\ nextTask' = nextTask /\ readyAfter' = readyAfter /\ blocked' = blocked
      /\ request' = request
  BY <1>1, MachineStepTyped
<1>4. TypeOK'
  BY <1>1, <1>2, <1>3 DEF TypeOK
<1>5. HandledInQueue'
  BY <1>2, <1>3 DEF HandledInQueue
<1> QED
  BY <1>4, <1>5 DEF Typed

(* Leaving a stage leads to a stage. *)
LEMMA SuccessorStages ==
  ASSUME stage \in DOMAIN Successor
  PROVE  Successor[stage] \in Stages
  BY DEF Successor, Stages, AttachStages, CarryStages, ReleaseStages, ReleaseTimed

(* A step of the attach/release state machine keeps the types. *)
LEMMA MachineTyped ==
  ASSUME Typed, NEW a \in Actions, NEW ok \in BOOLEAN, NEW moved \in BOOLEAN,
         StepMachine(a, ok, moved)
  PROVE  Typed'
<1> USE DEF Typed
<1>0. /\ activeTask # NoTask /\ TypeOK
      /\ now + 1 \in Time /\ NoTime \in Time
      /\ MachineRuntimeOf(activeTask) \in [task : Nat, attachAt : Time, releaseAt : Time]
      /\ attached \in BOOLEAN /\ stage \in Stages
  <2>1. activeTask # NoTask
    BY DEF StepMachine, AdvanceStage, StartAttach, CancelAttach, AttachLoad, StartRelease,
           CancelRelease, ReleaseLoad, HoldStage, MachineStep
  <2> QED
    BY <2>1, RuntimeTypes DEF TypeOK, Time, NoTime
<1>s. {"attach_pending", "release_pending", "lower_for_attach", "recovery_release",
       "lower_for_release", "lift_load", "idle"} \subseteq Stages
  BY DEF Stages, AttachStages, CarryStages, ReleaseStages, ReleaseTimed
<1>1. CASE AdvanceStage(a, ok, moved)
  <2>1. stage \in DOMAIN Successor
    BY <1>1 DEF AdvanceStage, CanAdvance
  <2>2. Successor[stage] \in Stages
    BY <2>1, SuccessorStages
  <2> QED
    BY <1>0, <1>1, <2>2, KeepingStepTyped DEF AdvanceStage
<1>2. CASE StartAttach(a, ok, moved)
  BY <1>0, <1>s, <1>2, KeepingStepTyped DEF StartAttach
<1>3. CASE CancelAttach(a, ok, moved)
  BY <1>0, <1>s, <1>3, KeepingStepTyped DEF CancelAttach
<1>4. CASE AttachLoad(a, ok, moved)
  BY <1>0, <1>s, <1>4, KeepingStepTyped DEF AttachLoad
<1>5. CASE StartRelease(a, ok, moved)
  BY <1>0, <1>s, <1>5, KeepingStepTyped DEF StartRelease
<1>6. CASE CancelRelease(a, ok, moved)
  <2>1. (IF Recovering THEN "recovery_release" ELSE "lower_for_release") \in Stages
    BY <1>s
  <2> QED
    BY <1>0, <1>6, <2>1, KeepingStepTyped DEF CancelRelease
<1>7. CASE ReleaseLoad(a, ok, moved)
  <2>1. /\ now' \in Nat /\ phase' = "timing" /\ stage' \in Stages
        /\ failureRuntime' \in [task : Nat, releaseStageAt : Time, progressAt : Time,
                                recoveryAt : Time]
        /\ signature' \in [task : Nat, stage : Stages]
        /\ handled' = activeTask /\ activeTask \in TaskIds
        /\ nextTask' = nextTask /\ readyAfter' = readyAfter /\ blocked' = blocked
        /\ request' = request
    BY <1>0, <1>s, <1>7, MachineStepTyped DEF ReleaseLoad
  <2>2. CompletedTask \in TaskRecord
    <3>1. Current \in TaskRecord
      BY <1>0, RuntimeTypes
    <3> QED
      BY <1>0, <3>1 DEF TaskRecord, CompletedTask, Statuses
  <2>3. tasks' = [tasks EXCEPT ![activeTask] = CompletedTask]
    BY <1>7 DEF ReleaseLoad
  <2>4. tasks' \in Seq(TaskRecord) /\ Len(tasks') = Len(tasks)
    BY <2>1, <2>2, <2>3, <1>0, ReplaceElement DEF TypeOK, TaskIds
  <2>5. machineRuntime' \in [task : Nat, attachAt : Time, releaseAt : Time]
    BY <1>0, <1>7 DEF ReleaseLoad
  <2>6. activeTask' = 0 /\ stateTask' = 0 /\ attached' \in BOOLEAN
    BY <1>7 DEF ReleaseLoad, NoTask
  <2>7. TypeOK'
    BY <1>0, <2>1, <2>4, <2>5, <2>6 DEF TypeOK, TaskIds
  <2> QED
    BY <2>1, <2>4, <2>7 DEF HandledInQueue, TaskIds
<1>8. CASE HoldStage(a, ok, moved)
  BY <1>0, <1>8, KeepingStepTyped DEF HoldStage
<1> QED
  BY <1>1, <1>2, <1>3, <1>4, <1>5, <1>6, <1>7, <1>8 DEF StepMachine

(* Starting the next task, or none, keeps the types. *)
LEMMA ActivationTyped ==
  ASSUME Typed, ActivateTask \/ ActivateNothing \/ SkipQueue
  PROVE  Typed'
<1> USE DEF Typed
<1>1. CASE ActivateTask
  <2>1. /\ nextTask \in 1..Len(tasks) /\ now \in Nat
        /\ tasks[nextTask] \in TaskRecord
    BY <1>1 DEF ActivateTask, CanActivate, TypeOK
  <2>2. StartedTask \in TaskRecord
    BY <2>1 DEF StartedTask, TaskRecord, Statuses, Time
  <2>3. tasks' \in Seq(TaskRecord) /\ Len(tasks') = Len(tasks)
    BY <1>1, <2>1, <2>2, ReplaceElement DEF ActivateTask, TypeOK
  <2>4. "move_to_pickup" \in Stages
    BY DEF Stages, AttachStages
  <2>5. /\ activeTask' \in 0..Len(tasks') /\ stateTask' \in 0..Len(tasks')
        /\ nextTask' \in 1..Len(tasks') + 1 /\ handled' \in 0..Len(tasks')
    BY <1>1, <2>1, <2>3 DEF ActivateTask, TypeOK
  <2>6. TypeOK'
    BY <1>1, <2>3, <2>4, <2>5 DEF ActivateTask, TypeOK, runtimeVars
  <2> QED
    BY <1>1, <2>6 DEF ActivateTask, HandledInQueue
<1>2. CASE ActivateNothing
  BY <1>2 DEF ActivateNothing, TypeOK, HandledInQueue, queueVars, craneVars, runtimeVars
<1>3. CASE SkipQueue
  BY <1>3 DEF SkipQueue, TypeOK, HandledInQueue, queueVars, craneVars, runtimeVars, NoTask
<1> QED
  BY <1>1, <1>2, <1>3

(* The tasks the timeout handler writes are well typed. *)
LEMMA TimingTypes ==
  ASSUME Typed, phase = "timing"
  PROVE  /\ handled \in TaskIds /\ Handled \in TaskRecord
         /\ MarkedTask \in TaskRecord /\ FailedTask \in TaskRecord
         /\ RecoveryTask \in TaskRecord
<1>1. handled \in TaskIds /\ Handled \in TaskRecord
  BY DEF Typed, TypeOK, HandledInQueue, Handled, TaskIds
<1>2. now \in Time /\ NoTime \in Time /\ handled \in Nat
  BY <1>1 DEF Typed, TypeOK, Time, TaskIds
<1>3. MarkedTask \in TaskRecord
  BY <1>1, <1>2 DEF MarkedTask, TaskRecord
<1>4. FailedTask \in TaskRecord
  BY <1>2, <1>3 DEF FailedTask, TaskRecord, Statuses
<1>5. RecoveryTask \in TaskRecord
  BY <1>1, <1>2 DEF RecoveryTask, TaskRecord, Statuses
<1> QED
  BY <1>1, <1>3, <1>4, <1>5

(* The timeout handler keeps the types. *)
LEMMA TimingTyped ==
  ASSUME Typed, HandleTiming
  PROVE  Typed'
<1>0. phase = "timing" /\ phase' = "activate" /\ handled' = 0
  BY DEF HandleTiming, UnblockQueue, FailTask, EnterRecovery, AbortEpisode, KeepTask,
         EndFrame, NoTask
<1>1. /\ handled \in TaskIds /\ MarkedTask \in TaskRecord /\ FailedTask \in TaskRecord
      /\ RecoveryTask \in TaskRecord
  BY <1>0, TimingTypes
<1>2. TypeOK
  BY DEF Typed
<1>3. /\ [tasks EXCEPT ![handled] = FailedTask] \in Seq(TaskRecord)
      /\ Len([tasks EXCEPT ![handled] = FailedTask]) = Len(tasks)
      /\ [tasks EXCEPT ![handled] = MarkedTask] \in Seq(TaskRecord)
      /\ Len([tasks EXCEPT ![handled] = MarkedTask]) = Len(tasks)
  BY <1>1, <1>2, ReplaceElement DEF TypeOK, TaskIds
<1>4. {"idle", "recovery_release"} \subseteq Stages
  BY DEF Stages, CarryStages, ReleaseStages
<1>5. TypeOK'
  <2>1. CASE UnblockQueue
    <3>1. blocked' \in BOOLEAN
      BY <2>1 DEF UnblockQueue
    <3>2. /\ UNCHANGED <<now, tasks, activeTask, nextTask, readyAfter, request>>
          /\ UNCHANGED <<stage, attached, stateTask>>
          /\ UNCHANGED <<machineRuntime, failureRuntime, signature>>
      BY <2>1 DEF UnblockQueue, craneVars, runtimeVars
    <3> QED
      BY <1>0, <1>2, <3>1, <3>2 DEF TypeOK
  <2>2. CASE FailTask
    BY <1>0, <1>2, <1>3, <1>4, <2>2 DEF FailTask, TypeOK, runtimeVars, NoTask
  <2>3. CASE EnterRecovery
    <3>1. tasks' \in Seq(TaskRecord) /\ Len(tasks') = Len(tasks) + 1
      BY <1>1, <1>3, <2>3, AppendElement DEF EnterRecovery
    <3>2. activeTask' = Len(tasks')
      BY <2>3, <3>1 DEF EnterRecovery, RecoveryId
    <3>3. now \in Time
      BY <1>2 DEF TypeOK, Time
    <3>4. failureRuntime' \in [task : Nat, releaseStageAt : Time, progressAt : Time,
                              recoveryAt : Time]
      BY <1>2, <2>3, <3>3 DEF EnterRecovery, TypeOK
    <3> QED
      BY <1>0, <1>2, <1>4, <2>3, <3>1, <3>2, <3>4 DEF EnterRecovery, TypeOK
  <2>4. CASE AbortEpisode
    <3>1. stage' \in Stages /\ request' \in Requests
      BY <1>2, <1>4, <2>4 DEF AbortEpisode, TypeOK, Requests
    <3> QED
      BY <1>0, <1>2, <1>3, <2>4, <3>1 DEF AbortEpisode, TypeOK, runtimeVars
  <2>5. CASE KeepTask
    <3>1. request' \in Requests
      BY <1>2, <2>5 DEF KeepTask, TypeOK, Requests
    <3> QED
      BY <1>0, <1>2, <1>3, <2>5, <3>1 DEF KeepTask, TypeOK, craneVars, runtimeVars
  <2> QED
    BY <2>1, <2>2, <2>3, <2>4, <2>5 DEF HandleTiming
<1> QED
  BY <1>0, <1>5 DEF Typed, HandledInQueue

(* Every reachable state of the task system is well typed. *)
THEOREM TypeCorrect == Spec => []TypeOK
<1>1. Init => Typed
  BY TypedInit
<1>2. Typed /\ [Next]_vars => Typed'
  <2> SUFFICES ASSUME Typed, [Next]_vars PROVE Typed'
    OBVIOUS
  <2>1. CASE ActivateTask \/ ActivateNothing \/ SkipQueue
    BY <2>1, ActivationTyped
  <2>2. CASE \E a \in Actions, ok \in BOOLEAN, moved \in BOOLEAN : StepMachine(a, ok, moved)
    BY <2>2, MachineTyped
  <2>3. CASE HandleTiming
    BY <2>3, TimingTyped
  <2>4. CASE UNCHANGED vars
    BY <2>4 DEF vars, queueVars, craneVars, runtimeVars, Typed, TypeOK, HandledInQueue, TaskIds
  <2> QED
    BY <2>1, <2>2, <2>3, <2>4 DEF Next
<1>3. Typed => TypeOK
  BY DEF Typed
<1> QED
  BY <1>1, <1>2, <1>3, PTL DEF Spec

--------------------------------------------------------------------------------
(* The inductive invariant.  Custody, the slot, the block and the queue order  *)
(* are not inductive alone: the block follows the recovery only through the    *)
(* task the timing step works on, and a recovery is never failed unloaded only *)
(* because it lives in two stages in which the load is still on the hook.      *)

(* With an empty slot the crane is idle. *)
FreeIsIdle == activeTask = NoTask => stage = "idle"

(* The timing step works on the active task, or on the one just completed. *)
TimingTask ==
    phase = "timing" =>
        /\ activeTask = handled \/ (activeTask = NoTask /\ Handled.status = "completed")
        /\ blocked <=> Handled.kind = "recovery_release"

RecoveryStages ==
    activeTask # NoTask /\ Recovering => stage \in {"recovery_release", "release_pending"}

RecoveriesStarted ==
    \A i \in TaskIds : tasks[i].kind = "recovery_release" => tasks[i].status # "pending"

(* After an abort the frame ends and no other begins. *)
AbortStops == Aborted => phase = "activate"

(* next_task_index is the first ordinary task still pending. *)
Frontier == /\ Ordinary <= Len(tasks)
            /\ \A i \in 1..Ordinary : tasks[i].status = "pending" <=> i >= nextTask

QueueInv == SlotNamesActiveTask /\ OrdinaryInOrder /\ RecoveriesStarted /\ Frontier
StageInv == Custody /\ FreeIsIdle /\ RecoveryStages
FrameInv == BlockedOnlyByRecovery /\ TimingTask /\ AbortStops
IInv == Typed /\ QueueInv /\ StageInv /\ FrameInv

(* How the stages left by their test relate to the stages that carry a load. *)
LEMMA StageSets ==
  /\ "idle" \notin CarryStages /\ AttachStages \cap CarryStages = {}
  /\ {"recovery_release", "release_pending", "lower_for_release", "lift_load"}
        \subseteq CarryStages
  /\ {"attach_pending", "lower_for_attach", "move_to_pickup"} \subseteq AttachStages
  /\ \A st \in DOMAIN Successor :
        /\ st \in CarryStages <=> Successor[st] \in CarryStages
        /\ st \notin {"recovery_release", "release_pending"}
  BY DEF AttachStages, CarryStages, ReleaseStages, ReleaseTimed, Successor

(* The production task system starts inside its invariant. *)
LEMMA InitInv == Init => IInv
<1> SUFFICES ASSUME Init PROVE IInv
  OBVIOUS
<1>1. Typed
  BY TypedInit
<1>2. Len(tasks) = Ordinary /\ \A i \in 1..Ordinary : tasks[i] = NewTask(i)
  BY CountAssumption DEF Init
<1>3. \A i \in 1..Ordinary : tasks[i].status = "pending" /\ tasks[i].kind = "ordinary"
  BY <1>2 DEF NewTask
<1>4. QueueInv
  BY <1>2, <1>3, CountAssumption
  DEF Init, QueueInv, SlotNamesActiveTask, OrdinaryInOrder, RecoveriesStarted, Frontier,
      TaskIds, NoTask
<1>5. StageInv
  BY StageSets DEF Init, StageInv, Custody, FreeIsIdle, RecoveryStages
<1>6. FrameInv
  BY DEF Init, FrameInv, BlockedOnlyByRecovery, TimingTask, AbortStops, Aborted
<1> QED
  BY <1>1, <1>4, <1>5, <1>6 DEF IInv

(* A machine step that keeps the queue keeps the invariant if the stage it      *)
(* leads to agrees with the load and with what a recovery may be doing.         *)
LEMMA KeepingStepInv ==
  ASSUME IInv, NEW s \in Stages, NEW p \in BOOLEAN, NEW m \in BOOLEAN,
         MachineStep(s, p, m), UNCHANGED <<tasks, activeTask, stateTask>>,
         attached' <=> s \in CarryStages,
         Recovering => s \in {"recovery_release", "release_pending"}
  PROVE  QueueInv' /\ StageInv' /\ FrameInv'
<1>1. /\ phase = "machine" /\ phase' = "timing" /\ activeTask # NoTask /\ stage' = s
      /\ handled' = activeTask
      /\ UNCHANGED <<tasks, activeTask, nextTask, blocked, request>>
  BY DEF MachineStep
<1>2. QueueInv'
  BY <1>1 DEF IInv, QueueInv, SlotNamesActiveTask, OrdinaryInOrder, RecoveriesStarted,
              Frontier, TaskIds, Aborted
<1>3. StageInv'
  BY <1>1 DEF StageInv, Custody, FreeIsIdle, RecoveryStages, Recovering, Current
<1>4. FrameInv'
  BY <1>1 DEF IInv, FrameInv, BlockedOnlyByRecovery, TimingTask, AbortStops, Aborted,
              Handled, Recovering, Current
<1> QED
  BY <1>2, <1>3, <1>4

(* A step of the attach/release state machine keeps the invariant. *)
LEMMA MachineInv ==
  ASSUME IInv, NEW a \in Actions, NEW ok \in BOOLEAN, NEW moved \in BOOLEAN,
         StepMachine(a, ok, moved)
  PROVE  QueueInv' /\ StageInv' /\ FrameInv'
<1>0. /\ activeTask # NoTask /\ stage \in Stages /\ Typed /\ TypeOK
      /\ attached <=> stage \in CarryStages
      /\ Recovering => stage \in {"recovery_release", "release_pending"}
  <2>1. activeTask # NoTask
    BY DEF StepMachine, AdvanceStage, StartAttach, CancelAttach, AttachLoad, StartRelease,
           CancelRelease, ReleaseLoad, HoldStage, MachineStep
  <2> QED
    BY <2>1 DEF IInv, StageInv, Custody, RecoveryStages, Typed, TypeOK
<1>s. {"attach_pending", "release_pending", "lower_for_attach", "recovery_release",
       "lower_for_release", "lift_load", "idle"} \subseteq Stages
  BY DEF Stages, AttachStages, CarryStages, ReleaseStages, ReleaseTimed
<1>1. CASE AdvanceStage(a, ok, moved)
  <2>1. stage \in DOMAIN Successor /\ Successor[stage] \in Stages
    BY <1>1, SuccessorStages DEF AdvanceStage, CanAdvance
  <2>2. attached' <=> Successor[stage] \in CarryStages
    BY <1>0, <1>1, <2>1, StageSets DEF AdvanceStage
  <2>3. ~Recovering
    BY <1>0, <2>1, StageSets
  <2> QED
    BY <1>1, <2>1, <2>2, <2>3, KeepingStepInv DEF AdvanceStage
<1>2. CASE StartAttach(a, ok, moved)
  <2>1. stage = "lower_for_attach" /\ UNCHANGED attached
    BY <1>2 DEF StartAttach, CanStartAttach
  <2>2. attached' <=> "attach_pending" \in CarryStages
    BY <1>0, <2>1, StageSets
  <2> QED
    BY <1>0, <1>s, <1>2, <2>1, <2>2, KeepingStepInv DEF StartAttach
<1>3. CASE CancelAttach(a, ok, moved)
  <2>1. stage = "attach_pending" /\ UNCHANGED attached
    BY <1>3 DEF CancelAttach
  <2>2. attached' <=> "lower_for_attach" \in CarryStages
    BY <1>0, <2>1, StageSets
  <2> QED
    BY <1>0, <1>s, <1>3, <2>1, <2>2, KeepingStepInv DEF CancelAttach
<1>4. CASE AttachLoad(a, ok, moved)
  <2>1. stage = "attach_pending" /\ attached' = TRUE
    BY <1>4 DEF AttachLoad
  <2>2. attached' <=> "lift_load" \in CarryStages
    BY <2>1, StageSets
  <2> QED
    BY <1>0, <1>s, <1>4, <2>1, <2>2, KeepingStepInv DEF AttachLoad
<1>5. CASE StartRelease(a, ok, moved)
  <2>1. stage \in {"lower_for_release", "recovery_release"} /\ UNCHANGED attached
    BY <1>5 DEF StartRelease, CanStartRelease
  <2>2. attached' <=> "release_pending" \in CarryStages
    BY <1>0, <2>1, StageSets
  <2> QED
    BY <1>s, <1>5, <2>2, KeepingStepInv DEF StartRelease
<1>6. CASE CancelRelease(a, ok, moved)
  <2> DEFINE back == IF Recovering THEN "recovery_release" ELSE "lower_for_release"
  <2>1. stage = "release_pending" /\ UNCHANGED attached
    BY <1>6 DEF CancelRelease
  <2>2. attached' <=> back \in CarryStages
    BY <1>0, <2>1, StageSets
  <2>3. back \in Stages /\ (Recovering => back \in {"recovery_release", "release_pending"})
    BY <1>s
  <2>4. MachineStep(back, TRUE, moved) /\ UNCHANGED <<tasks, activeTask, stateTask>>
    BY <1>6 DEF CancelRelease
  <2> HIDE DEF back
  <2> QED
    BY <2>2, <2>3, <2>4, KeepingStepInv
<1>7. CASE ReleaseLoad(a, ok, moved)
  <2>1. /\ phase = "machine" /\ phase' = "timing" /\ stage' = "idle" /\ attached' = FALSE
        /\ handled' = activeTask /\ activeTask' = NoTask
        /\ UNCHANGED <<nextTask, blocked, request>>
        /\ tasks' = [tasks EXCEPT ![activeTask] = CompletedTask]
    BY <1>7 DEF ReleaseLoad, MachineStep
  <2>2. activeTask \in 1..Len(tasks) /\ tasks \in Seq(TaskRecord) /\ Current \in TaskRecord
    BY <1>0, RuntimeTypes DEF TypeOK, TaskIds
  <2>3. CompletedTask.status = "completed" /\ CompletedTask.kind = Current.kind
        /\ CompletedTask \in TaskRecord
    <3>1. now + 1 \in Time
      BY <1>0 DEF TypeOK, Time
    <3> QED
      BY <2>2, <3>1 DEF CompletedTask, TaskRecord, Statuses
  <2>4. /\ Len(tasks') = Len(tasks)
        /\ \A j \in 1..Len(tasks) : tasks'[j] = IF j = activeTask THEN CompletedTask ELSE tasks[j]
    BY <2>1, <2>2, <2>3, ReplaceElement
  <2>5. Current = tasks[activeTask] /\ Current.status = "active" /\ ~Aborted /\ ~Aborted'
    BY <2>1, <2>2 DEF IInv, QueueInv, FrameInv, AbortStops, SlotNamesActiveTask, TaskIds,
                      Current, Aborted
  <2>6. QueueInv'
    <3>1. SlotNamesActiveTask'
      BY <2>1, <2>2, <2>3, <2>4, <2>5 DEF IInv, QueueInv, SlotNamesActiveTask, TaskIds, NoTask
    <3>2. OrdinaryInOrder' /\ Frontier'
      BY <2>1, <2>2, <2>3, <2>4, <2>5, CountAssumption
      DEF IInv, QueueInv, OrdinaryInOrder, Frontier
    <3>3. RecoveriesStarted'
      BY <2>2, <2>3, <2>4 DEF IInv, QueueInv, RecoveriesStarted, TaskIds
    <3> QED
      BY <3>1, <3>2, <3>3 DEF QueueInv
  <2>7. StageInv'
    BY <2>1, StageSets DEF StageInv, Custody, FreeIsIdle, RecoveryStages
  <2>8. FrameInv'
    <3>1. Handled' = CompletedTask
      BY <2>1, <2>2, <2>4 DEF Handled
    <3>2. blocked <=> Current.kind = "recovery_release"
      BY <1>0, <2>1 DEF IInv, FrameInv, BlockedOnlyByRecovery, Recovering
    <3> QED
      BY <2>1, <2>3, <2>5, <3>1, <3>2 DEF FrameInv, BlockedOnlyByRecovery, TimingTask, AbortStops
  <2> QED
    BY <2>6, <2>7, <2>8
<1>8. CASE HoldStage(a, ok, moved)
  BY <1>0, <1>8, KeepingStepInv DEF HoldStage
<1> QED
  BY <1>1, <1>2, <1>3, <1>4, <1>5, <1>6, <1>7, <1>8 DEF StepMachine

(* Starting the next task, or none, keeps the invariant. *)
LEMMA ActivationInv ==
  ASSUME IInv, ActivateTask \/ ActivateNothing \/ SkipQueue
  PROVE  QueueInv' /\ StageInv' /\ FrameInv'
<1> USE DEF IInv
<1>1. CASE ActivateTask
  <2>1. /\ phase = "activate" /\ phase' = "machine" /\ ~blocked /\ activeTask = NoTask
        /\ nextTask \in 1..Len(tasks) /\ tasks[nextTask].status = "pending"
        /\ tasks' = [tasks EXCEPT ![nextTask] = StartedTask]
        /\ activeTask' = nextTask /\ nextTask' = nextTask + 1
        /\ stage' = "move_to_pickup" /\ UNCHANGED <<blocked, attached, request>>
    BY <1>1 DEF ActivateTask, CanActivate, Typed, TypeOK
  <2>2. tasks \in Seq(TaskRecord) /\ tasks[nextTask] \in TaskRecord /\ now \in Time
    BY <2>1 DEF Typed, TypeOK, Time
  <2>3. /\ StartedTask \in TaskRecord /\ StartedTask.status = "active"
        /\ StartedTask.kind = tasks[nextTask].kind
    BY <2>2 DEF StartedTask, TaskRecord, Statuses
  <2>4. /\ Len(tasks') = Len(tasks)
        /\ \A j \in 1..Len(tasks) : tasks'[j] = IF j = nextTask THEN StartedTask ELSE tasks[j]
    BY <2>1, <2>2, <2>3, ReplaceElement
  <2>5. ~Aborted /\ ~Aborted'
    BY <1>1, <2>1 DEF ActivateTask, EpisodeOver, Aborted
  <2>6. tasks[nextTask].kind # "recovery_release"
    BY <2>1 DEF QueueInv, RecoveriesStarted, TaskIds
  <2>7. SlotNamesActiveTask'
    BY <2>1, <2>3, <2>4, <2>5 DEF QueueInv, SlotNamesActiveTask, TaskIds, NoTask
  <2>8. Frontier'
    BY <2>1, <2>3, <2>4, CountAssumption DEF QueueInv, Frontier
  <2>9. OrdinaryInOrder'
    <3>1. \A i \in 1..Ordinary : i < nextTask => tasks[i].status \in {"completed", "failed"}
      <4> SUFFICES ASSUME NEW i \in 1..Ordinary, i < nextTask
                   PROVE  tasks[i].status \in {"completed", "failed"}
        OBVIOUS
      <4>1. i \in TaskIds /\ i # activeTask
        BY <2>1, CountAssumption DEF TaskIds, NoTask
      <4>2. tasks[i].status \in Statuses
        <5>1. tasks[i] \in TaskRecord
          BY <2>2, <4>1 DEF TaskIds
        <5> QED
          BY <5>1 DEF TaskRecord
      <4>3. tasks[i].status # "pending" /\ tasks[i].status # "active"
        BY <2>1, <4>1, CountAssumption DEF QueueInv, Frontier, SlotNamesActiveTask
      <4> QED
        BY <4>2, <4>3 DEF Statuses
    <3> QED
      BY <2>1, <2>3, <2>4, <3>1, CountAssumption DEF QueueInv, OrdinaryInOrder, Frontier
  <2>10. RecoveriesStarted'
    BY <2>3, <2>4 DEF QueueInv, RecoveriesStarted, TaskIds
  <2>11. StageInv'
    <3>1. ~attached
      BY <2>1, StageSets DEF StageInv, Custody, FreeIsIdle
    <3>2. ~Recovering'
      BY <2>1, <2>3, <2>4, <2>6 DEF Recovering, Current
    <3> QED
      BY <2>1, <3>1, <3>2, StageSets DEF StageInv, Custody, FreeIsIdle, RecoveryStages, NoTask
  <2>12. FrameInv'
    <3>1. ~Recovering'
      BY <2>1, <2>3, <2>4, <2>6 DEF Recovering, Current
    <3> QED
      BY <2>1, <2>5, <3>1 DEF FrameInv, BlockedOnlyByRecovery, TimingTask, AbortStops
  <2> QED
    BY <2>7, <2>8, <2>9, <2>10, <2>11, <2>12 DEF QueueInv
<1>2. CASE ActivateNothing \/ SkipQueue
  <2>1. /\ phase \in {"activate", "machine"} /\ phase' \in {"activate", "machine"}
        /\ UNCHANGED <<tasks, activeTask, nextTask, blocked>>
        /\ UNCHANGED <<stage, attached, request>>
    BY <1>2 DEF ActivateNothing, SkipQueue, queueVars, craneVars
  <2>2. ~Aborted
    BY <1>2 DEF ActivateNothing, SkipQueue, EpisodeOver, Aborted, FrameInv, AbortStops
  <2>3. QueueInv'
    BY <2>1 DEF QueueInv, SlotNamesActiveTask, OrdinaryInOrder, RecoveriesStarted, Frontier,
                TaskIds, Aborted
  <2>4. StageInv'
    BY <2>1 DEF StageInv, Custody, FreeIsIdle, RecoveryStages, Recovering, Current
  <2>5. FrameInv'
    BY <2>1, <2>2 DEF FrameInv, BlockedOnlyByRecovery, TimingTask, AbortStops, Aborted,
                      Recovering, Current
  <2> QED
    BY <2>3, <2>4, <2>5
<1> QED
  BY <1>1, <1>2

(* The verdicts, read off the case analysis of the handler. *)
LEMMA Verdicts ==
  /\ Verdict = "unblock" => RecoveryDone
  /\ RecoveryDone => Verdict = "unblock"
  /\ Verdict = "fail" => ~attached /\ (AttachTimedOut \/ ReleaseTimedOut \/ NoProgress)
  /\ Verdict = "recover" => attached /\ (ReleaseTimedOut \/ NoProgress)
  /\ Verdict = "abort" =>
        \/ RecoveryTimedOut
        \/ attached /\ (ReleaseTimedOut \/ NoProgress)
  BY DEF Verdict, FailureVerdict

(* Every branch of the timeout handler keeps the invariant. *)
LEMMA TimingInv ==
  ASSUME IInv, HandleTiming
  PROVE  QueueInv' /\ StageInv' /\ FrameInv'
<1> USE DEF IInv
<1>1. phase = "timing" /\ phase' = "activate"
  BY DEF HandleTiming, UnblockQueue, FailTask, EnterRecovery, AbortEpisode, KeepTask, EndFrame
<1>2. /\ handled \in 1..Len(tasks) /\ Handled = tasks[handled] /\ Handled \in TaskRecord
      /\ MarkedTask \in TaskRecord /\ FailedTask \in TaskRecord /\ RecoveryTask \in TaskRecord
      /\ tasks \in Seq(TaskRecord)
  BY <1>1, TimingTypes DEF Typed, TypeOK, Handled, TaskIds
<1>3. /\ MarkedTask.status = Handled.status /\ MarkedTask.kind = Handled.kind
      /\ FailedTask.status = "failed" /\ FailedTask.kind = Handled.kind
      /\ RecoveryTask.status = "active" /\ RecoveryTask.kind = "recovery_release"
  BY <1>2 DEF MarkedTask, FailedTask, RecoveryTask, TaskRecord
<1>4. /\ activeTask = handled \/ (activeTask = NoTask /\ Handled.status = "completed")
      /\ blocked <=> Handled.kind = "recovery_release"
      /\ ~Aborted
  BY <1>1 DEF FrameInv, TimingTask, AbortStops
(* Only an active task times out. *)
<1>5. AttachTimedOut \/ ReleaseTimedOut \/ NoProgress \/ RecoveryTimedOut =>
        activeTask = handled /\ Handled.status = "active"
  <2>1. activeTask = handled => Handled.status = "active"
    BY <1>2, <1>4 DEF QueueInv, SlotNamesActiveTask, TaskIds
  <2>2. activeTask = NoTask => stage = "idle"
    BY DEF StageInv, FreeIsIdle
  <2> QED
    BY <1>4, <2>1, <2>2 DEF AttachTimedOut, ReleaseTimedOut, NoProgress, RecoveryTimedOut,
                            AttachStages, ReleaseTimed
<1>6. CASE UnblockQueue
  <2>1. /\ blocked' = FALSE /\ UNCHANGED <<tasks, activeTask, nextTask, request>>
        /\ UNCHANGED <<stage, attached>> /\ RecoveryDone
    BY <1>6, Verdicts DEF UnblockQueue, craneVars
  <2>2. activeTask = NoTask
    BY <1>2, <1>4, <2>1 DEF RecoveryDone, QueueInv, SlotNamesActiveTask, TaskIds
  <2>3. QueueInv'
    BY <2>1 DEF QueueInv, SlotNamesActiveTask, OrdinaryInOrder, RecoveriesStarted, Frontier,
                TaskIds, Aborted
  <2>4. StageInv'
    BY <2>1 DEF StageInv, Custody, FreeIsIdle, RecoveryStages, Recovering, Current
  <2>5. FrameInv'
    BY <1>1, <2>1, <2>2 DEF FrameInv, BlockedOnlyByRecovery, TimingTask, AbortStops
  <2> QED
    BY <2>3, <2>4, <2>5
<1>7. CASE FailTask
  <2>1. /\ tasks' = [tasks EXCEPT ![handled] = FailedTask] /\ activeTask' = NoTask
        /\ stage' = "idle" /\ UNCHANGED <<nextTask, blocked, attached, request>>
        /\ ~attached /\ activeTask = handled /\ Handled.status = "active"
    BY <1>5, <1>7, Verdicts DEF FailTask
  <2>2. /\ Len(tasks') = Len(tasks)
        /\ \A j \in 1..Len(tasks) : tasks'[j] = IF j = handled THEN FailedTask ELSE tasks[j]
    BY <1>2, <2>1, ReplaceElement
  <2>3. ~blocked
    <3>1. SUFFICES ASSUME blocked PROVE FALSE
      OBVIOUS
    <3>2. stage \in {"recovery_release", "release_pending"}
      BY <1>2, <1>4, <2>1, <3>1 DEF StageInv, RecoveryStages, Recovering, Current, NoTask
    <3> QED
      BY <2>1, <3>2, StageSets DEF StageInv, Custody
  <2>4. QueueInv'
    <3>1. SlotNamesActiveTask'
      BY <1>2, <1>3, <1>4, <2>1, <2>2 DEF QueueInv, SlotNamesActiveTask, TaskIds, NoTask, Aborted
    <3>2. OrdinaryInOrder' /\ Frontier'
      BY <1>2, <1>3, <2>1, <2>2, CountAssumption DEF QueueInv, OrdinaryInOrder, Frontier
    <3>3. RecoveriesStarted'
      BY <1>2, <1>3, <2>2 DEF QueueInv, RecoveriesStarted, TaskIds
    <3> QED
      BY <3>1, <3>2, <3>3 DEF QueueInv
  <2>5. StageInv'
    BY <2>1, StageSets DEF StageInv, Custody, FreeIsIdle, RecoveryStages
  <2>6. FrameInv'
    BY <1>1, <2>1, <2>3 DEF FrameInv, BlockedOnlyByRecovery, TimingTask, AbortStops
  <2> QED
    BY <2>4, <2>5, <2>6
<1>8. CASE EnterRecovery
  <2>1. /\ tasks' = Append([tasks EXCEPT ![handled] = FailedTask], RecoveryTask)
        /\ activeTask' = Len(tasks) + 1 /\ stage' = "recovery_release" /\ blocked' = TRUE
        /\ UNCHANGED <<nextTask, attached, request>>
        /\ attached /\ activeTask = handled /\ Handled.status = "active"
    BY <1>5, <1>8, Verdicts DEF EnterRecovery, RecoveryId
  <2> DEFINE failed == [tasks EXCEPT ![handled] = FailedTask]
  <2>2. /\ failed \in Seq(TaskRecord) /\ Len(failed) = Len(tasks)
        /\ \A j \in 1..Len(tasks) : failed[j] = IF j = handled THEN FailedTask ELSE tasks[j]
    BY <1>2, ReplaceElement
  <2>3. tasks' = Append(failed, RecoveryTask)
    BY <2>1
  <2> HIDE DEF failed
  <2>4. /\ Len(tasks') = Len(tasks) + 1 /\ tasks'[Len(tasks) + 1] = RecoveryTask
        /\ \A j \in 1..Len(tasks) : tasks'[j] = IF j = handled THEN FailedTask ELSE tasks[j]
    BY <1>2, <2>2, <2>3, AppendElement
  <2>5. Len(tasks) \in Nat
    BY <1>2
  <2>6. QueueInv'
    <3>1. SlotNamesActiveTask'
      BY <1>2, <1>3, <1>4, <2>1, <2>4, <2>5 DEF QueueInv, SlotNamesActiveTask, TaskIds, Aborted
    <3>2. OrdinaryInOrder' /\ Frontier'
      BY <1>2, <1>3, <2>1, <2>4, <2>5, CountAssumption DEF QueueInv, OrdinaryInOrder, Frontier
    <3>3. RecoveriesStarted'
      BY <1>2, <1>3, <2>4, <2>5 DEF QueueInv, RecoveriesStarted, TaskIds
    <3> QED
      BY <3>1, <3>2, <3>3 DEF QueueInv
  <2>7. StageInv'
    BY <2>1, <2>5, StageSets DEF StageInv, Custody, FreeIsIdle, RecoveryStages, NoTask
  <2>8. FrameInv'
    BY <1>1, <1>3, <1>4, <2>1, <2>4, <2>5
    DEF FrameInv, BlockedOnlyByRecovery, TimingTask, AbortStops, Recovering, Current, NoTask
  <2> QED
    BY <2>6, <2>7, <2>8
<1>9. CASE AbortEpisode
  <2>1. /\ tasks' = [tasks EXCEPT ![handled] = FailedTask]
        /\ UNCHANGED <<activeTask, nextTask, blocked, attached>>
        /\ Aborted' /\ activeTask = handled /\ Handled.status = "active"
        /\ stage' = IF RecoveryTimedOut THEN stage ELSE "recovery_release"
        /\ RecoveryTimedOut \/ attached
    BY <1>5, <1>9, Verdicts DEF AbortEpisode, Aborted
  <2>2. /\ Len(tasks') = Len(tasks)
        /\ \A j \in 1..Len(tasks) : tasks'[j] = IF j = handled THEN FailedTask ELSE tasks[j]
    BY <1>2, <2>1, ReplaceElement
  <2>3. QueueInv'
    <3>1. SlotNamesActiveTask'
      BY <1>2, <1>3, <1>4, <2>1, <2>2 DEF QueueInv, SlotNamesActiveTask, TaskIds
    <3>2. OrdinaryInOrder' /\ Frontier'
      BY <1>2, <1>3, <2>1, <2>2, CountAssumption DEF QueueInv, OrdinaryInOrder, Frontier
    <3>3. RecoveriesStarted'
      BY <1>2, <1>3, <2>2 DEF QueueInv, RecoveriesStarted, TaskIds
    <3> QED
      BY <3>1, <3>2, <3>3 DEF QueueInv
  <2>4. Recovering' <=> Recovering
    BY <1>2, <1>3, <2>1, <2>2 DEF Recovering, Current
  <2>5. StageInv'
    <3>1. attached /\ stage' \in CarryStages
      <4>1. CASE RecoveryTimedOut
        <5>1. stage \in {"recovery_release", "release_pending"}
          BY <1>2, <2>1, <4>1 DEF RecoveryTimedOut, StageInv, RecoveryStages, Recovering,
                                  Current, NoTask
        <5> QED
          BY <2>1, <4>1, <5>1, StageSets DEF StageInv, Custody
      <4>2. CASE ~RecoveryTimedOut
        BY <2>1, <4>2, StageSets
      <4> QED
        BY <4>1, <4>2
    <3>2. Custody' /\ FreeIsIdle'
      BY <1>2, <2>1, <3>1 DEF Custody, FreeIsIdle, NoTask
    <3>3. RecoveryStages'
      BY <2>1, <2>4 DEF StageInv, RecoveryStages
    <3> QED
      BY <3>2, <3>3 DEF StageInv
  <2>6. FrameInv'
    <3>1. Recovering <=> blocked
      BY <1>2, <1>4, <2>1 DEF Recovering, Current
    <3> QED
      BY <1>1, <1>2, <2>1, <2>4, <3>1
      DEF FrameInv, BlockedOnlyByRecovery, TimingTask, AbortStops, NoTask
  <2> QED
    BY <2>3, <2>5, <2>6
<1>10. CASE KeepTask
  <2>1. /\ tasks' = [tasks EXCEPT ![handled] = MarkedTask]
        /\ UNCHANGED <<activeTask, nextTask, blocked>> /\ UNCHANGED <<stage, attached>>
        /\ ~RecoveryDone
    BY <1>10, Verdicts DEF KeepTask, craneVars
  <2>2. ~Aborted'
    BY <1>4, <1>10 DEF KeepTask, Aborted
  <2>3. /\ Len(tasks') = Len(tasks)
        /\ \A j \in 1..Len(tasks) : /\ tasks'[j].status = tasks[j].status
                                    /\ tasks'[j].kind = tasks[j].kind
    BY <1>2, <1>3, <2>1, ReplaceElement
  <2>4. QueueInv'
    <3>1. SlotNamesActiveTask' /\ RecoveriesStarted'
      BY <1>4, <2>1, <2>2, <2>3 DEF QueueInv, SlotNamesActiveTask, RecoveriesStarted, TaskIds
    <3>2. OrdinaryInOrder' /\ Frontier'
      BY <2>1, <2>3, CountAssumption DEF QueueInv, OrdinaryInOrder, Frontier
    <3> QED
      BY <3>1, <3>2 DEF QueueInv
  <2>5. activeTask = handled => (Recovering' <=> Recovering)
    BY <1>2, <2>1, <2>3 DEF Recovering, Current
  <2>6. StageInv'
    BY <1>4, <2>1, <2>5 DEF StageInv, Custody, FreeIsIdle, RecoveryStages
  <2>7. FrameInv'
    <3>1. activeTask = handled => (blocked <=> Recovering)
      BY <1>2, <1>4 DEF Recovering, Current
    <3>2. activeTask = NoTask => ~blocked
      BY <1>2, <1>4, <2>1, StageSets DEF RecoveryDone, StageInv, Custody, FreeIsIdle, NoTask
    <3> QED
      BY <1>1, <1>2, <1>4, <2>1, <2>2, <2>5, <3>1, <3>2
      DEF FrameInv, BlockedOnlyByRecovery, TimingTask, AbortStops, NoTask
  <2> QED
    BY <2>4, <2>6, <2>7
<1> QED
  BY <1>6, <1>7, <1>8, <1>9, <1>10 DEF HandleTiming

(* The invariant is inductive. *)
LEMMA StepInv == IInv /\ [Next]_vars => IInv'
<1> SUFFICES ASSUME IInv, [Next]_vars PROVE IInv'
  OBVIOUS
<1>1. CASE ActivateTask \/ ActivateNothing \/ SkipQueue
  BY <1>1, ActivationInv, ActivationTyped DEF IInv
<1>2. CASE \E a \in Actions, ok \in BOOLEAN, moved \in BOOLEAN : StepMachine(a, ok, moved)
  BY <1>2, MachineInv, MachineTyped DEF IInv
<1>3. CASE HandleTiming
  BY <1>3, TimingInv, TimingTyped DEF IInv
<1>4. CASE UNCHANGED vars
  <2>1. /\ UNCHANGED <<now, phase, handled, request>>
        /\ UNCHANGED <<tasks, activeTask, nextTask, readyAfter, blocked>>
        /\ UNCHANGED <<stage, attached, stateTask>>
        /\ UNCHANGED <<machineRuntime, failureRuntime, signature>>
    BY <1>4 DEF vars, queueVars, craneVars, runtimeVars
  <2>2. Typed'
    BY <2>1 DEF IInv, Typed, TypeOK, HandledInQueue, TaskIds
  <2>3. QueueInv'
    BY <2>1 DEF IInv, QueueInv, SlotNamesActiveTask, OrdinaryInOrder, RecoveriesStarted,
                Frontier, TaskIds, Aborted
  <2>4. StageInv'
    BY <2>1 DEF IInv, StageInv, Custody, FreeIsIdle, RecoveryStages, Recovering, Current
  <2>5. FrameInv'
    BY <2>1 DEF IInv, FrameInv, BlockedOnlyByRecovery, TimingTask, AbortStops, Aborted,
                Recovering, Current, Handled
  <2> QED
    BY <2>2, <2>3, <2>4, <2>5 DEF IInv
<1> QED
  BY <1>1, <1>2, <1>3, <1>4 DEF Next

(* The queue, the stage and the hook agree in every phase of every frame. *)
THEOREM QueueInvariant == Spec => []IInv
  BY InitInv, StepInv, PTL DEF Spec

(* No failure, timeout or recovery ever drops a load or idles a loaded crane. *)
THEOREM CustodyHolds == Spec => []Custody
<1>1. IInv => Custody
  BY DEF IInv, StageInv
<1> QED
  BY <1>1, QueueInvariant, PTL

(* The slot of the queue names the one active task. *)
THEOREM SlotHolds == Spec => []SlotNamesActiveTask
<1>1. IInv => SlotNamesActiveTask
  BY DEF IInv, QueueInv
<1> QED
  BY <1>1, QueueInvariant, PTL

(* A queue is blocked exactly while a recovery runs, so it is never stuck. *)
THEOREM NeverStuck == Spec => []BlockedOnlyByRecovery
<1>1. IInv => BlockedOnlyByRecovery
  BY DEF IInv, FrameInv
<1> QED
  BY <1>1, QueueInvariant, PTL

(* Ordinary tasks run in queue order, one at a time. *)
THEOREM InOrder == Spec => []OrdinaryInOrder
<1>1. IInv => OrdinaryInOrder
  BY DEF IInv, QueueInv
<1> QED
  BY <1>1, QueueInvariant, PTL

--------------------------------------------------------------------------------
(* The contract. Every step of the inductive invariant has one of the seven    *)
(* effects named here on the statuses, the slot and the hook.                 *)

(* The statuses as LoadCustody sees them.                                    *)
Shown == [i \in TaskIds |-> tasks[i].status]

(* Task i has the status s, every other task the one it had, and what has     *)
(* finished keeps its time.                                                   *)
Changed(i, s) ==
    \A j \in TaskIds :
        /\ tasks'[j].status = IF j = i THEN s ELSE tasks[j].status
        /\ j # i => tasks'[j].endedAt = tasks[j].endedAt

StaysAsItWas ==
    /\ Len(tasks') = Len(tasks) /\ UNCHANGED <<activeTask, attached>>
    /\ \A j \in TaskIds : /\ tasks'[j].status = tasks[j].status
                          /\ tasks'[j].endedAt = tasks[j].endedAt
Starts(i) ==
    /\ activeTask = NoTask /\ ~attached /\ i \in TaskIds /\ tasks[i].status = "pending"
    /\ Len(tasks') = Len(tasks) /\ Changed(i, "active")
    /\ activeTask' = i /\ UNCHANGED attached
PicksUp ==
    /\ activeTask # NoTask /\ ~attached /\ attached'
    /\ UNCHANGED <<tasks, activeTask>>
Ends(s) ==
    /\ activeTask \in TaskIds /\ tasks[activeTask].status = "active"
    /\ Len(tasks') = Len(tasks) /\ Changed(activeTask, s)
Delivers == Ends("completed") /\ attached /\ attached' = FALSE /\ activeTask' = NoTask
Fails    == Ends("failed") /\ ~attached /\ UNCHANGED attached /\ activeTask' = NoTask
GivesUp  == Ends("failed") /\ attached /\ UNCHANGED <<attached, activeTask>>
HandsOver ==
    /\ activeTask \in TaskIds /\ tasks[activeTask].status = "active" /\ attached
    /\ Len(tasks') = Len(tasks) + 1 /\ Changed(activeTask, "failed")
    /\ tasks'[Len(tasks) + 1].status = "active"
    /\ activeTask' = Len(tasks) + 1 /\ UNCHANGED attached

Effect == StaysAsItWas \/ (\E i \in TaskIds : Starts(i)) \/ PicksUp \/ Delivers \/ Fails
          \/ HandsOver \/ GivesUp

(* activate_due_tasks starts a task on a crane whose hook is free.           *)
LEMMA ActivationEffect ==
  ASSUME IInv, ActivateTask \/ ActivateNothing \/ SkipQueue
  PROVE  Effect
<1>1. CASE ActivateTask
  <2>1. /\ activeTask = NoTask /\ nextTask \in 1..Len(tasks)
        /\ tasks[nextTask].status = "pending" /\ tasks[nextTask] \in TaskRecord
        /\ tasks \in Seq(TaskRecord) /\ now \in Time
    BY <1>1 DEF IInv, Typed, TypeOK, ActivateTask, CanActivate, Time
  <2>2. ~attached
    BY <2>1, StageSets DEF IInv, StageInv, FreeIsIdle, Custody
  <2>3. StartedTask \in TaskRecord /\ StartedTask.status = "active"
    BY <2>1 DEF StartedTask, TaskRecord, Statuses
  <2>4. tasks' = [tasks EXCEPT ![nextTask] = StartedTask] /\ activeTask' = nextTask
        /\ UNCHANGED attached
    BY <1>1 DEF ActivateTask
  <2>5. Len(tasks') = Len(tasks) /\ Changed(nextTask, "active")
    BY <2>1, <2>3, <2>4, ReplaceElement DEF Changed, TaskIds
  <2>6. Starts(nextTask)
    BY <2>1, <2>2, <2>4, <2>5 DEF Starts, TaskIds
  <2> QED
    BY <2>1, <2>6 DEF Effect, TaskIds
<1>2. CASE ActivateNothing \/ SkipQueue
  BY <1>2 DEF ActivateNothing, SkipQueue, queueVars, craneVars, Effect, StaysAsItWas
<1> QED
  BY <1>1, <1>2

(* The state machine attaches, releases, or changes the stage only.           *)
LEMMA MachineEffect ==
  ASSUME IInv, NEW a \in Actions, NEW ok \in BOOLEAN, NEW moved \in BOOLEAN,
         StepMachine(a, ok, moved)
  PROVE  Effect
<1>1. CASE AttachLoad(a, ok, moved)
  <2>1. PicksUp
    BY <1>1 DEF AttachLoad, MachineStep, CanSettle, PendingAllowed, AttachAllowed, PicksUp
  <2> QED
    BY <2>1 DEF Effect
<1>2. CASE ReleaseLoad(a, ok, moved)
  <2>1. /\ activeTask # NoTask /\ stage = "release_pending" /\ attached
        /\ tasks' = [tasks EXCEPT ![activeTask] = CompletedTask]
        /\ activeTask' = NoTask /\ attached' = FALSE /\ phase = "machine"
    BY <1>2 DEF ReleaseLoad, MachineStep, CanSettle, PendingAllowed, ReleaseAllowed
  <2>2. /\ activeTask \in 1..Len(tasks) /\ tasks \in Seq(TaskRecord)
        /\ Current \in TaskRecord /\ now + 1 \in Time
    BY <2>1, RuntimeTypes DEF IInv, Typed, TypeOK, TaskIds, Time
  <2>3. tasks[activeTask].status = "active"
    BY <2>1, <2>2 DEF IInv, QueueInv, FrameInv, SlotNamesActiveTask, AbortStops, TaskIds
  <2>4. CompletedTask \in TaskRecord /\ CompletedTask.status = "completed"
    BY <2>2 DEF CompletedTask, TaskRecord, Statuses
  <2>5. Len(tasks') = Len(tasks) /\ Changed(activeTask, "completed")
    BY <2>1, <2>2, <2>4, ReplaceElement DEF Changed, TaskIds
  <2>6. Delivers
    BY <2>1, <2>2, <2>3, <2>5 DEF Delivers, Ends, TaskIds
  <2> QED
    BY <2>6 DEF Effect
<1>3. CASE \/ AdvanceStage(a, ok, moved) \/ StartAttach(a, ok, moved)
           \/ CancelAttach(a, ok, moved) \/ StartRelease(a, ok, moved)
           \/ CancelRelease(a, ok, moved) \/ HoldStage(a, ok, moved)
  BY <1>3 DEF AdvanceStage, StartAttach, CancelAttach, StartRelease, CancelRelease, HoldStage,
              Effect, StaysAsItWas
<1> QED
  BY <1>1, <1>2, <1>3 DEF StepMachine

(* A timeout fails the active task with a free hook, hands its load over, or   *)
(* gives the episode up.                                                      *)
LEMMA TimingEffect ==
  ASSUME IInv, HandleTiming
  PROVE  Effect
<1>1. phase = "timing"
  BY DEF HandleTiming, UnblockQueue, FailTask, EnterRecovery, AbortEpisode, KeepTask, EndFrame
<1>2. /\ handled \in 1..Len(tasks) /\ Handled = tasks[handled] /\ Handled \in TaskRecord
      /\ MarkedTask \in TaskRecord /\ FailedTask \in TaskRecord /\ RecoveryTask \in TaskRecord
      /\ tasks \in Seq(TaskRecord)
  BY <1>1, TimingTypes DEF IInv, Typed, TypeOK, Handled, TaskIds
<1>3. /\ MarkedTask.status = Handled.status /\ MarkedTask.endedAt = Handled.endedAt
      /\ FailedTask.status = "failed" /\ RecoveryTask.status = "active"
  BY <1>2 DEF MarkedTask, FailedTask, RecoveryTask, TaskRecord
(* Only an active task times out. *)
<1>4. AttachTimedOut \/ ReleaseTimedOut \/ NoProgress \/ RecoveryTimedOut =>
        activeTask = handled /\ Handled.status = "active"
  <2>1. activeTask = handled \/ (activeTask = NoTask /\ Handled.status = "completed")
    BY <1>1 DEF IInv, FrameInv, TimingTask
  <2>2. activeTask = handled => Handled.status = "active"
    BY <1>1, <1>2 DEF IInv, QueueInv, FrameInv, SlotNamesActiveTask, AbortStops, TaskIds
  <2>3. activeTask = NoTask => stage = "idle"
    BY DEF IInv, StageInv, FreeIsIdle
  <2> QED
    BY <2>1, <2>2, <2>3 DEF AttachTimedOut, ReleaseTimedOut, NoProgress, RecoveryTimedOut,
                            AttachStages, ReleaseTimed
(* The failed task in its place changes nothing else. *)
<1>5. ASSUME tasks' = [tasks EXCEPT ![handled] = FailedTask]
      PROVE  Len(tasks') = Len(tasks) /\ Changed(handled, "failed")
  BY <1>2, <1>3, <1>5, ReplaceElement DEF Changed, TaskIds
<1>6. CASE UnblockQueue
  BY <1>6 DEF UnblockQueue, craneVars, Effect, StaysAsItWas
<1>7. CASE FailTask
  <2>1. /\ tasks' = [tasks EXCEPT ![handled] = FailedTask] /\ activeTask' = NoTask
        /\ UNCHANGED attached /\ ~attached /\ activeTask = handled /\ Handled.status = "active"
    BY <1>4, <1>7, Verdicts DEF FailTask
  <2>2. Fails
    BY <1>2, <1>5, <2>1 DEF Fails, Ends, TaskIds
  <2> QED
    BY <2>2 DEF Effect
<1>8. CASE EnterRecovery
  <2>1. /\ tasks' = Append([tasks EXCEPT ![handled] = FailedTask], RecoveryTask)
        /\ activeTask' = Len(tasks) + 1 /\ UNCHANGED attached
        /\ attached /\ activeTask = handled /\ Handled.status = "active"
    BY <1>4, <1>8, Verdicts DEF EnterRecovery, RecoveryId
  <2> DEFINE failed == [tasks EXCEPT ![handled] = FailedTask]
  <2>2. /\ failed \in Seq(TaskRecord) /\ Len(failed) = Len(tasks)
        /\ \A j \in 1..Len(tasks) : failed[j] = IF j = handled THEN FailedTask ELSE tasks[j]
    BY <1>2, ReplaceElement
  <2>3. tasks' = Append(failed, RecoveryTask)
    BY <2>1
  <2> HIDE DEF failed
  <2>4. /\ Len(tasks') = Len(tasks) + 1 /\ tasks'[Len(tasks) + 1] = RecoveryTask
        /\ \A j \in 1..Len(tasks) : tasks'[j] = IF j = handled THEN FailedTask ELSE tasks[j]
    BY <1>2, <2>2, <2>3, AppendElement
  <2>5. HandsOver
    BY <1>2, <1>3, <2>1, <2>4 DEF HandsOver, Changed, TaskIds
  <2> QED
    BY <2>5 DEF Effect
<1>9. CASE AbortEpisode
  <2>1. /\ tasks' = [tasks EXCEPT ![handled] = FailedTask]
        /\ UNCHANGED <<activeTask, attached>>
        /\ activeTask = handled /\ Handled.status = "active"
        /\ RecoveryTimedOut \/ attached
    BY <1>4, <1>9, Verdicts DEF AbortEpisode
  <2>2. RecoveryTimedOut => attached
    <3>1. SUFFICES ASSUME RecoveryTimedOut PROVE attached
      OBVIOUS
    <3>2. stage \in {"recovery_release", "release_pending"}
      BY <1>2, <2>1, <3>1
      DEF RecoveryTimedOut, IInv, StageInv, RecoveryStages, Recovering, Current, NoTask
    <3> QED
      BY <3>2, StageSets DEF IInv, StageInv, Custody
  <2>3. GivesUp
    BY <1>2, <1>5, <2>1, <2>2 DEF GivesUp, Ends, TaskIds
  <2> QED
    BY <2>3 DEF Effect
<1>10. CASE KeepTask
  <2>1. tasks' = [tasks EXCEPT ![handled] = MarkedTask] /\ UNCHANGED <<activeTask, attached>>
    BY <1>10 DEF KeepTask, craneVars
  <2>2. StaysAsItWas
    BY <1>2, <1>3, <2>1, ReplaceElement DEF StaysAsItWas, TaskIds
  <2> QED
    BY <2>2 DEF Effect
<1> QED
  BY <1>6, <1>7, <1>8, <1>9, <1>10 DEF HandleTiming

(* Every step of the task system has one of the effects.                     *)
LEMMA StepEffect == IInv /\ [Next]_vars => Effect
<1> SUFFICES ASSUME IInv, [Next]_vars PROVE Effect
  OBVIOUS
<1>1. CASE ActivateTask \/ ActivateNothing \/ SkipQueue
  BY <1>1, ActivationEffect
<1>2. CASE \E a \in Actions, ok \in BOOLEAN, moved \in BOOLEAN : StepMachine(a, ok, moved)
  BY <1>2, MachineEffect
<1>3. CASE HandleTiming
  BY <1>3, TimingEffect
<1>4. CASE UNCHANGED vars
  BY <1>4 DEF vars, queueVars, craneVars, Effect, StaysAsItWas
<1> QED
  BY <1>1, <1>2, <1>3, <1>4 DEF Next

--------------------------------------------------------------------------------
(* Finished tasks stay finished: what update_after_physics has completed or    *)
(* failed is neither restarted, overwritten nor dropped from the queue.        *)
THEOREM HistoryStands == Spec => FinishedStaysFinished
<1> DEFINE Step == \A i \in TaskIds : tasks[i].status \in {"completed", "failed"} =>
                       i \in DOMAIN tasks' /\ tasks'[i].status = tasks[i].status
                                          /\ tasks'[i].endedAt = tasks[i].endedAt
<1>1. IInv /\ IInv' /\ [Next]_vars => Step
  <2> SUFFICES ASSUME IInv, IInv', Effect,
                      NEW i \in TaskIds, tasks[i].status \in {"completed", "failed"}
               PROVE  /\ i \in DOMAIN tasks' /\ tasks'[i].status = tasks[i].status
                      /\ tasks'[i].endedAt = tasks[i].endedAt
    BY StepEffect
  <2>1. tasks \in Seq(TaskRecord) /\ tasks' \in Seq(TaskRecord)
    BY DEF IInv, Typed, TypeOK
  <2>2. Len(tasks') >= Len(tasks)
    BY <2>1 DEF Effect, StaysAsItWas, Starts, PicksUp, Delivers, Fails, GivesUp, HandsOver, Ends
  <2>3. i \in DOMAIN tasks'
    BY <2>1, <2>2 DEF TaskIds
  <2>4. tasks'[i].status = tasks[i].status /\ tasks'[i].endedAt = tasks[i].endedAt
    BY DEF Effect, StaysAsItWas, Starts, PicksUp, Delivers, Fails, GivesUp, HandsOver, Ends,
           Changed
  <2> QED
    BY <2>3, <2>4
<1>2. Spec => [][Step]_vars
  BY <1>1, QueueInvariant, PTL DEF Spec
<1> QED
  BY <1>2 DEF FinishedStaysFinished

--------------------------------------------------------------------------------
(* The refinement                                                           *)

(* The statuses LoadCustody sees form a sequence as long as the queue.         *)
LEMMA StatusesOf ==
  ASSUME NEW t \in Seq(TaskRecord)
  PROVE  /\ Len(t) \in Nat
         /\ [i \in 1..Len(t) |-> t[i].status] \in Seq(Statuses)
         /\ Len([i \in 1..Len(t) |-> t[i].status]) = Len(t)
<1>1. Len(t) \in Nat /\ \A i \in 1..Len(t) : t[i] \in TaskRecord
  OBVIOUS
<1>2. \A i \in 1..Len(t) : t[i].status \in Statuses
  BY <1>1 DEF TaskRecord
<1> QED
  BY <1>1, <1>2

LEMMA ShownIsSequence ==
  ASSUME tasks \in Seq(TaskRecord)
  PROVE  Shown \in Seq(Statuses) /\ Len(Shown) = Len(tasks) /\ Len(tasks) \in Nat
  BY StatusesOf DEF Shown, TaskIds

(* Replacing one status and appending one, seen through LoadCustody's eyes.    *)
LEMMA ShownChanged ==
  ASSUME TypeOK, NEW i \in TaskIds, NEW s, Changed(i, s), Len(tasks') = Len(tasks)
  PROVE  Shown' = [Shown EXCEPT ![i] = s]
  BY DEF Shown, Changed, TaskIds

LEMMA ShownAppended ==
  ASSUME TypeOK, TypeOK', NEW i \in TaskIds, Changed(i, "failed"),
         Len(tasks') = Len(tasks) + 1, tasks'[Len(tasks) + 1].status = "active"
  PROVE  Shown' = Append([Shown EXCEPT ![i] = "failed"], "active")
<1> DEFINE failed == [Shown EXCEPT ![i] = "failed"]
<1>1. /\ Shown \in Seq(Statuses) /\ Len(Shown) = Len(tasks) /\ Len(tasks) \in Nat
      /\ Shown' \in Seq(Statuses) /\ Len(Shown') = Len(tasks')
  <2>1. tasks \in Seq(TaskRecord) /\ tasks' \in Seq(TaskRecord)
    BY DEF TypeOK
  <2> QED
    BY <2>1, ShownIsSequence, StatusesOf DEF Shown, TaskIds
<1>2. "failed" \in Statuses /\ "active" \in Statuses
  BY DEF Statuses
<1>3. /\ failed \in Seq(Statuses) /\ Len(failed) = Len(tasks)
      /\ \A j \in TaskIds : failed[j] = IF j = i THEN "failed" ELSE Shown[j]
  BY <1>1, <1>2, ReplaceElement DEF TaskIds
<1> HIDE DEF failed
<1>4. /\ Append(failed, "active") \in Seq(Statuses)
      /\ Len(Append(failed, "active")) = Len(tasks) + 1
      /\ \A j \in TaskIds : Append(failed, "active")[j] = failed[j]
      /\ Append(failed, "active")[Len(tasks) + 1] = "active"
  BY <1>2, <1>3, AppendElement DEF TaskIds
<1>5. \A j \in 1..(Len(tasks) + 1) : Shown'[j] = Append(failed, "active")[j]
  BY <1>1, <1>3, <1>4 DEF Shown, Changed, TaskIds
<1>6. Shown' = Append(failed, "active")
  BY <1>1, <1>4, <1>5, SeqEqual
<1> QED
  BY <1>6 DEF failed

LEMMA ContractInit == Init => Contract!Init
<1> SUFFICES ASSUME Init PROVE Contract!Init
  OBVIOUS
<1>1. Len(tasks) = Ordinary /\ \A i \in 1..Ordinary : tasks[i].status = "pending"
  BY CountAssumption DEF Init, NewTask
<1> QED
  BY <1>1 DEF Init, Contract!Init, TaskIds, NoTask

(* Each effect is the step of LoadCustody of its name.                        *)
LEMMA ContractStep ==
  ASSUME IInv, IInv', Effect
  PROVE  [Contract!Next]_Contract!vars
<1> USE DEF NoTask
<1>1. TypeOK /\ TypeOK'
  BY DEF IInv, Typed
<1>2. Shown \in Seq(Statuses) /\ Len(Shown) = Len(tasks) /\ Len(tasks) \in Nat
  BY <1>1, ShownIsSequence DEF TypeOK
<1>3. Contract!Jobs = TaskIds
  BY <1>2 DEF Contract!Jobs, Shown, TaskIds
<1>4. CASE StaysAsItWas
  BY <1>4 DEF StaysAsItWas, TaskIds, Contract!vars
<1>5. ASSUME NEW i \in TaskIds, Starts(i) PROVE Contract!Next
  <2>1. Shown' = [Shown EXCEPT ![i] = "active"]
    BY <1>1, <1>5, ShownChanged DEF Starts
  <2>2. Contract!Start(i)
    BY <1>5, <2>1 DEF Starts, Contract!Start, Shown
  <2> QED
    BY <1>3, <2>2 DEF Contract!Next
<1>6. CASE PicksUp
  BY <1>6 DEF PicksUp, TaskIds, Contract!Next, Contract!PickUp
<1>7. ASSUME NEW s, Ends(s)
      PROVE  /\ activeTask \in TaskIds /\ Shown[activeTask] = "active"
             /\ Shown' = [Shown EXCEPT ![activeTask] = s]
  BY <1>1, <1>7, ShownChanged DEF Ends, Shown
<1>8. activeTask \in TaskIds => activeTask # 0
  BY DEF TaskIds
<1>9. CASE Delivers
  BY <1>7, <1>8, <1>9 DEF Delivers, Shown, Contract!Next, Contract!Deliver
<1>10. CASE Fails
  BY <1>7, <1>8, <1>10 DEF Fails, Shown, Contract!Next, Contract!Fail
<1>11. CASE GivesUp
  BY <1>7, <1>8, <1>11 DEF GivesUp, Shown, Contract!Next, Contract!GiveUp
<1>12. CASE HandsOver
  <2>1. activeTask \in TaskIds /\ Shown[activeTask] = "active"
    BY <1>12 DEF HandsOver, Shown
  <2>2. Shown' = Append([Shown EXCEPT ![activeTask] = "failed"], "active")
    BY <1>1, <1>12, <2>1, ShownAppended DEF HandsOver
  <2>3. Contract!HandOver
    BY <1>2, <1>8, <1>12, <2>1, <2>2 DEF HandsOver, Shown, Contract!HandOver
  <2> QED
    BY <2>3 DEF Contract!Next
<1> QED
  BY <1>4, <1>5, <1>6, <1>9, <1>10, <1>11, <1>12 DEF Effect

(* The production task system implements LoadCustody: no failure path clears    *)
(* or drops a load, it is delivered or handed to a recovery in the same step.   *)
THEOREM TaskSystemImplementsCustody == Spec => ImplementsContract
<1>1. IInv /\ IInv' /\ [Next]_vars => [Contract!Next]_Contract!vars
  BY StepEffect, ContractStep
<1> QED
  BY <1>1, ContractInit, QueueInvariant, PTL DEF Spec, ImplementsContract, Contract!Spec

--------------------------------------------------------------------------------
(* The clocks                                                               *)

(* A stage that waits for a delay has its clock under the active task's key.    *)
PendingClocked ==
    /\ stage = "attach_pending" =>
           machineRuntime.task = activeTask /\ machineRuntime.attachAt # NoTime
    /\ stage = "release_pending" =>
           machineRuntime.task = activeTask /\ machineRuntime.releaseAt # NoTime

(* Between frames the running clocks are within their limits.                  *)
WithinLimits ==
    (phase = "activate" /\ activeTask # NoTask /\ ~Aborted) =>
        /\ stage \in AttachStages => now - Current.startedAt <= AttachTimeout
        /\ failureRuntime.task = activeTask =>
             /\ stage \in ReleaseTimed =>
                    /\ failureRuntime.releaseStageAt # NoTime
                    /\ now - failureRuntime.releaseStageAt <= ReleaseTimeout
             /\ now - failureRuntime.progressAt <= NoProgressTimeout

(* The clocks the timing step reads are set, and are those of the task it works  *)
(* on: an unset clock never elapses.                                           *)
ClocksSet ==
    /\ activeTask # NoTask => Current.startedAt # NoTime
    /\ failureRuntime.task # NoTask => failureRuntime.progressAt # NoTime
    /\ phase = "timing" =>
           /\ failureRuntime.task = handled
           /\ stage \in ReleaseStages => failureRuntime.releaseStageAt # NoTime

ClockInv == PendingClocked /\ WithinLimits /\ ClocksSet
(* No clock runs before the first task.                                        *)
LEMMA ClockInit == Init => ClockInv
  BY DEF Init, ClockInv, PendingClocked, WithinLimits, ClocksSet, NoTask, NoTime

(* The task that is handled keeps a set progress clock, or starts from its start. *)
LEMMA ProgressClock ==
  ASSUME TypeOK, ClocksSet, activeTask # NoTask
  PROVE  FailureRuntimeOf(activeTask).progressAt # NoTime
  BY DEF FailureRuntimeOf, ClocksSet, Current

(* Whatever the state machine did, its last call sets the failure clocks of the *)
(* task it stepped (_advance_failure_runtime_for_progress).                     *)
LEMMA MachineClocks ==
  ASSUME TypeOK, ClocksSet, NEW s, NEW p, NEW m, MachineStep(s, p, m),
         UNCHANGED <<tasks, activeTask>> \/ activeTask' = NoTask
  PROVE  WithinLimits' /\ ClocksSet'
<1>1. /\ activeTask # NoTask /\ phase' = "timing" /\ stage' = s /\ handled' = activeTask
      /\ failureRuntime' = AdvancedRuntime(activeTask, s, p, m)
      /\ now \in Nat
  BY DEF MachineStep, TypeOK
<1>2. failureRuntime'.task = activeTask /\ failureRuntime'.progressAt # NoTime
  BY <1>1, ProgressClock DEF AdvancedRuntime, NoTime
<1>3. s \in ReleaseStages => failureRuntime'.releaseStageAt # NoTime
  BY <1>1 DEF AdvancedRuntime, NoTime
<1>4. activeTask' # NoTask => Current'.startedAt # NoTime
  BY <1>1 DEF ClocksSet, Current
<1>5. ClocksSet'
  BY <1>1, <1>2, <1>3, <1>4 DEF ClocksSet
<1>6. WithinLimits'
  BY <1>1 DEF WithinLimits
<1> QED
  BY <1>5, <1>6

(* A step of the state machine writes the clock of the stage it enters, and a    *)
(* rejected request leaves the clocks where they are.                           *)
LEMMA MachineKeepsClocks ==
  ASSUME IInv, ClockInv, NEW a \in Actions, NEW ok \in BOOLEAN, NEW moved \in BOOLEAN,
         StepMachine(a, ok, moved)
  PROVE  ClockInv'
<1>1. TypeOK /\ ClocksSet /\ PendingClocked
  BY DEF IInv, Typed, ClockInv
<1>2. activeTask # NoTask /\ now \in Nat
  BY <1>1 DEF StepMachine, AdvanceStage, StartAttach, CancelAttach, AttachLoad, StartRelease,
              CancelRelease, ReleaseLoad, HoldStage, MachineStep, TypeOK
<1>3. /\ MachineRuntimeOf(activeTask) \in [task : Nat, attachAt : Time, releaseAt : Time]
      /\ MachineRuntimeOf(activeTask).task = activeTask
  BY <1>1, <1>2, RuntimeTypes DEF MachineRuntimeOf
<1>4. WithinLimits' /\ ClocksSet'
  BY <1>1, MachineClocks
  DEF StepMachine, AdvanceStage, StartAttach, CancelAttach, AttachLoad, StartRelease,
      CancelRelease, ReleaseLoad, HoldStage
<1>5. PendingClocked'
  <2>1. CASE AdvanceStage(a, ok, moved)
    <3>1. stage' \notin {"attach_pending", "release_pending"}
      BY <2>1 DEF AdvanceStage, CanAdvance, MachineStep, Successor
    <3> QED
      BY <3>1 DEF PendingClocked
  <2>2. CASE StartAttach(a, ok, moved)
    BY <1>2, <1>3, <2>2 DEF StartAttach, MachineStep, PendingClocked, NoTime
  <2>3. CASE StartRelease(a, ok, moved)
    BY <1>2, <1>3, <2>3 DEF StartRelease, MachineStep, PendingClocked, NoTime
  <2>4. CASE \/ CancelAttach(a, ok, moved) \/ AttachLoad(a, ok, moved)
             \/ CancelRelease(a, ok, moved) \/ ReleaseLoad(a, ok, moved)
    BY <2>4 DEF CancelAttach, AttachLoad, CancelRelease, ReleaseLoad, MachineStep,
                PendingClocked
  <2>5. CASE HoldStage(a, ok, moved)
    BY <1>1, <2>5 DEF HoldStage, MachineStep, PendingClocked, MachineRuntimeOf
  <2> QED
    BY <2>1, <2>2, <2>3, <2>4, <2>5 DEF StepMachine
<1> QED
  BY <1>4, <1>5 DEF ClockInv

(* A task starts with its clock at now; an idle crane has none to keep.          *)
LEMMA ActivationKeepsClocks ==
  ASSUME IInv, ClockInv, ActivateTask \/ ActivateNothing \/ SkipQueue
  PROVE  ClockInv'
<1>1. CASE ActivateTask
  <2>1. /\ nextTask \in 1..Len(tasks) /\ tasks \in Seq(TaskRecord) /\ now \in Nat
        /\ tasks[nextTask] \in TaskRecord
    BY <1>1 DEF IInv, Typed, TypeOK, ActivateTask, CanActivate
  <2>2. tasks'[nextTask].startedAt = now
    BY <1>1, <2>1 DEF ActivateTask, StartedTask, TaskRecord
  <2>3. /\ activeTask' = nextTask /\ stage' = "move_to_pickup" /\ phase' = "machine"
        /\ UNCHANGED failureRuntime
    BY <1>1 DEF ActivateTask, runtimeVars
  <2>4. Current'.startedAt # NoTime
    BY <2>1, <2>2, <2>3 DEF Current, NoTime
  <2> QED
    BY <2>3, <2>4 DEF ClockInv, PendingClocked, WithinLimits, ClocksSet
<1>2. CASE ActivateNothing
  BY <1>2 DEF ActivateNothing, queueVars, craneVars, runtimeVars, ClockInv, PendingClocked,
              WithinLimits, ClocksSet, Current
<1>3. CASE SkipQueue
  BY <1>3 DEF SkipQueue, queueVars, craneVars, runtimeVars, ClockInv, PendingClocked,
              WithinLimits, ClocksSet, Current
<1> QED
  BY <1>1, <1>2, <1>3

(* A task the handler keeps has no clock past its limit: the clocks it compares  *)
(* are set, and they are the clocks of the task in the slot.                    *)
LEMMA KeptWithinLimits ==
  ASSUME IInv, ClockInv, KeepTask, activeTask # NoTask
  PROVE  /\ stage \in AttachStages => now - Current.startedAt <= AttachTimeout
         /\ stage \in ReleaseTimed =>
                /\ failureRuntime.releaseStageAt # NoTime
                /\ now - failureRuntime.releaseStageAt <= ReleaseTimeout
         /\ now - failureRuntime.progressAt <= NoProgressTimeout
<1>1. /\ phase = "timing" /\ Verdict \in {"keep", "invalid"}
      /\ TypeOK /\ activeTask = handled /\ Handled = Current
  BY DEF KeepTask, EndFrame, IInv, Typed, FrameInv, TimingTask, Handled, Current
<1>2. Handled.status = "active"
  BY <1>1, RuntimeTypes
  DEF IInv, QueueInv, FrameInv, SlotNamesActiveTask, AbortStops, Current, TaskIds
<1>3. stage \in AttachStages => ~attached
  BY StageSets DEF IInv, StageInv, Custody
<1>4. ~AttachTimedOut /\ ~ReleaseTimedOut /\ ~NoProgress
  BY <1>1, <1>3 DEF Verdict, FailureVerdict, AttachTimedOut
<1>5. /\ Current \in TaskRecord /\ now \in Nat
      /\ failureRuntime \in [task : Nat, releaseStageAt : Time, progressAt : Time,
                             recoveryAt : Time]
  BY <1>1, RuntimeTypes DEF TypeOK
<1>6. /\ Current.startedAt # NoTime /\ failureRuntime.task = handled
      /\ stage \in ReleaseStages => failureRuntime.releaseStageAt # NoTime
      /\ failureRuntime.progressAt # NoTime
  BY <1>1 DEF ClockInv, ClocksSet
<1>7. Current.startedAt \in Nat /\ failureRuntime.progressAt \in Nat
  BY <1>5, <1>6 DEF TaskRecord, Time
<1>8. stage \in ReleaseTimed => failureRuntime.releaseStageAt \in Nat
  BY <1>5, <1>6 DEF Time, ReleaseStages
<1>9. stage \in AttachStages => now - Current.startedAt <= AttachTimeout
  BY <1>1, <1>4, <1>5, <1>6, <1>7, PeriodAssumption DEF AttachTimedOut, Elapsed
<1>10. stage \in ReleaseTimed => now - failureRuntime.releaseStageAt <= ReleaseTimeout
  BY <1>4, <1>5, <1>6, <1>8, PeriodAssumption DEF ReleaseTimedOut, Elapsed, ReleaseStages
<1>11. now - failureRuntime.progressAt <= NoProgressTimeout
  BY <1>2, <1>4, <1>5, <1>6, <1>7, PeriodAssumption DEF NoProgress, Elapsed
<1> QED
  BY <1>6, <1>9, <1>10, <1>11 DEF ReleaseStages

(* The timing step keeps the clocks: it leaves a task in the slot only within its  *)
(* limits, in a recovery whose clocks are still the failed task's, or aborted.     *)
LEMMA TimingKeepsClocks ==
  ASSUME IInv, ClockInv, HandleTiming
  PROVE  ClockInv'
<1>1. /\ phase = "timing" /\ phase' = "activate" /\ TypeOK
      /\ UNCHANGED <<now, machineRuntime>>
  BY DEF HandleTiming, UnblockQueue, FailTask, EnterRecovery, AbortEpisode, KeepTask,
         EndFrame, IInv, Typed, runtimeVars
<1>2. /\ handled \in 1..Len(tasks) /\ Handled \in TaskRecord /\ handled # NoTask
      /\ MarkedTask \in TaskRecord /\ FailedTask \in TaskRecord /\ RecoveryTask \in TaskRecord
      /\ tasks \in Seq(TaskRecord) /\ now \in Nat
  BY <1>1, TimingTypes DEF IInv, TypeOK, TaskIds, NoTask
<1>3. /\ MarkedTask.startedAt = Handled.startedAt
      /\ FailedTask.startedAt = Handled.startedAt
  BY <1>2 DEF MarkedTask, FailedTask, TaskRecord
(* Replacing the handled task keeps every start time. *)
<1>4. ASSUME tasks' = [tasks EXCEPT ![handled] = MarkedTask]
             \/ tasks' = [tasks EXCEPT ![handled] = FailedTask],
             UNCHANGED activeTask, activeTask # NoTask
      PROVE  Current'.startedAt = Current.startedAt
  <2>1. activeTask \in 1..Len(tasks)
    BY <1>1, <1>4, RuntimeTypes DEF TaskIds
  <2> QED
    BY <1>2, <1>3, <1>4, <2>1, ReplaceElement DEF Current, Handled
<1>5. CASE UnblockQueue
  <2>1. activeTask = NoTask
    BY <1>1, <1>2, <1>5
    DEF UnblockQueue, Verdict, RecoveryDone, FailureVerdict, IInv, FrameInv, TimingTask, QueueInv,
        SlotNamesActiveTask, AbortStops, Aborted, Handled, TaskIds
  <2> QED
    BY <1>1, <1>5, <2>1 DEF UnblockQueue, craneVars, runtimeVars, ClockInv, PendingClocked,
                            WithinLimits, ClocksSet
<1>6. CASE FailTask
  BY <1>1, <1>6 DEF FailTask, runtimeVars, ClockInv, PendingClocked, WithinLimits, ClocksSet
<1>7. CASE EnterRecovery
  <2>1. /\ tasks' = Append([tasks EXCEPT ![handled] = FailedTask], RecoveryTask)
        /\ activeTask' = Len(tasks) + 1 /\ stage' = "recovery_release"
        /\ failureRuntime' = [failureRuntime EXCEPT !.recoveryAt = now]
    BY <1>7 DEF EnterRecovery, RecoveryId
  <2>2. tasks'[Len(tasks) + 1] = RecoveryTask
    BY <1>2, <2>1, ReplaceElement, AppendElement
  <2>3. Current'.startedAt # NoTime
    BY <1>2, <2>1, <2>2 DEF Current, RecoveryTask, NoTime
  <2>4. /\ failureRuntime'.task = handled
        /\ failureRuntime'.progressAt = failureRuntime.progressAt
    BY <1>1, <2>1 DEF ClockInv, ClocksSet, TypeOK
  <2>5. failureRuntime'.task # activeTask'
    BY <1>2, <2>1, <2>4
  <2>6. stage' \notin AttachStages /\ stage' \notin {"attach_pending", "release_pending"}
    BY <2>1 DEF AttachStages
  <2> QED
    BY <1>1, <1>2, <2>3, <2>4, <2>5, <2>6 DEF ClockInv, PendingClocked, WithinLimits, ClocksSet
<1>8. CASE AbortEpisode
  <2>1. Aborted'
    BY <1>8 DEF AbortEpisode, Aborted
  <2>2. activeTask' # NoTask => Current'.startedAt # NoTime
    BY <1>4, <1>8 DEF AbortEpisode, ClockInv, ClocksSet
  <2>3. stage' = stage \/ stage' = "recovery_release"
    BY <1>8 DEF AbortEpisode
  <2> QED
    BY <1>1, <1>8, <2>1, <2>2, <2>3
    DEF AbortEpisode, runtimeVars, ClockInv, PendingClocked, WithinLimits, ClocksSet
<1>9. CASE KeepTask
  <2>1. /\ UNCHANGED <<now, activeTask, stage, failureRuntime, machineRuntime>>
        /\ tasks' = [tasks EXCEPT ![handled] = MarkedTask]
    BY <1>9 DEF KeepTask, craneVars, runtimeVars
  <2>2. activeTask # NoTask => Current'.startedAt = Current.startedAt
    BY <1>4, <2>1
  <2>3. WithinLimits'
    <3>1. SUFFICES ASSUME activeTask # NoTask PROVE WithinLimits'
      BY <2>1 DEF WithinLimits
    <3> QED
      BY <1>9, <2>1, <2>2, <3>1, KeptWithinLimits DEF WithinLimits
  <2> QED
    BY <1>1, <2>1, <2>2, <2>3 DEF ClockInv, PendingClocked, ClocksSet
<1> QED
  BY <1>5, <1>6, <1>7, <1>8, <1>9 DEF HandleTiming

(* No task outstays its stage group's timeout or goes without progress past its  *)
(* limit, and a pending attach or release always has the clock that ends it: no   *)
(* path through update_after_physics skips a clock, whatever the timeouts.        *)
THEOREM StagesAreBounded == Spec => []StagesBounded
<1>1. Init => ClockInv
  BY ClockInit
<1>2. IInv /\ ClockInv /\ [Next]_vars => ClockInv'
  <2> SUFFICES ASSUME IInv, ClockInv, [Next]_vars PROVE ClockInv'
    OBVIOUS
  <2>1. CASE ActivateTask \/ ActivateNothing \/ SkipQueue
    BY <2>1, ActivationKeepsClocks
  <2>2. CASE \E a \in Actions, ok \in BOOLEAN, moved \in BOOLEAN : StepMachine(a, ok, moved)
    BY <2>2, MachineKeepsClocks
  <2>3. CASE HandleTiming
    BY <2>3, TimingKeepsClocks
  <2>4. CASE UNCHANGED vars
    BY <2>4 DEF vars, queueVars, craneVars, runtimeVars, ClockInv, PendingClocked,
                WithinLimits, ClocksSet, Current, Aborted
  <2> QED
    BY <2>1, <2>2, <2>3, <2>4 DEF Next
<1>3. ClockInv => StagesBounded
  BY DEF ClockInv, PendingClocked, WithinLimits, StagesBounded
<1> QED
  BY <1>1, <1>2, <1>3, QueueInvariant, PTL DEF Spec

================================================================================
