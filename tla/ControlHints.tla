------------------------------ MODULE ControlHints ------------------------------
(***************************************************************************)
(* What the operator of a crane is told about its task, and what becomes of   *)
(* the task when he does as he is told: the control hint (observation.py),    *)
(* the stage policy of the prompt (prompt_builder.py) and the geometry the    *)
(* state machine asks of each stage (task_state_machine.py, whose other side, *)
(* timers and failures, is TaskLifecycle).                                   *)
(*                                                                          *)
(* One crane has a task; Pickup and Dropoff are given as slew step, radius    *)
(* and hook height.                                                          *)
(***************************************************************************)
EXTENDS SafetyPipeline

CONSTANTS
    Worker,                       \* the crane with the task
    Pickup, Dropoff,
    LiftHeight,                   \* safe_transport_height_m and approach heights: their maximum
    AlignXY, AttachXY, ReleaseXY, \* thresholds of the state machine; xy as squares
    AttachHeight, ReleaseHeight,
    SlowSpeed,                    \* attach_ and release_speed_threshold, by axis
    Precision                     \* distance_precision_m, by visibility

ASSUME WorkerAssumption == Worker \in Cranes
ASSUME PointAssumption ==
    \A p \in {Pickup, Dropoff} : p \in [angle : 0..(Turn - 1), r : Nat, z : Int]

Stages == {"idle", "move_to_pickup", "align_pickup", "lower_for_attach", "attach_pending",
           "lift_load", "move_to_dropoff", "align_dropoff", "lower_for_release",
           "release_pending"}

(* current_target_for_stage; lifting aims above the pickup. *)
Target(stage) ==
    CASE stage \in {"move_to_pickup", "align_pickup", "lower_for_attach", "attach_pending"} -> Pickup
      [] stage = "lift_load" -> [Pickup EXCEPT !.z = LiftHeight]
      [] OTHER -> Dropoff

XYError(state, point) ==
    SquaredDistance(Along(Worker, state.pos["slew"], state.pos["trolley"], 0),
                    Along(Worker, point.angle, point.r, 0))
HeightError(state, point) == Magnitude(state.pos["hoist"] - point.z)
SlowEnough(state) == \A x \in Axes : Magnitude(state.vel[x]) <= SlowSpeed[x]

(* _attach_blocking_reason and _release_blocking_reason.  The state machine    *)
(* has the same tests: _attach_rejection_reason, _release_rejection_reason.   *)
AttachReason(stage, state) ==
    CASE stage # "lower_for_attach" -> "wrong_stage"
      [] stage = "lower_for_attach" /\ XYError(state, Pickup) > AttachXY -> "xy"
      [] OTHER -> IF HeightError(state, Pickup) > AttachHeight THEN "height"
                  ELSE IF ~SlowEnough(state) THEN "speed"
                  ELSE IF ~LoadAllowed(Weight[Worker], state.pos["trolley"]) THEN "capacity"
                  ELSE "none"
ReleaseReason(stage, state) ==
    CASE stage # "lower_for_release" -> "wrong_stage"
      [] stage = "lower_for_release" /\ XYError(state, Dropoff) > ReleaseXY -> "xy"
      [] OTHER -> IF HeightError(state, Dropoff) > ReleaseHeight THEN "height"
                  ELSE IF ~SlowEnough(state) THEN "speed"
                  ELSE "none"

(* _angle_delta_deg and _slew_hint_direction: the short way round; two         *)
(* degrees are less than a step.                                             *)
SlewHint(state, point) ==
    LET error == ((point.angle - state.pos["slew"] + Turn \div 2) % Turn) - Turn \div 2
    IN  IF error = 0 THEN 0 ELSE IF error > 0 THEN 1 ELSE -1

(* _linear_hint_direction *)
LinearHint(error, deadband) ==
    IF Magnitude(error) <= deadband THEN 0 ELSE IF error > 0 THEN 1 ELSE -1

(* Mutant: over the load every axis is held, the hoist too. *)
HintHeld(stage, state, visibility) ==
    LET point == Target(stage)
    IN  IF stage \in {"idle", "lower_for_attach", "lower_for_release"} THEN [x \in Axes |-> 0]
        ELSE [x \in Axes |->
                IF x = "slew" THEN SlewHint(state, point)
                ELSE LinearHint((IF x = "trolley" THEN point.r ELSE point.z) - state.pos[x],
                                Precision[visibility])]

(* _build_control_hint: the direction of each axis.  Close to the load the     *)
(* jib and the trolley are moved for a horizontal error only.                 *)
Hint(stage, state, visibility) ==
    LET point   == Target(stage)
        reasons == {AttachReason(stage, state), ReleaseReason(stage, state)} \ {"wrong_stage"}
        towards == [x \in Axes |->
                      CASE x = "slew" -> SlewHint(state, point)
                        [] x = "trolley" -> LinearHint(point.r - state.pos[x], Precision[visibility])
                        [] x = "hoist" -> LinearHint(point.z - state.pos[x], Precision[visibility])]
    IN  IF stage = "idle" \/ "none" \in reasons THEN [x \in Axes |-> 0]
        ELSE IF reasons # {} /\ "xy" \notin reasons
             THEN [x \in Axes |-> IF x = "hoist" THEN towards[x] ELSE 0]
        ELSE towards

(* STAGE_POLICY_PROMPT, followed to the letter; the gear is the operator's, but   *)
(* low for the alignment.                                                    *)
Requested(stage, state) ==
    IF AttachReason(stage, state) = "none" THEN "request_attach"
    ELSE IF ReleaseReason(stage, state) = "none" THEN "request_release"
    ELSE "none"

Followed(stage, state, visibility, gear) ==
    LET hint  == Hint(stage, state, visibility)
        still == \/ stage \in {"idle", "attach_pending", "release_pending"}
                 \/ "speed" \in {AttachReason(stage, state), ReleaseReason(stage, state)}
        fine  == stage \in {"align_pickup", "align_dropoff"}
        used  == IF stage = "lift_load" THEN {"hoist"} ELSE Axes
    IN  Command([x \in Axes |->
                 IF still \/ x \notin used \/ hint[x] = 0 THEN Neutral
                 ELSE [dir |-> hint[x], gear |-> IF fine THEN 1 ELSE gear, slow |-> 1]],
              TRUE, FALSE, {})

(* step_task_state_machine with the state after the physics: the next stage.   *)
(* Delays are not longer than a frame here, so that a pending stage whose      *)
(* conditions still hold ends in the next one.                               *)
NextStage(stage, state, action) ==
    CASE stage = "move_to_pickup" /\ XYError(state, Pickup) <= AlignXY -> "align_pickup"
      [] /\ stage = "align_pickup" /\ XYError(state, Pickup) <= AlignXY
         /\ state.pos["hoist"] > Pickup.z + AttachHeight -> "lower_for_attach"
      [] /\ stage = "lower_for_attach" /\ action = "request_attach"
         /\ AttachReason(stage, state) = "none" -> "attach_pending"
      [] stage = "attach_pending" ->
            IF AttachReason("lower_for_attach", state) = "none" THEN "lift_load"
            ELSE "lower_for_attach"
      [] stage = "lift_load" /\ state.pos["hoist"] >= LiftHeight -> "move_to_dropoff"
      [] stage = "move_to_dropoff" /\ XYError(state, Dropoff) <= AlignXY -> "align_dropoff"
      [] stage = "align_dropoff" /\ XYError(state, Dropoff) <= AlignXY -> "lower_for_release"
      [] /\ stage = "lower_for_release" /\ action = "request_release"
         /\ ReleaseReason(stage, state) = "none" -> "release_pending"
      [] stage = "release_pending" ->
            IF ReleaseReason("lower_for_release", state) = "none" THEN "idle"
            ELSE "lower_for_release"
      [] OTHER -> stage

(* The load hangs from the end of attach_pending to the end of release_pending. *)
Carrying == {"lift_load", "move_to_dropoff", "align_dropoff", "lower_for_release",
             "release_pending"}
================================================================================
