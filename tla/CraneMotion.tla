------------------------------ MODULE CraneMotion ------------------------------
(***************************************************************************)
(* One crane from lever to position: the velocity a lever asks for           *)
(* (controller.py with the tables of control.py), the smoothing to the       *)
(* model's speeds and accelerations, and one physics step (physics.py).      *)
(* safety.py and risk.py estimate the same velocity from a table of their    *)
(* own: Estimated.                                                           *)
(*                                                                          *)
(* Lengths, angles and speeds are integers; a speed is what one frame covers *)
(* and an acceleration what one frame adds.  An angle is counted in steps of *)
(* a turn, which is all its sine and cosine keep of it.  Gears 1..5 are       *)
(* 1..TopGear.                                                              *)
(***************************************************************************)
EXTENDS Integers

CONSTANTS
    Cranes,
    Turn,          \* steps of a full turn of the slew
    TopGear,
    MaxSpeed,      \* *_speed_max of the crane model, by axis
    MaxAcc,        \* *_acc_max of the crane model, by axis
    GearSpeed,     \* the controller's gear tables, by axis and gear
    Low, High      \* trolley_r_min/max and hook_h_min/max, by crane and axis

Linear == {"trolley", "hoist"}
Axes   == Linear \cup {"slew"}
Gears  == 0..TopGear

ASSUME CraneAssumption == Cranes # {}
ASSUME SpeedAssumption ==
    /\ Turn \in Nat \ {0} /\ TopGear \in Nat \ {0}
    /\ MaxSpeed \in [Axes -> Nat \ {0}] /\ MaxAcc \in [Axes -> Nat \ {0}]
    /\ GearSpeed \in [Axes -> [Gears -> Nat]]
    /\ \A x \in Axes : GearSpeed[x][0] = 0
ASSUME RangeAssumption ==
    /\ Low \in [Cranes -> [Linear -> Int]] /\ High \in [Cranes -> [Linear -> Int]]
    /\ \A c \in Cranes, x \in Linear :
          \* _validate_requested_axis_delta refuses a frame that covers more
          Low[c][x] + MaxSpeed[x] <= High[c][x]

(* A lever: its direction -1, 0 or 1, its gear, and what divides its speed    *)
(* (speed_scale is 1 or, after limit_speed_on_high_risk, one half).           *)
Lever   == [dir : {-1, 0, 1}, gear : Gears, slow : {1, 2}]
Neutral == [dir |-> 0, gear |-> 0, slow |-> 1]
NeutralLevers == [x \in Axes |-> Neutral]

Magnitude(v) == IF v < 0 THEN -v ELSE v

Clip(v, lower, upper) == IF v < lower THEN lower ELSE IF v > upper THEN upper ELSE v

(* estimate_axis_velocity: a share of the model's speed, one per gear. *)
Estimated(x, lever) == lever.dir * ((MaxSpeed[x] * lever.gear) \div TopGear)

(* map_axis_to_desired_velocity: the controller's own table, then the scale. *)
Desired(x, lever) == lever.dir * (GearSpeed[x][lever.gear] \div lever.slow)

Approach(current, target, step) ==
    IF Magnitude(target - current) <= step THEN target
    ELSE IF target > current THEN current + step ELSE current - step

(* smooth_axis_velocity *)
Smoothed(x, current, desired) ==
    Approach(current, Clip(desired, -MaxSpeed[x], MaxSpeed[x]), MaxAcc[x])

(* resolve_controller_mode.  A command that ran out was replaced by a neutral *)
(* stop before the controller sees it.                                       *)
Mode(order) ==
    CASE order.estop -> "emergency_stop"
      [] ~order.deadman -> "deadman_stop"
      [] \A x \in Axes : order.levers[x].dir = 0 \/ order.levers[x].gear = 0 -> "neutral_stop"
      [] OTHER -> "normal"

(* compute_target: the velocities the physics is given. *)
Targets(state, order) ==
    [x \in Axes |-> Smoothed(x, state.vel[x],
                             IF Mode(order) = "normal" THEN Desired(x, order.levers[x]) ELSE 0)]

(* step_crane_state: an emergency stop zeroes the targets; the slew is         *)
(* smoothed once more, trolley and hoist take the target and stop at a limit. *)
StepVelocity(state, order, x) ==
    LET target == IF Mode(order) = "emergency_stop" THEN 0 ELSE Targets(state, order)[x]
        clipped == Clip(target, -MaxSpeed[x], MaxSpeed[x])
    IN  IF x = "slew" THEN Approach(state.vel[x], clipped, MaxAcc[x]) ELSE clipped

Stepped(c, state, order) ==
    LET v == [x \in Axes |-> StepVelocity(state, order, x)]
        free == [x \in Linear |-> state.pos[x] + v[x]]
        held == [x \in Linear |-> Clip(free[x], Low[c][x], High[c][x])]
    IN  [state EXCEPT
           !.pos = [x \in Axes |-> IF x = "slew" THEN (state.pos[x] + v[x]) % Turn
                                   ELSE held[x]],
           !.vel = [x \in Axes |-> IF x \in Linear /\ held[x] # free[x] THEN 0 ELSE v[x]]]

AtRest(state) == \A x \in Axes : state.vel[x] = 0

(* initialize_crane_state: no load, the trolley in, the hook up. *)
Started(c, angle) ==
    [pos |-> [x \in Axes |-> CASE x = "slew" -> angle [] x = "trolley" -> Low[c][x]
                               [] x = "hoist" -> High[c][x]],
     vel |-> [x \in Axes |-> 0], load |-> FALSE]

================================================================================
