----------------------------- MODULE SafetyPipeline -----------------------------
(***************************************************************************)
(* What stands between an operator's command and the levers (safety.py,       *)
(* called by ProductionSafetyAdapter): the mechanical limits, the forbidden    *)
(* zones, and the interventions of the safety mode on the cranes at risk.      *)
(* Everything is decided on the state of the decision's snapshot, looking one  *)
(* frame ahead.                                                              *)
(***************************************************************************)
EXTENDS OnlineRisk

CONSTANTS
    Zones,                      \* forbidden zones: boxes [low, high] of grid points
    ZonePolicy,                 \* site.forbidden_zone_policy.mode
    Weight,                     \* load_weight_t of each crane's load
    MaxLoad, MaxLoadRadius,     \* the load chart of every crane:
    TipLoad, JibLength,         \*   max_load_t up to a radius, then linear to the tip,
    RatedMoment,                \*   under the rated moment
    Segments                    \* FORBIDDEN_ZONE_SEGMENT_SAMPLES

ASSUME ZoneAssumption == /\ ZonePolicy \in {"task_only", "hard"}
                         /\ Segments \in Nat \ {0}
ASSUME ChartAssumption == /\ JibLength > MaxLoadRadius /\ TipLoad <= MaxLoad
                          /\ Weight \in [Cranes -> Nat]

(* A parsed command, and what becomes of it. *)
Command(levers, deadman, estop, reasons) ==
    [levers |-> levers, deadman |-> deadman, estop |-> estop, reasons |-> reasons]
NeutralStop == Command(NeutralLevers, TRUE, FALSE, {})

(* is_load_allowed: the load chart and the rated moment at radius r. *)
LoadAllowed(w, r) ==
    /\ IF r <= MaxLoadRadius THEN w <= MaxLoad
       ELSE (w - MaxLoad) * (JibLength - MaxLoadRadius)
                <= (r - MaxLoadRadius) * (TipLoad - MaxLoad)
    /\ w * r <= RatedMoment

(* Mutant: the radius the trolley has is looked at. *)
OverloadsNow(c, state, lever) == state.load /\ ~LoadAllowed(Weight[c], state.pos["trolley"])

(* command_would_exceed_load_or_moment: it looks at the radius the trolley     *)
(* would have, be it farther out or farther in.                               *)
Overloads(c, state, lever) ==
    state.load /\ ~LoadAllowed(Weight[c], state.pos["trolley"] + Estimated("trolley", lever))

(* command_would_exceed_trolley_limits and _hoist_limits *)
LeavesRange(c, state, x, lever) ==
    state.pos[x] + Estimated(x, lever) \notin Low[c][x]..High[c][x]

(* apply_mechanical_safety *)
Mechanical(c, state, parsed) ==
    LET beyond == {x \in Linear : LeavesRange(c, state, x, parsed.levers[x])}
        blocked == beyond \cup (IF Overloads(c, state, parsed.levers["trolley"])
                                THEN {"trolley"} ELSE {})
    IN  IF ~parsed.deadman \/ parsed.estop
        THEN [parsed EXCEPT !.levers = NeutralLevers, !.reasons = {"mechanical"}]
        ELSE [parsed EXCEPT
                !.levers = [x \in Axes |-> IF x \in blocked THEN Neutral ELSE @[x]],
                !.reasons = IF blocked # {} THEN {"mechanical"} ELSE {}]

(* predict_next_hook_position *)
PredictedHook(c, state, levers) ==
    LET moved(x) == state.pos[x] + Estimated(x, levers[x])
    IN  Along(c, moved("slew") % Turn,
              Clip(moved("trolley"), Low[c]["trolley"], High[c]["trolley"]),
              Clip(moved("hoist"), Low[c]["hoist"], High[c]["hoist"]))

(* point_in_forbidden_zone, of a point given in `scale`ths. *)
InZone(point, scale, zone) ==
    \A i \in 1..3 : zone.low[i] * scale <= point[i] /\ point[i] <= zone.high[i] * scale

InSomeZone(c, state) == \E zone \in Zones : InZone(Hook(c, state), 1, zone)

(* movement_enters_forbidden_zone: samples of the segment, its start included. *)
Enters(from, to) ==
    \E zone \in Zones, k \in 0..Segments :
        InZone([i \in 1..3 |-> from[i] * Segments + (to[i] - from[i]) * k], Segments, zone)

(* _hard_or_default_policy: a policy for the generation of tasks only becomes hard, *)
(* though its comment says "record-only" (TaskOnlyRecords of ControlLoop).        *)
RuntimePolicy == IF ZonePolicy = "task_only" THEN "hard" ELSE ZonePolicy

(* apply_forbidden_zone_policy *)
Zoned(c, state, order) ==
    IF RuntimePolicy = "hard" /\ Enters(Hook(c, state), PredictedHook(c, state, order.levers))
    THEN [order EXCEPT !.levers = NeutralLevers, !.reasons = @ \cup {"zone"}]
    ELSE order

(* limit_speed_on_high_risk and force_stop_on_high_risk *)
Slowed(order) ==
    [order EXCEPT !.levers = [x \in Axes |-> IF @[x].dir = 0 THEN @[x]
                                             ELSE [@[x] EXCEPT !.slow = 2]],
                  !.reasons = @ \cup {"risk"}]

(* Mutant: the slew is left to run. *)
StoppedButSlew(order) ==
    [order EXCEPT !.levers = [NeutralLevers EXCEPT !["slew"] = order.levers["slew"]],
                  !.reasons = @ \cup {"risk"}]

Stopped(order) ==
    [order EXCEPT !.levers = NeutralLevers, !.reasons = @ \cup {"risk"}]

(* apply_risk_interventions; S0 and S1 leave the command as it is. *)
Intervened(order, level, mode) ==
    CASE mode = "S2" /\ level \in Risky -> Slowed(order)
      [] mode = "S3" /\ level \in Risky -> Stopped(order)
      [] OTHER -> order

(* apply_safety_pipeline: one command of every crane on one snapshot, first the *)
(* limits and zones of each, then the risk of all that is left of them.         *)
Allowed(states, parsed) ==
    [c \in Cranes |-> Zoned(c, states[c], Mechanical(c, states[c], parsed[c]))]
Executed(allowed, risks, mode) ==
    [c \in Cranes |-> Intervened(allowed[c], LevelOf(c, risks), mode)]
================================================================================
