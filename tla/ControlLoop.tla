------------------------------- MODULE ControlLoop -------------------------------
(***************************************************************************)
(* The control side of a frame of EpisodeRunner (scheduler.py): the weather,   *)
(* on some frames a decision for every crane through the safety pipeline, the  *)
(* expiry of commands, controller and physics, the stage of the task, and     *)
(* what is recorded: the online risk and a collision.  FrameLoop has the       *)
(* order of these calls and their failures; here they compute.                *)
(*                                                                          *)
(* In a "guided" episode the worker has a task and does what its hints say; in   *)
(* the others the operators ask for what they like of CommandSets, and a load is     *)
(* taken or set down by a worker at rest.                                     *)
(***************************************************************************)
EXTENDS ControlHints

CONSTANTS
    Drivers,       \* the kinds of episode, "guided" one of them
    SafetyModes,   \* by kind, of S0 .. S3
    Weathers,      \* by kind, records of wind and visibility
    CommandSets,   \* by kind, the commands the operators may give together
    Durations,     \* the frames the commands of a batch may last, by crane
    Interval,      \* frames from one decision to the next
    StartAngle     \* theta_init_deg, by crane

\* A decision does not fall on every frame, so that age shows a frame go by.
ASSUME IntervalAssumption == /\ Interval \in Nat \ {0, 1}
                             /\ Durations \subseteq [Cranes -> Nat \ {0}]

VARIABLES
    driver, safety,    \* what kind of episode it is, and its safety mode
    states,            \* crane_states
    orders,            \* CommandStore._commands
    left,              \* frames until expires_at_s, by crane
    age,               \* frames since the decision; 0 when one is due
    weather,           \* the runner's weather_state
    riskWeather,       \* ProductionRiskAdapter.weather_state
    stage,             \* task_stage of the worker
    level,             \* what the recorded online risk says of each crane
    status

setting == <<driver, safety>>
controlVars == <<setting, states, orders, left, age, weather, riskWeather, stage, level, status>>

ControlInit ==
    /\ driver \in Drivers /\ safety \in SafetyModes[driver]
    /\ states = [c \in Cranes |-> Started(c, StartAngle[c])]
    /\ orders = [c \in Cranes |-> NeutralStop]
    /\ left = [c \in Cranes |-> 0]
    /\ age = 0
    /\ weather \in Weathers[driver] /\ riskWeather = weather
    /\ stage = IF driver = "guided" THEN "move_to_pickup" ELSE "idle"
    /\ level = [c \in Cranes |-> "safe"]
    /\ status = "running"

(* expire_or_neutral_stop, of commands with so many frames left. *)
InForce(executed, frames) ==
    [c \in Cranes |-> IF frames[c] = 0 THEN NeutralStop ELSE executed[c]]

(* Mutant: the weather the adapter was built with. *)
CalmWind == "calm"

(* evaluate_after_physics takes the weather of the last decision. *)
RecordedWind == riskWeather'.wind

(* WeatherGenerator.update: the weather of the timeline, or the last good one.   *)
Updated == Weathers[driver] \cup {weather}

(* What follows the decision in a frame. *)
RestOfFrame(executed, frames, action) ==
    \E current \in {InForce(executed, frames)} :
    \E moved \in {[c \in Cranes |-> Stepped(c, states[c], current[c])]} :
    /\ orders' = current /\ age' = (age + 1) % Interval
    /\ left' = [c \in Cranes |-> IF frames[c] = 0 THEN 0 ELSE frames[c] - 1]
    /\ stage' = IF driver = "guided" THEN NextStage(stage, moved[Worker], action) ELSE stage
    /\ states' = IF driver = "guided"
                 THEN [moved EXCEPT ![Worker].load = stage' \in Carrying] ELSE moved
    /\ \E risks \in {OnlineRisks(states', current, RecordedWind)} :
          level' = [c \in Cranes |-> LevelOf(c, risks)]
    /\ status' = IF Collided(states') THEN "failed_collision" ELSE "running"

(* A frame with a decision.  The risk adapter remembers the weather. *)
Decided(parsed, durations, action) ==
    /\ weather' \in Updated /\ riskWeather' = weather'
    /\ \E allowed \in {Allowed(states, parsed)} :
       \E risks \in {OnlineRisks(states, allowed, weather'.wind)} :
       \E executed \in {Executed(allowed, risks, safety)} :
          RestOfFrame(executed, durations, action)
    /\ UNCHANGED setting

DecisionFrame ==
    /\ driver # "guided" /\ status = "running" /\ age = 0
    /\ \E parsed \in CommandSets[driver], durations \in Durations :
          Decided(parsed, durations, "none")

GuidedFrame ==
    /\ driver = "guided" /\ status = "running" /\ age = 0
    /\ \E told \in Updated :
       \E gear \in Gears \ {0} :
       \E followed \in {Followed(stage, states[Worker], told.visibility, gear)} :
          /\ weather' = told
          /\ Decided([c \in Cranes |-> IF c = Worker THEN followed ELSE NeutralStop],
                     [c \in Cranes |-> 1], Requested(stage, states[Worker]))

(* A frame between decisions: the weather of the frame is not the risk's.     *)
(* A guided command lasts one frame, so that no action of the task is left.   *)
HeldFrame ==
    /\ status = "running" /\ age > 0
    /\ weather' \in Updated /\ riskWeather' = riskWeather
    /\ RestOfFrame(orders, left, "none")
    /\ UNCHANGED setting

(* The task system of a free episode: a load is taken within the capacity, or   *)
(* set down, by a crane at rest.                                              *)
HandleLoad ==
    /\ driver # "guided" /\ status = "running" /\ age = 0 /\ AtRest(states[Worker])
    /\ ~states[Worker].load => LoadAllowed(Weight[Worker], states[Worker].pos["trolley"])
    /\ states' = [states EXCEPT ![Worker].load = ~@]
    /\ UNCHANGED <<setting, orders, left, age, weather, riskWeather, stage, level, status>>

ControlNext == DecisionFrame \/ GuidedFrame \/ HeldFrame \/ HandleLoad

(* run_episode runs one frame after the other.                               *)
Frame == driver = "guided" /\ status = "running" /\ age' = (age + 1) % Interval
ControlFairness == WF_age(Frame)
ControlSpec == ControlInit /\ [][ControlNext]_controlVars /\ ControlFairness
--------------------------------------------------------------------------------
Hard == ZonePolicy = "hard"

(* The safety pipeline looks one frame ahead on estimated velocities           *)
(* (predict_next_hook_position, command_would_exceed_load_or_moment).  What it   *)
(* guarantees for a crane at rest: the frame of the decision takes its load to   *)
(* no radius beyond the chart, or inwards where it is beyond already, and on an  *)
(* unchanged bearing its hook into no hard zone; one that came to rest inside a   *)
(* zone it keeps there, since the check looks at the point a movement starts     *)
(* from too (movement_enters_forbidden_zone).  Only a crane under way, or a later *)
(* frame of the command, comes in.                                           *)
FirstFrameSafe ==
    [][\A c \in Cranes :
          LET now  == states[c].pos["trolley"]
              then == states'[c].pos["trolley"]
          IN  age = 0 /\ age' # age /\ AtRest(states[c]) =>
                /\ Hard /\ states'[c].pos["slew"] = states[c].pos["slew"]
                   /\ InSomeZone(c, states'[c]) => InSomeZone(c, states[c])
                /\ Hard /\ InSomeZone(c, states[c]) => states'[c].pos = states[c].pos
                /\ states[c].load /\ states'[c].load /\ ~LoadAllowed(Weight[c], then)
                   => ~LoadAllowed(Weight[c], now) /\ then <= now]_controlVars

(* S3 stops a crane at risk: while such a command is in force no axis of it     *)
(* gains speed, from the decision to its last frame (force_stop_on_high_risk,   *)
(* through the neutral stop of the controller and the smoothing).            *)
RiskyNeverGains ==
    [][\A c \in Cranes, x \in Axes :
          "risk" \in orders'[c].reasons /\ safety = "S3" =>
              Magnitude(states'[c].vel[x]) <= Magnitude(states[c].vel[x])]_controlVars

(* The recorded level is the one of the recorded states and commands in the      *)
(* weather of the frame, unless the wind changed since the decision: the risk     *)
(* adapter keeps the weather of its last decision, never an older one.        *)
RecordedRiskCurrent ==
    [][status' # status \/ level' # level \/ states' # states =>
          \/ riskWeather'.wind # weather'.wind /\ age' # 1 % Interval
          \/ states'[Worker].load # states[Worker].load
          \/ level' = [c \in Cranes |->
                LevelOf(c, OnlineRisks(states', orders', weather'.wind))]]_controlVars

(* The hints lead a hook above its load down to it: where the visibility comes to   *)
(* stay good, a crane that lowers for its load gets it (control hint, stage     *)
(* policy, state machine, command duration and inertia together).           *)
GuidedAttach ==
    <>[](weather.visibility = "good") => (stage = "lower_for_attach" ~> stage = "lift_load")

(* docs/moduleH/overview.md:194 of a zone entered: task_only records it, hard        *)
(* prevents it; task03_forbidden_zone_policy.md:81: task_only does not change the   *)
(* command.  So in a task_only scenario no command in force was changed for a     *)
(* zone (apply_forbidden_zone_policy under _hard_or_default_policy).            *)
TaskOnlyRecords ==
    ZonePolicy = "task_only" => \A c \in Cranes : "zone" \notin orders[c].reasons

================================================================================
