------------------------------- MODULE FrameLoop -------------------------------
(***************************************************************************)
(* The frame loop of one episode: EpisodeRunner with its DecisionClock and   *)
(* CommandStore (scheduler.py), the wrapper that records and finalizes       *)
(* (production_runner.py) and the visual log it leaves (recorder.py).        *)
(*                                                                          *)
(* A frame is a sequence of calls into the other components, any of which    *)
(* may raise; what the calls before it changed stays changed.  `pc` is the   *)
(* next call.  Two drivers exist: the API calls run_one_frame on the wrapper *)
(* whenever it likes, the batch and command-line runs call run_episode.      *)
(* Another thread may ask for a stop at any moment.                          *)
(*                                                                          *)
(* Times are in ticks; a frame is Dt of them.                                *)
(***************************************************************************)
EXTENDS Integers, Sequences

CONSTANTS
    Cranes,
    Dt, Duration, MinDuration, Cooldown, Interval,
    StopWhenDone,       \* sim.stop_when_all_tasks_done
    NeutralDuration,    \* how long a neutral stop lasts before it is renewed
    Durations           \* the durations a decided command may have

Never == -1

ASSUME CraneAssumption  == Cranes # {}
ASSUME PeriodAssumption == /\ Dt \in Nat \ {0} /\ Duration \in Nat \ {0}
                           /\ Interval \in Nat \ {0} /\ NeutralDuration \in Nat \ {0}
                           /\ MinDuration \in Nat /\ Cooldown \in Nat
                           /\ Durations \subseteq Nat /\ StopWhenDone \in BOOLEAN

(* What may go wrong in a frame, in the order update_terminal_status looks. *)
Causes == <<"failed_collision", "failed_invalid_state", "llm_failed", "failed_recovery">>
Failures == {Causes[i] : i \in DOMAIN Causes} \cup {"failed_replay_mismatch"}
Statuses == {"running", "completed", "timeout", "stopped_by_user"} \cup Failures

FrameCalls == {"initial", "weather", "decide", "expire", "physics", "settle",
               "record", "broadcast", "commit"}
Calls == {"idle", "stop_record", "stop_broadcast", "wrap", "finish", "ended"} \cup FrameCalls

VARIABLES
    driver,           \* "api" or "batch"
    pc,               \* the next call of the frame; "idle" between frames
    frame,            \* frame_index; time_s is Dt times as much
    status,           \* episode_status
    stopRequested,    \* _stop_requested
    initialRecorded,  \* _initial_recorded
    doneSince,        \* _all_tasks_done_since_s
    tasksDone,        \* all_ordinary_tasks_terminal(task_queues)
    lastDecision,     \* DecisionClock._last_decision_time_s, by crane
    commands,         \* CommandStore._commands, by crane
    llmFailed,        \* some result of this frame's decisions carries llm_failed
    raisedIn,         \* the last call that raised, or "none"
    started,          \* the recorder has a run directory
    rows,             \* visual/frames.jsonl
    finalized,        \* ProductionRecorderAdapter._finalized
    manifest          \* episode_status of the manifest and summary, or "none"

clockVars  == <<lastDecision, commands>>
taskVars   == <<doneSince, tasksDone, llmFailed>>
recordVars == <<started, rows, finalized, manifest>>
runnerVars == <<frame, status, stopRequested, initialRecorded, raisedIn>>
vars == <<driver, pc, clockVars, taskVars, recordVars, runnerVars>>

Now == frame * Dt
NextTime == Now + Dt    \* next_time_s

NeutralStop(t) == [source |-> "neutral", issued |-> t, expires |-> t + NeutralDuration]

Init ==
    /\ driver \in {"api", "batch"}
    /\ pc = "idle"
    /\ frame = 0 /\ status = "running" /\ stopRequested = FALSE
    /\ initialRecorded = FALSE /\ raisedIn = "none"
    /\ doneSince = Never /\ tasksDone = FALSE /\ llmFailed = FALSE
    /\ lastDecision = [c \in Cranes |-> Never]
    /\ commands = [c \in Cranes |-> NeutralStop(0)]
    /\ started = FALSE /\ rows = <<>> /\ finalized = FALSE /\ manifest = "none"

--------------------------------------------------------------------------------
(* run_one_frame, run_episode and stop *)

(* should_stop, which only run_episode asks. *)
ShouldStop ==
    \/ status # "running"
    \/ Now >= Duration
    \/ /\ StopWhenDone /\ doneSince # Never
       /\ Now >= MinDuration /\ Now - doneSince >= Cooldown

Stop ==
    /\ ~stopRequested /\ pc # "ended"
    /\ stopRequested' = TRUE
    /\ UNCHANGED <<driver, pc, clockVars, taskVars, recordVars, frame, status,
                   initialRecorded, raisedIn>>

Called == pc = "idle" /\ (driver = "batch" => ~ShouldStop)

BeginFrame ==
    /\ Called /\ status = "running" /\ ~stopRequested
    /\ pc' = IF initialRecorded THEN "weather" ELSE "initial"
    /\ UNCHANGED <<driver, clockVars, taskVars, recordVars, runnerVars>>

(* Mutant: a stop that does not ask whether the episode is over already. *)
StopFrameAlways ==
    /\ Called /\ stopRequested
    /\ status' = "stopped_by_user"
    /\ pc' = IF initialRecorded THEN "stop_record" ELSE "wrap"
    /\ UNCHANGED <<driver, clockVars, taskVars, recordVars, frame, stopRequested,
                   initialRecorded, raisedIn>>
(* The stop is honoured before the frame; the state of the last one is       *)
(* recorded again under the same index.                                      *)
StopFrame ==
    /\ Called /\ status = "running" /\ stopRequested
    /\ status' = "stopped_by_user"
    /\ pc' = IF initialRecorded THEN "stop_record" ELSE "wrap"
    /\ UNCHANGED <<driver, clockVars, taskVars, recordVars, frame, stopRequested,
                   initialRecorded, raisedIn>>

(* A frame asked of an episode that is over. *)
OverFrame ==
    /\ Called /\ status # "running"
    /\ pc' = "wrap"
    /\ UNCHANGED <<driver, clockVars, taskVars, recordVars, runnerVars>>

Row(i) == [frame |-> i, status |-> status]

RecordStop ==
    /\ pc = "stop_record"
    /\ rows' = Append(rows, Row(frame))
    /\ pc' = "stop_broadcast"
    /\ UNCHANGED <<driver, clockVars, taskVars, runnerVars, started, finalized, manifest>>

BroadcastStop ==
    /\ pc = "stop_broadcast"
    /\ pc' = "wrap"
    /\ UNCHANGED <<driver, clockVars, taskVars, recordVars, runnerVars>>

(* Neither call is inside run_one_frame's try: the caller sees the exception. *)
StopRaises ==
    /\ pc \in {"stop_record", "stop_broadcast"}
    /\ raisedIn' = pc
    /\ pc' = IF driver = "batch" THEN "ended" ELSE "idle"
    /\ UNCHANGED <<driver, clockVars, taskVars, recordVars, frame, status, stopRequested,
                   initialRecorded>>

(* The runs of the batch and of the command line leave their loop. *)
LeaveLoop ==
    /\ pc = "idle" /\ driver = "batch" /\ ShouldStop
    /\ pc' = "finish"
    /\ UNCHANGED <<driver, clockVars, taskVars, recordVars, runnerVars>>

--------------------------------------------------------------------------------
(* _run_one_frame *)

RecordInitial ==
    /\ pc = "initial"
    /\ started' = TRUE
    /\ rows' = Append(rows, Row(0))
    /\ initialRecorded' = TRUE
    /\ pc' = "weather"
    /\ UNCHANGED <<driver, clockVars, taskVars, finalized, manifest, frame, status,
                   stopRequested, raisedIn>>

(* weather.update and activate_due_tasks *)
UpdateWeather ==
    /\ pc = "weather"
    /\ pc' = "decide"
    /\ UNCHANGED <<driver, clockVars, taskVars, recordVars, runnerVars>>

Due == {c \in Cranes : lastDecision[c] = Never \/ Now - lastDecision[c] >= Interval}

Decided(c, d) == [source |-> "decision", issued |-> Now, expires |-> Now + d]

(* Every due crane decides on one snapshot and its command replaces the old  *)
(* one in one batch; the clock is marked after that.                         *)
Decide(duration, failed) ==
    /\ pc = "decide"
    /\ commands' = [c \in Cranes |-> IF c \in Due THEN Decided(c, duration[c])
                                     ELSE commands[c]]
    /\ lastDecision' = [c \in Cranes |-> IF c \in Due THEN Now ELSE lastDecision[c]]
    /\ llmFailed' = (failed /\ Due # {})
    /\ pc' = "expire"
    /\ UNCHANGED <<driver, recordVars, runnerVars, doneSince, tasksDone>>

(* Mutant: a command lives through the tick it expires at. *)
ExpiredLate(c) == Now > commands[c].expires

Expired(c) == Now >= commands[c].expires

(* expire_or_neutral_stop: a command that ran out becomes a neutral stop. *)
Expire ==
    /\ pc = "expire"
    /\ commands' = [c \in Cranes |-> IF Expired(c) THEN NeutralStop(Now) ELSE commands[c]]
    /\ pc' = "physics"
    /\ UNCHANGED <<driver, taskVars, recordVars, runnerVars, lastDecision>>

(* Control targets, physics and update_after_physics; tasks only ever finish. *)
StepPhysics(done) ==
    /\ pc = "physics"
    /\ tasksDone' = (tasksDone \/ done)
    /\ pc' = "settle"
    /\ UNCHANGED <<driver, clockVars, recordVars, runnerVars, doneSince, llmFailed>>

FirstCause(causes) ==
    Causes[CHOOSE i \in DOMAIN Causes :
               /\ Causes[i] \in causes
               /\ \A j \in 1..(i - 1) : Causes[j] \notin causes]

(* update_terminal_status of a running episode *)
Terminal(causes) ==
    CASE causes # {} -> FirstCause(causes)
      [] causes = {} /\ StopWhenDone /\ NextTime >= MinDuration /\ Cooldown = 0 /\ tasksDone
           -> "completed"
      [] causes = {} /\ NextTime >= Duration
           /\ ~(StopWhenDone /\ NextTime >= MinDuration /\ Cooldown = 0 /\ tasksDone)
           -> "timeout"
      [] OTHER -> "running"

(* _apply_terminal_status: a candidate returns before the cooldown is looked at. *)
DoneSinceAfter(causes) ==
    IF causes # {} THEN doneSince
    ELSE IF ~tasksDone THEN Never
    ELSE IF doneSince = Never THEN NextTime ELSE doneSince

(* Mutants: promotes before the minimum duration, or one frame late. *)
CooldownMetEarly(since) ==
    /\ StopWhenDone /\ since # Never /\ NextTime - since >= Cooldown
CooldownMetLate(since) ==
    /\ StopWhenDone /\ since # Never
    /\ NextTime >= MinDuration /\ NextTime - since > Cooldown

(* _promote_completed_if_cooldown_met, unless the status is terminal already *)
CooldownMet(since) ==
    /\ StopWhenDone /\ since # Never
    /\ NextTime >= MinDuration /\ NextTime - since >= Cooldown

Settle(causes) ==
    /\ pc = "settle"
    /\ "llm_failed" \in causes <=> llmFailed
    /\ doneSince' = DoneSinceAfter(causes)
    /\ status' = IF Terminal(causes) = "running" /\ CooldownMet(doneSince')
                 THEN "completed" ELSE Terminal(causes)
    /\ pc' = "record"
    /\ UNCHANGED <<driver, clockVars, recordVars, frame, stopRequested, initialRecorded,
                   raisedIn, tasksDone, llmFailed>>

(* Mutant: the frame is recorded under the index it started with. *)
RecordFrameBehind ==
    /\ pc = "record"
    /\ rows' = Append(rows, Row(frame))
    /\ pc' = "broadcast"
    /\ UNCHANGED <<driver, clockVars, taskVars, runnerVars, started, finalized, manifest>>

RecordFrame ==
    /\ pc = "record"
    /\ rows' = Append(rows, Row(frame + 1))
    /\ pc' = "broadcast"
    /\ UNCHANGED <<driver, clockVars, taskVars, runnerVars, started, finalized, manifest>>

Broadcast ==
    /\ pc = "broadcast"
    /\ pc' = "commit"
    /\ UNCHANGED <<driver, clockVars, taskVars, recordVars, runnerVars>>

Commit ==
    /\ pc = "commit"
    /\ frame' = frame + 1
    /\ pc' = "wrap"
    /\ UNCHANGED <<driver, clockVars, taskVars, recordVars, status, stopRequested,
                   initialRecorded, raisedIn>>

(* Mutant: a decision that raised is tried again in the next frame. *)
RaiseRetried(mismatch) ==
    /\ pc \in FrameCalls \ {"expire", "settle", "commit"}
    /\ status' = IF pc = "decide" THEN status ELSE "failed_invalid_state"
    /\ raisedIn' = pc
    /\ pc' = "wrap"
    /\ UNCHANGED <<driver, clockVars, taskVars, recordVars, frame, stopRequested,
                   initialRecorded>>

(* Any call of the frame may raise.  A replay that disagrees has a status of *)
(* its own, everything else is failed_invalid_state; the initial frame may    *)
(* have made the run directory, and been written, before the exception.      *)
Raise(mismatch) ==
    /\ pc \in FrameCalls \ {"expire", "settle", "commit"}
    /\ status' = IF mismatch THEN "failed_replay_mismatch" ELSE "failed_invalid_state"
    /\ mismatch => pc = "decide"
    /\ raisedIn' = pc
    /\ IF pc = "initial"
       THEN \/ UNCHANGED <<started, rows>>
            \/ started' = TRUE /\ rows' = rows
            \/ started' = TRUE /\ rows' = Append(rows, Row(0))
       ELSE UNCHANGED <<started, rows>>
    /\ pc' = "wrap"
    /\ UNCHANGED <<driver, clockVars, taskVars, finalized, manifest, frame,
                   stopRequested, initialRecorded>>

--------------------------------------------------------------------------------
(* ProductionEpisodeRunner *)

(* run_one_frame returns: to run_episode's loop, or through the wrapper. *)
Return ==
    /\ pc = "wrap" /\ (driver = "batch" \/ status = "running")
    /\ pc' = "idle"
    /\ UNCHANGED <<driver, clockVars, taskVars, recordVars, runnerVars>>

Closing == \/ pc = "finish"
           \/ pc = "wrap" /\ driver = "api" /\ status # "running"
AfterClosing == IF driver = "batch" THEN "ended" ELSE "idle"
NothingRecorded == rows = <<>> /\ ~started

(* An episode that ended before its first frame gets one, for the log. *)
RecordLate ==
    /\ pc = "wrap" /\ Closing /\ NothingRecorded
    /\ started' = TRUE
    /\ rows' = Append(rows, Row(0))
    /\ initialRecorded' = TRUE
    /\ UNCHANGED <<driver, pc, clockVars, taskVars, finalized, manifest, frame, status,
                   stopRequested, raisedIn>>

RecordLateRaises ==
    /\ pc = "wrap" /\ Closing /\ NothingRecorded
    /\ started' \in BOOLEAN
    /\ raisedIn' = pc
    /\ pc' = "idle"
    /\ UNCHANGED <<driver, clockVars, taskVars, rows, finalized, manifest, frame, status,
                   stopRequested, initialRecorded>>

(* finalize *)
Finalize ==
    /\ Closing /\ ~NothingRecorded /\ ~finalized
    /\ finalized' = TRUE
    /\ manifest' = status
    /\ pc' = AfterClosing
    /\ UNCHANGED <<driver, clockVars, taskVars, runnerVars, started, rows>>

(* The flag is set first: a finalize that raises is never tried again.  It   *)
(* always raises when no run directory exists.                               *)
FinalizeRaises ==
    /\ Closing /\ ~finalized
    /\ pc = "wrap" => ~NothingRecorded
    /\ finalized' = TRUE
    /\ pc' = AfterClosing
    /\ UNCHANGED <<driver, clockVars, taskVars, runnerVars, started, rows, manifest>>

FinalizeAgain ==
    /\ Closing /\ finalized
    /\ pc' = AfterClosing
    /\ UNCHANGED <<driver, clockVars, taskVars, recordVars, runnerVars>>

--------------------------------------------------------------------------------
Work ==
    \/ RecordStop \/ BroadcastStop \/ StopRaises
    \/ RecordInitial \/ UpdateWeather
    \/ \E duration \in [Cranes -> Durations], failed \in BOOLEAN : Decide(duration, failed)
    \/ Expire
    \/ \E done \in BOOLEAN : StepPhysics(done)
    \/ \E causes \in SUBSET {Causes[i] : i \in DOMAIN Causes} : Settle(causes)
    \/ RecordFrame \/ Broadcast \/ Commit
    \/ \E mismatch \in BOOLEAN : Raise(mismatch)
    \/ Return \/ RecordLate \/ RecordLateRaises
    \/ Finalize \/ FinalizeRaises \/ FinalizeAgain

Drive == BeginFrame \/ StopFrame \/ OverFrame \/ LeaveLoop

Next == Drive \/ Work \/ Stop

Spec == Init /\ [][Next]_vars

(* The loop of run_episode, and the API's worker, call again until it is over, *)
(* and no call of a frame blocks for ever.                                     *)
FairSpec == Spec /\ WF_vars(Drive \/ Work)

--------------------------------------------------------------------------------
(* Properties *)

(* frames.jsonl holds the frames 0, 1, 2, ... without a gap, up to the frame the *)
(* loop is at, whatever raised or stopped it; only a stop repeats the last       *)
(* index, and nothing follows a frame that shows the end.                        *)
LogInOrder ==
    /\ \A i \in DOMAIN rows :
           \/ rows[i].frame = i - 1
           \/ rows[i].frame = i - 2 /\ rows[i].status = "stopped_by_user"
    /\ \A i \in DOMAIN rows : i < Len(rows) => rows[i].status = "running"
    /\ pc = "idle" /\ status = "running" /\ initialRecorded => Len(rows) = frame + 1

(* The controller is never given a stale command: every crane decided less than *)
(* one interval ago, its command is unexpired, and it is the one of that        *)
(* decision unless a neutral stop has replaced it.                              *)
CommandsCurrent ==
    pc = "physics" => \A c \in Cranes :
        /\ Now - lastDecision[c] < Interval
        /\ Now < commands[c].expires
        /\ commands[c].issued >= lastDecision[c]
        /\ commands[c].source = "decision" => commands[c].issued = lastDecision[c]

(* A completed episode lasted its minimum, and all its tasks had been done for  *)
(* the whole cooldown.                                                          *)
CompletionEarned ==
    pc = "idle" /\ status = "completed" =>
        /\ StopWhenDone /\ tasksDone
        /\ Now >= MinDuration /\ Now - doneSince >= Cooldown

(* run_episode leaves its loop on should_stop, a second reading of the rules     *)
(* that set the status: it never finalizes an episode that is still running.    *)
LoopLeavesDecided == pc = "finish" => status # "running"

(* An episode does not run for ever, however its operators decide and whatever  *)
(* fails: it reaches its duration if nothing ends it before.                    *)
EpisodeEnds == <>(status # "running")

(* The status a driver is told: inside a frame it still knows the last one. *)
Told == IF pc \in {"idle", "wrap", "finish", "ended"} THEN status ELSE "running"
Contract == INSTANCE EpisodeLog WITH
    Outcomes <- Statuses \ {"running"},
    outcome <- Told, logged <- Len(rows), certified <- manifest
ImplementsContract == Contract!Spec

(* The API's calls, as the thread that made them sees them; a batch makes none. *)
AtCall == CASE pc \in FrameCalls -> "called"
            [] pc \in {"stop_record", "stop_broadcast", "wrap"} -> "returning"
            [] OTHER -> "idle"
Api == driver = "api"
ApiCalls == INSTANCE RunnerCalls WITH
    Ends <- Statuses \ {"running", "stopped_by_user"},
    Frames <- (Duration + Dt - 1) \div Dt,
    at <- IF Api THEN AtCall ELSE "idle",
    verdict <- IF Api /\ pc \notin FrameCalls THEN status ELSE "running",
    stopRequested <- Api /\ stopRequested,
    frame <- IF Api THEN frame ELSE 0,
    closed <- Api /\ finalized

(* Driven by the API, the loop is the runner the episode service is modelled    *)
(* with: it returns or raises as RunnerCalls says, whatever happens in a frame. *)
ImplementsCalls == ApiCalls!RunnerSpec

================================================================================
