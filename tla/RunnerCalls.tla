------------------------------ MODULE RunnerCalls ------------------------------
(***************************************************************************)
(* A production runner as the episode service sees it: run_one_frame called  *)
(* under the handle's lock, and stop called at any moment from another       *)
(* thread.  A call returns or raises; FrameLoop, driven by the API,          *)
(* implements this module.                                                  *)
(***************************************************************************)
EXTENDS Naturals

CONSTANTS
    Ends,            \* how a run may end by itself
    Frames           \* the frame at which its duration is reached

VARIABLES
    at,              \* "idle", "called" (in a frame) or "returning"
    verdict,         \* episode_status
    stopRequested,   \* _stop_requested
    frame,           \* frame_index
    closed           \* the recorder's finalize was tried

runnerVars == <<at, verdict, stopRequested, frame, closed>>

RunnerInit ==
    /\ at = "idle" /\ verdict = "running"
    /\ stopRequested = FALSE /\ frame = 0 /\ closed = FALSE

AskStop ==
    /\ stopRequested' = TRUE
    /\ UNCHANGED <<at, verdict, frame, closed>>

(* run_one_frame: of a run that is over, of one asked to stop, and of a live one. *)
CallOver == verdict # "running" /\ at' = "returning" /\ UNCHANGED verdict
CallStop == verdict = "running" /\ stopRequested
            /\ at' = "returning" /\ verdict' = "stopped_by_user"
CallFrame == verdict = "running" /\ ~stopRequested /\ at' = "called" /\ UNCHANGED verdict

Call ==
    /\ at = "idle"
    /\ CallOver \/ CallStop \/ CallFrame
    /\ UNCHANGED <<stopRequested, frame, closed>>

(* One frame: it is committed unless an exception ended the run inside it. *)
RunFrame ==
    /\ at = "called" /\ at' = "returning"
    /\ \/ verdict' = "running" /\ frame' = frame + 1 /\ frame + 1 < Frames
       \/ verdict' \in Ends /\ frame' \in {frame, frame + 1}
    /\ UNCHANGED <<stopRequested, closed>>

(* The result of a run that is over is returned once its log is closed. *)
Return ==
    /\ at = "returning" /\ at' = "idle"
    /\ closed' = (closed \/ verdict # "running")
    /\ UNCHANGED <<verdict, stopRequested, frame>>

(* Only the end of a run raises: recording its stop, or closing its log, which *)
(* is tried once.                                                              *)
Raise ==
    /\ at = "returning" /\ at' = "idle"
    /\ verdict # "running" /\ ~closed
    /\ closed' \in BOOLEAN
    /\ UNCHANGED <<verdict, stopRequested, frame>>

RunnerNext == AskStop \/ Call \/ RunFrame \/ Return \/ Raise

RunnerSpec == RunnerInit /\ [][RunnerNext]_runnerVars
================================================================================
