---------------------------- MODULE EpisodeControl -----------------------------
(***************************************************************************)
(* What the REST interface gives its clients about one episode: the status it *)
(* shows, and when the simulation may go on.  It goes on while the status is  *)
(* running; a pause lets at most one more frame through; after the end there *)
(* is none.  The status of the end stands, except that the failure of the    *)
(* background worker and the end the run came to may replace one another.    *)
(***************************************************************************)
EXTENDS Naturals

CONSTANTS Ends, Failed

VARIABLES
    display,         \* "absent", "running", "paused" or how the episode ended
    frame,           \* frames simulated
    slipped          \* frames simulated since the pause

vars == <<display, frame, slipped>>

Init == display = "absent" /\ frame = 0 /\ slipped = 0

Create == display = "absent" /\ display' = "running" /\ UNCHANGED <<frame, slipped>>

Pause == display = "running" /\ display' = "paused" /\ slipped' = 0 /\ UNCHANGED frame

(* A resume, or a stop that was asked for. *)
Unpause == display = "paused" /\ display' = "running" /\ UNCHANGED <<frame, slipped>>

Advance == display = "running" /\ frame' = frame + 1 /\ UNCHANGED <<display, slipped>>

(* The documentation of pause allows none; that the service needs this step is *)
(* what PauseHolds of EpisodeService shows.                                  *)
Slip ==
    /\ display = "paused" /\ slipped = 0
    /\ frame' = frame + 1 /\ slipped' = 1
    /\ UNCHANGED display

Finish(o) ==
    /\ display \in {"running", "paused"}
    /\ display' = o
    /\ UNCHANGED <<frame, slipped>>

Overrule(o) ==
    /\ display \in Ends
    /\ display = Failed \/ o = Failed
    /\ display' = o
    /\ UNCHANGED <<frame, slipped>>

Next == Create \/ Pause \/ Unpause \/ Advance \/ Slip \/ (\E o \in Ends : Finish(o) \/ Overrule(o))

Spec == Init /\ [][Next]_vars
================================================================================
