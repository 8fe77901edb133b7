------------------------------ MODULE EpisodeLog -------------------------------
(***************************************************************************)
(* What one episode promises whoever drives it or reads its log: it is told  *)
(* one outcome, which never changes; nothing is logged after the outcome,    *)
(* except the single frame an empty log is given; and what certifies the     *)
(* log (its manifest and summary) states that outcome, once.                 *)
(***************************************************************************)
EXTENDS Naturals

CONSTANT Outcomes           \* how an episode may end

VARIABLES
    outcome,                \* "running", or how the episode ended
    logged,                 \* the number of frames in the log
    certified               \* "none", or the outcome the manifest states

vars == <<outcome, logged, certified>>

Init == outcome = "running" /\ logged = 0 /\ certified = "none"

Log ==
    /\ outcome = "running" \/ logged = 0
    /\ logged' = logged + 1
    /\ UNCHANGED <<outcome, certified>>

End(o) ==
    /\ outcome = "running"
    /\ outcome' = o
    /\ logged' \in {logged, logged + 1}
    /\ UNCHANGED certified

Certify ==
    /\ outcome # "running" /\ certified = "none"
    /\ certified' = outcome
    /\ UNCHANGED <<outcome, logged>>

Next == Log \/ (\E o \in Outcomes : End(o)) \/ Certify

Spec == Init /\ [][Next]_vars
================================================================================
