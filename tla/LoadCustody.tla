------------------------------ MODULE LoadCustody ------------------------------
(***************************************************************************)
(* What the task system of one crane promises, with no stage, timer or      *)
(* geometry: jobs are started one at a time, a load on the hook belongs to  *)
(* the one job that is active, and a job that fails while its load hangs    *)
(* hands it over to a recovery job in the same step.  A load is never put   *)
(* down except by completing the job that holds it.                         *)
(***************************************************************************)
EXTENDS Naturals, Sequences

CONSTANT Ordinary           \* how many ordinary jobs the queue starts with

VARIABLES
    status,                 \* status[j]: "pending", "active", "completed" or "failed"
    active,                 \* the active job, 0 when there is none
    onHook                  \* is a load hanging on the hook?

vars == <<status, active, onHook>>

Jobs == 1..Len(status)

Init ==
    /\ status = [j \in 1..Ordinary |-> "pending"]
    /\ active = 0
    /\ onHook = FALSE

(* A job starts only when no other job is active and the hook is free. *)
Start(j) ==
    /\ active = 0 /\ ~onHook
    /\ status[j] = "pending"
    /\ status' = [status EXCEPT ![j] = "active"]
    /\ active' = j
    /\ UNCHANGED onHook

PickUp ==
    /\ active # 0 /\ ~onHook
    /\ onHook' = TRUE
    /\ UNCHANGED <<status, active>>

(* The only way a load leaves the hook. *)
Deliver ==
    /\ active # 0 /\ onHook
    /\ status' = [status EXCEPT ![active] = "completed"]
    /\ active' = 0
    /\ onHook' = FALSE

Fail ==
    /\ active # 0 /\ ~onHook
    /\ status' = [status EXCEPT ![active] = "failed"]
    /\ active' = 0
    /\ UNCHANGED onHook

HandOver ==
    /\ active # 0 /\ onHook
    /\ status[active] = "active"
    /\ status' = Append([status EXCEPT ![active] = "failed"], "active")
    /\ active' = Len(status) + 1
    /\ UNCHANGED onHook

(* The episode is given up with the load on the hook: nothing follows. *)
GiveUp ==
    /\ active # 0 /\ onHook
    /\ status[active] = "active"
    /\ status' = [status EXCEPT ![active] = "failed"]
    /\ UNCHANGED <<active, onHook>>

Next == (\E j \in Jobs : Start(j)) \/ PickUp \/ Deliver \/ Fail \/ HandOver \/ GiveUp

Spec == Init /\ [][Next]_vars
================================================================================
