---------------------------- MODULE EpisodeService -----------------------------
(***************************************************************************)
(* EpisodeService (episode_service.py): one episode id, its handle, the      *)
(* background worker that advances it and the requests that start, pause,    *)
(* resume and stop it.  Requests run on a pool of threads.  advance_lock is   *)
(* held through a whole run_one_frame; `lock` is its holder, and an action   *)
(* that only takes it and gives it back asks that it is free.  runner.stop,  *)
(* worker_stop and the start of the worker are outside it.                   *)
(*                                                                          *)
(* The runner is RunnerCalls.                                                *)
(***************************************************************************)
EXTENDS Naturals

CONSTANTS
    Clients,         \* request threads
    Ends, Frames     \* see RunnerCalls

ASSUME EndsAssumption   == "running" \notin Ends /\ "absent" \notin Ends /\ "paused" \notin Ends
ASSUME FramesAssumption == Frames \in Nat \ {0}
ASSUME ThreadAssumption == "worker" \notin Clients /\ "free" \notin Clients

Failed == "failed_invalid_state"
Verdicts == Ends \cup {"stopped_by_user", Failed}

(* How a start wants its episode advanced: by the worker (an autostarted       *)
(* interactive episode), by one frame of its own (autostarted, not             *)
(* interactive), or not at all.                                                *)
Modes == {"worker", "once", "none"}

VARIABLES
    at, verdict, stopRequested, frame, closed,      \* the runner
    status,          \* EpisodeHandle.status; "absent" when no handle is registered
    paused,          \* EpisodeHandle.paused
    workerStop,      \* EpisodeHandle.worker_stop
    mode,            \* of the request that made the handle
    lock,            \* the holder of advance_lock, or "free"
    worker,          \* where the worker is
    pc,              \* where each request is
    slipped          \* history: frames run since the pause that was accepted last

runnerVars == <<at, verdict, stopRequested, frame, closed>>
handleVars == <<status, paused, workerStop, mode>>
vars == <<runnerVars, handleVars, lock, worker, pc, slipped>>

Runner == INSTANCE RunnerCalls

Init ==
    /\ Runner!RunnerInit
    /\ status = "absent" /\ paused = FALSE /\ workerStop = FALSE /\ mode = "none"
    /\ lock = "free" /\ worker = "none" /\ pc = [c \in Clients |-> "idle"]
    /\ slipped = 0

Go(c, place) == pc' = [pc EXCEPT ![c] = place]

--------------------------------------------------------------------------------
(* _advance_handle_once, by the worker or by a request; the lock is held until *)
(* the runner returns or raises.                                               *)

Advancing(h) == IF h = "worker" THEN worker = "advance"
                ELSE pc[h] \in {"start_advance", "stop_advance"}

BeginAdvance(h) ==
    /\ Advancing(h) /\ lock = "free"
    /\ lock' = h
    /\ Runner!Call
    /\ UNCHANGED <<handleVars, worker, pc, slipped>>

RunFrame ==
    /\ Runner!RunFrame
    /\ slipped' = IF paused /\ frame' # frame THEN slipped + 1 ELSE slipped
    /\ UNCHANGED <<handleVars, lock, worker, pc>>

(* Mutant: the handle keeps its status. *)
DeliverNothing == UNCHANGED <<status, paused>>

(* The result is copied into the handle. *)
Deliver ==
    /\ status' = verdict
    /\ paused' = (paused /\ verdict = "running")

Released(h, onWorker, onStart, onStop) ==
    /\ lock = h /\ lock' = "free"
    /\ IF h = "worker" THEN worker' = onWorker /\ UNCHANGED pc
       ELSE /\ Go(h, IF pc[h] = "start_advance" THEN onStart ELSE onStop)
            /\ UNCHANGED worker

AdvanceReturns(h) ==
    /\ Released(h, "after", "needs", "stop_set")
    /\ Runner!Return
    /\ Deliver
    /\ UNCHANGED <<workerStop, mode, slipped>>

(* The exception passes through: the handle is left as it was, and a request  *)
(* is answered with an error.                                                 *)
AdvanceRaises(h) ==
    /\ Released(h, "failed", "idle", "idle")
    /\ Runner!Raise
    /\ UNCHANGED <<handleVars, slipped>>

--------------------------------------------------------------------------------
(* start_episode.  The id is looked up before the runner is built and again    *)
(* when its handle is registered; a request that loses drops its runner.       *)

Start(c) ==
    /\ pc[c] = "idle" /\ status = "absent"
    /\ Go(c, "build")
    /\ UNCHANGED <<runnerVars, handleVars, lock, worker, slipped>>

Build(c) ==
    /\ pc[c] = "build"
    /\ Go(c, "register") \/ Go(c, "idle")
    /\ UNCHANGED <<runnerVars, handleVars, lock, worker, slipped>>

(* Mutant: the second lookup is forgotten. *)
RegisterOver(c, m) ==
    /\ pc[c] = "register"
    /\ status' = "running" /\ paused' = FALSE /\ workerStop' = FALSE /\ mode' = m
    /\ Go(c, "autostart")
    /\ UNCHANGED <<runnerVars, lock, worker, slipped>>

Register(c, m) ==
    /\ pc[c] = "register"
    /\ IF status = "absent"
       THEN /\ status' = "running" /\ mode' = m
            /\ Go(c, "autostart")
            /\ UNCHANGED <<paused, workerStop>>
       ELSE /\ Go(c, "idle")
            /\ UNCHANGED handleVars
    /\ UNCHANGED <<runnerVars, lock, worker, slipped>>

(* _needs_background_worker, asked twice without the lock *)
NeedsWorker == status = "running" /\ mode = "worker"

Autostart(c) ==
    /\ pc[c] = "autostart"
    /\ Go(c, IF mode # "none" /\ ~NeedsWorker THEN "start_advance" ELSE "needs")
    /\ UNCHANGED <<runnerVars, handleVars, lock, worker, slipped>>

AskForWorker(c) ==
    /\ pc[c] = "needs"
    /\ Go(c, IF NeedsWorker THEN "launch" ELSE "idle")
    /\ UNCHANGED <<runnerVars, handleVars, lock, worker, slipped>>

(* _start_background_worker *)
Launch(c) ==
    /\ pc[c] = "launch"
    /\ workerStop' = FALSE
    /\ worker' = "test"
    /\ Go(c, "idle")
    /\ UNCHANGED <<runnerVars, status, paused, mode, lock, slipped>>

--------------------------------------------------------------------------------
(* pause_episode, resume_episode and stop_episode; those that are refused     *)
(* change nothing.                                                            *)

Pause(c) ==
    /\ pc[c] = "idle" /\ lock = "free"
    /\ status = "running" /\ ~paused
    /\ paused' = TRUE /\ slipped' = 0
    /\ UNCHANGED <<runnerVars, status, workerStop, mode, lock, worker, pc>>

Resume(c) ==
    /\ pc[c] = "idle" /\ lock = "free"
    /\ status = "running" /\ paused
    /\ paused' = FALSE
    /\ UNCHANGED <<runnerVars, status, workerStop, mode, lock, worker, pc, slipped>>

Stop(c) ==
    /\ pc[c] = "idle" /\ lock = "free"
    /\ status = "running"
    /\ paused' = FALSE
    /\ Go(c, "stop_ask")
    /\ UNCHANGED <<runnerVars, status, workerStop, mode, lock, worker, slipped>>

(* Mutant: the runner is not told, the handle's worker only. *)
StopAskNobody(c) ==
    /\ pc[c] = "stop_ask"
    /\ Go(c, "stop_advance")
    /\ UNCHANGED <<runnerVars, handleVars, lock, worker, slipped>>

StopAsk(c) ==
    /\ pc[c] = "stop_ask"
    /\ Runner!AskStop
    /\ Go(c, "stop_advance")
    /\ UNCHANGED <<handleVars, lock, worker, slipped>>

(* Mutant: the request writes the end into the handle itself. *)
StopSetStatus(c) ==
    /\ pc[c] = "stop_set"
    /\ workerStop' = TRUE /\ status' = "stopped_by_user"
    /\ Go(c, "stopped")
    /\ UNCHANGED <<runnerVars, paused, mode, lock, worker, slipped>>

StopSet(c) ==
    /\ pc[c] = "stop_set"
    /\ workerStop' = TRUE
    /\ Go(c, "stopped")
    /\ UNCHANGED <<runnerVars, status, paused, mode, lock, worker, slipped>>

(* The accepted stop is answered. *)
StopReply(c) ==
    /\ pc[c] = "stopped"
    /\ Go(c, "idle")
    /\ UNCHANGED <<runnerVars, handleVars, lock, worker, slipped>>

--------------------------------------------------------------------------------
(* _background_worker *)

WorkerTest ==
    /\ worker = "test"
    /\ worker' = IF workerStop THEN "done" ELSE "read"
    /\ UNCHANGED <<runnerVars, handleVars, lock, pc, slipped>>

(* Mutant: the pause is not looked at before the frame. *)
WorkerReadStatusOnly ==
    /\ worker = "read" /\ lock = "free"
    /\ worker' = IF status # "running" THEN "done" ELSE "advance"
    /\ UNCHANGED <<runnerVars, handleVars, lock, pc, slipped>>

(* The lock is given back between this look at the handle and the frame. *)
WorkerRead ==
    /\ worker = "read" /\ lock = "free"
    /\ worker' = CASE status # "running" -> "done"
                   [] status = "running" /\ paused -> "test"
                   [] OTHER -> "advance"
    /\ UNCHANGED <<runnerVars, handleVars, lock, pc, slipped>>

WorkerAfter ==
    /\ worker = "after" /\ lock = "free"
    /\ worker' = IF status # "running" THEN "done" ELSE "test"
    /\ UNCHANGED <<runnerVars, handleVars, lock, pc, slipped>>

WorkerFails ==
    /\ worker = "failed" /\ lock = "free"
    /\ status' = Failed /\ paused' = FALSE
    /\ worker' = "done"
    /\ UNCHANGED <<runnerVars, workerStop, mode, lock, pc, slipped>>

--------------------------------------------------------------------------------
Threads == Clients \cup {"worker"}

(* What a thread does next on its own, once its request was made. *)
RequestStep(c) ==
    \/ Build(c) \/ (\E m \in Modes : Register(c, m)) \/ Autostart(c)
    \/ AskForWorker(c) \/ Launch(c)
    \/ StopAsk(c) \/ StopSet(c) \/ StopReply(c)
WorkerStep == WorkerTest \/ WorkerRead \/ WorkerAfter \/ WorkerFails
AdvanceStep(h) == BeginAdvance(h) \/ (lock = h /\ RunFrame)
                  \/ AdvanceReturns(h) \/ AdvanceRaises(h)
Request(c) == Start(c) \/ Pause(c) \/ Resume(c) \/ Stop(c)

Next ==
    \/ \E c \in Clients : Request(c) \/ RequestStep(c)
    \/ WorkerStep
    \/ \E h \in Threads : AdvanceStep(h)

Spec == Init /\ [][Next]_vars

(* Every thread is scheduled, and one that waits for the lock gets it in the   *)
(* end; nobody has to make a request.                                          *)
FairSpec ==
    /\ Spec
    /\ SF_vars(WorkerStep) /\ SF_vars(AdvanceStep("worker"))
    /\ \A c \in Clients : WF_vars(RequestStep(c)) /\ SF_vars(AdvanceStep(c))

--------------------------------------------------------------------------------
(* Properties *)

TypeOK ==
    /\ at \in {"idle", "called", "returning"} /\ verdict \in Verdicts \cup {"running"}
    /\ stopRequested \in BOOLEAN /\ frame \in 0..Frames /\ closed \in BOOLEAN
    /\ status \in Verdicts \cup {"absent", "running"}
    /\ paused \in BOOLEAN /\ workerStop \in BOOLEAN /\ mode \in Modes
    /\ lock \in Threads \cup {"free"}
    /\ worker \in {"none", "test", "read", "advance", "after", "failed", "done"}
    /\ pc \in [Clients -> {"idle", "build", "register", "autostart", "start_advance",
                           "needs", "launch", "stop_ask", "stop_advance", "stop_set",
                           "stopped"}]
    /\ slipped \in {0, 1}

(* The handle never shows an end the runner has not come to: the status of an  *)
(* episode that is over is the runner's, or the worker's own failure, which    *)
(* only the end of the run can cause.                                          *)
ShownEndIsReal ==
    status \in Verdicts => /\ verdict # "running"
                           /\ status \in {verdict, Failed}

(* The answer to an accepted stop, whoever advanced the runner in between: the *)
(* episode is over, so no frame follows it.                                    *)
StopIsFinal == \A c \in Clients : pc[c] = "stopped" => status \in Verdicts /\ ~paused

(* The worker outlives neither the episode nor its runner: it delivers the end *)
(* to the handle and leaves, unless a pause holds it.                          *)
WorkerDelivers == worker # "none" ~> (worker = "done" /\ status \in Verdicts) \/ paused

Display == IF status = "running" /\ paused THEN "paused" ELSE status
Control == INSTANCE EpisodeControl WITH Ends <- Verdicts, display <- Display

(* What its clients may rely on. *)
ImplementsControl == Control!Spec

(* docs/moduleM/overview.md:153: while paused, run_one_frame is not advanced;   *)
(* task03:83 and :101 say it of the background loop and of the episode.  So no   *)
(* frame is simulated between an accepted pause and what undoes it            *)
(* (_background_worker, pause_episode).                                      *)
PauseHolds == [][paused => frame' = frame]_vars

================================================================================
