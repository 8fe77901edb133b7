-------------------------- MODULE EpisodeServiceProofs -------------------------
(***************************************************************************)
(* Proofs about the episode service, for every set of request threads, every *)
(* way a run may end and every length of it.  The safety properties are      *)
(* consequences of the inductive invariant IInv, which says who may hold     *)
(* advance_lock, what the runner is doing meanwhile, and that only one       *)
(* thread can still be about to simulate a frame; from it follows that the   *)
(* service implements EpisodeControl.                                        *)
(***************************************************************************)
EXTENDS EpisodeService, TLAPS

(* advance_lock is held exactly while the runner is in a call.               *)
LockHeld ==
    /\ lock = "free" <=> at = "idle"
    /\ lock = "worker" => worker = "advance"
    /\ \A c \in Clients : lock = c => pc[c] \in {"start_advance", "stop_advance"}

RunnerSane ==
    /\ at = "called" => verdict = "running"
    /\ verdict = "running" => frame < Frames
    /\ worker = "failed" => verdict # "running"

(* What a stop knows at each of its steps.                                   *)
StopKnows ==
    \A c \in Clients :
        /\ pc[c] = "stop_advance" => stopRequested
        /\ pc[c] = "stop_advance" /\ lock = c => at = "returning" /\ verdict # "running"
        /\ pc[c] \in {"stop_set", "stopped"} => status \in Verdicts /\ ~paused

(* One request registered the handle, and the worker starts after it.        *)
Starting(c) == pc[c] \in {"autostart", "start_advance", "needs", "launch"}

Registered ==
    /\ status = "absent" => /\ worker = "none" /\ ~paused
                            /\ \A c \in Clients : pc[c] \in {"idle", "build", "register"}
    /\ \A c \in Clients : Starting(c) => worker = "none"
    /\ \A c, d \in Clients : Starting(c) /\ Starting(d) => c = d

(* After the one frame that slipped through, nobody is left who would run    *)
(* another without looking at the pause.                                     *)
OneSlip ==
    /\ status = "absent" => slipped = 0
    /\ \A c \in Clients : pc[c] = "autostart" => slipped = 0
    /\ paused /\ slipped = 1 => /\ at # "called"
                                /\ worker = "advance" => lock = "worker"
                                /\ \A c \in Clients : pc[c] = "start_advance" => lock = c

IInv == TypeOK /\ LockHeld /\ RunnerSane /\ ShownEndIsReal /\ StopKnows /\ Registered /\ OneSlip

(* What a request does outside the runner's calls preserves the invariant. *)
LEMMA RequestsKeepIInv ==
  ASSUME IInv, NEW c \in Clients, Request(c) \/ RequestStep(c)
  PROVE  IInv'
<1> USE DEF IInv
<1>1. CASE Start(c)
  <2>1. (TypeOK /\ LockHeld /\ RunnerSane /\ ShownEndIsReal)'
    BY <1>1
    DEF Start, Go, TypeOK, LockHeld, RunnerSane, ShownEndIsReal, runnerVars,
        handleVars
  <2>2. (StopKnows /\ Registered /\ OneSlip)'
    BY <1>1
    DEF Start, Go, StopKnows, Registered, Starting, OneSlip, runnerVars, handleVars
  <2> QED
    BY <2>1, <2>2
<1>2. CASE Build(c)
  <2>1. (TypeOK /\ LockHeld /\ RunnerSane /\ ShownEndIsReal)'
    BY <1>2
    DEF Build, Go, TypeOK, LockHeld, RunnerSane, ShownEndIsReal, runnerVars,
        handleVars
  <2>2. (StopKnows /\ Registered /\ OneSlip)'
    BY <1>2
    DEF Build, Go, TypeOK, StopKnows, Registered, Starting, OneSlip, runnerVars,
        handleVars
  <2> QED
    BY <2>1, <2>2
<1>3. ASSUME NEW m \in Modes, Register(c, m) PROVE IInv'
  <2>1. (TypeOK /\ LockHeld /\ RunnerSane)'
    BY <1>3 DEF Register, Go, TypeOK, LockHeld, RunnerSane, runnerVars, handleVars
  <2>2. (Registered /\ OneSlip)'
    BY <1>3
    DEF Register, Go, TypeOK, Registered, Starting, OneSlip, runnerVars, handleVars
  <2>3. ShownEndIsReal'
    BY <1>3, EndsAssumption
    DEF Register, Go, ShownEndIsReal, Verdicts, Failed, runnerVars, handleVars
  <2>4. StopKnows'
    BY <1>3 DEF Register, Go, TypeOK, StopKnows, Registered, runnerVars, handleVars
  <2> QED
    BY <2>1, <2>2, <2>3, <2>4
<1>4. CASE Autostart(c)
  <2>1. (TypeOK /\ LockHeld /\ RunnerSane /\ ShownEndIsReal)'
    BY <1>4
    DEF Autostart, Go, NeedsWorker, TypeOK, LockHeld, RunnerSane, ShownEndIsReal,
        runnerVars, handleVars
  <2>2. (StopKnows /\ Registered /\ OneSlip)'
    BY <1>4
    DEF Autostart, Go, NeedsWorker, StopKnows, Registered, Starting, OneSlip,
        runnerVars, handleVars
  <2> QED
    BY <2>1, <2>2
<1>5. CASE AskForWorker(c)
  <2>1. (TypeOK /\ LockHeld /\ RunnerSane /\ ShownEndIsReal)'
    BY <1>5
    DEF AskForWorker, Go, NeedsWorker, TypeOK, LockHeld, RunnerSane, ShownEndIsReal,
        runnerVars, handleVars
  <2>2. (StopKnows /\ Registered /\ OneSlip)'
    BY <1>5
    DEF AskForWorker, Go, NeedsWorker, StopKnows, Registered, Starting, OneSlip,
        runnerVars, handleVars
  <2> QED
    BY <2>1, <2>2
<1>6. CASE Launch(c)
  <2>1. (TypeOK /\ RunnerSane /\ ShownEndIsReal)'
    BY <1>6 DEF Launch, Go, TypeOK, RunnerSane, ShownEndIsReal, runnerVars
  <2>2. (StopKnows /\ Registered /\ OneSlip)'
    BY <1>6
    DEF Launch, Go, TypeOK, StopKnows, Registered, Starting, OneSlip, runnerVars
  <2>3. LockHeld'
    BY <1>6 DEF Launch, Go, LockHeld, Registered, Starting, runnerVars
  <2> QED
    BY <2>1, <2>2, <2>3
<1>7. CASE Pause(c)
  <2>1. (TypeOK /\ LockHeld /\ RunnerSane /\ ShownEndIsReal)'
    BY <1>7 DEF Pause, TypeOK, LockHeld, RunnerSane, ShownEndIsReal, runnerVars
  <2>2. (Registered /\ OneSlip)'
    BY <1>7 DEF Pause, Registered, Starting, OneSlip
  <2>3. StopKnows'
    BY <1>7, EndsAssumption DEF Pause, StopKnows, Verdicts, Failed, runnerVars
  <2> QED
    BY <2>1, <2>2, <2>3
<1>8. CASE Resume(c)
  <2>1. (TypeOK /\ LockHeld /\ RunnerSane /\ ShownEndIsReal)'
    BY <1>8 DEF Resume, TypeOK, LockHeld, RunnerSane, ShownEndIsReal, runnerVars
  <2>2. (StopKnows /\ Registered /\ OneSlip)'
    BY <1>8 DEF Resume, StopKnows, Registered, Starting, OneSlip, runnerVars
  <2> QED
    BY <2>1, <2>2
<1>9. CASE Stop(c)
  <2>1. (TypeOK /\ LockHeld /\ RunnerSane /\ ShownEndIsReal)'
    BY <1>9 DEF Stop, Go, TypeOK, LockHeld, RunnerSane, ShownEndIsReal, runnerVars
  <2>2. (StopKnows /\ Registered /\ OneSlip)'
    BY <1>9 DEF Stop, Go, StopKnows, Registered, Starting, OneSlip, runnerVars
  <2> QED
    BY <2>1, <2>2
<1>10. CASE StopAsk(c)
  <2>1. (TypeOK /\ LockHeld /\ RunnerSane /\ ShownEndIsReal)'
    BY <1>10
    DEF StopAsk, Go, Runner!AskStop, TypeOK, LockHeld, RunnerSane, ShownEndIsReal,
        handleVars
  <2>2. (Registered /\ OneSlip)'
    BY <1>10
    DEF StopAsk, Go, Runner!AskStop, Registered, Starting, OneSlip, handleVars
  <2>3. StopKnows'
    BY <1>10 DEF StopAsk, Go, Runner!AskStop, LockHeld, StopKnows, handleVars
  <2> QED
    BY <2>1, <2>2, <2>3
<1>11. CASE StopSet(c)
  <2>1. (TypeOK /\ LockHeld /\ RunnerSane /\ ShownEndIsReal)'
    BY <1>11 DEF StopSet, Go, TypeOK, LockHeld, RunnerSane, ShownEndIsReal, runnerVars
  <2>2. (StopKnows /\ Registered /\ OneSlip)'
    BY <1>11 DEF StopSet, Go, StopKnows, Registered, Starting, OneSlip, runnerVars
  <2> QED
    BY <2>1, <2>2
<1>12. CASE StopReply(c)
  <2>1. (TypeOK /\ LockHeld /\ RunnerSane /\ ShownEndIsReal)'
    BY <1>12
    DEF StopReply, Go, TypeOK, LockHeld, RunnerSane, ShownEndIsReal, runnerVars,
        handleVars
  <2>2. (StopKnows /\ Registered /\ OneSlip)'
    BY <1>12
    DEF StopReply, Go, StopKnows, Registered, Starting, OneSlip, runnerVars,
        handleVars
  <2> QED
    BY <2>1, <2>2
<1> QED
  BY <1>1, <1>2, <1>3, <1>4, <1>5, <1>6, <1>7, <1>8, <1>9, <1>10, <1>11, <1>12
  DEF Request, RequestStep

(* So does every step of _background_worker between two calls. *)
LEMMA WorkerKeepsIInv ==
  ASSUME IInv, WorkerStep
  PROVE  IInv'
<1> USE DEF IInv
<1>1. CASE WorkerTest
  <2>1. (TypeOK /\ LockHeld /\ RunnerSane /\ ShownEndIsReal)'
    BY <1>1
    DEF WorkerTest, TypeOK, LockHeld, RunnerSane, ShownEndIsReal, runnerVars,
        handleVars
  <2>2. (StopKnows /\ Registered /\ OneSlip)'
    BY <1>1
    DEF WorkerTest, StopKnows, Registered, Starting, OneSlip, runnerVars, handleVars
  <2> QED
    BY <2>1, <2>2
<1>2. CASE WorkerRead
  <2>1. (TypeOK /\ LockHeld /\ RunnerSane /\ ShownEndIsReal)'
    BY <1>2
    DEF WorkerRead, TypeOK, LockHeld, RunnerSane, ShownEndIsReal, runnerVars,
        handleVars
  <2>2. (StopKnows /\ Registered /\ OneSlip)'
    BY <1>2
    DEF WorkerRead, StopKnows, Registered, Starting, OneSlip, runnerVars, handleVars
  <2> QED
    BY <2>1, <2>2
<1>3. CASE WorkerAfter
  <2>1. (TypeOK /\ LockHeld /\ RunnerSane /\ ShownEndIsReal)'
    BY <1>3
    DEF WorkerAfter, TypeOK, LockHeld, RunnerSane, ShownEndIsReal, runnerVars,
        handleVars
  <2>2. (StopKnows /\ Registered /\ OneSlip)'
    BY <1>3
    DEF WorkerAfter, StopKnows, Registered, Starting, OneSlip, runnerVars,
        handleVars
  <2> QED
    BY <2>1, <2>2
<1>4. CASE WorkerFails
  <2>1. (LockHeld /\ RunnerSane)'
    BY <1>4 DEF WorkerFails, LockHeld, RunnerSane, runnerVars
  <2>2. TypeOK'
    BY <1>4 DEF WorkerFails, TypeOK, Verdicts, runnerVars
  <2>3. ShownEndIsReal'
    BY <1>4 DEF WorkerFails, RunnerSane, ShownEndIsReal, runnerVars
  <2>4. StopKnows'
    BY <1>4 DEF WorkerFails, StopKnows, Verdicts, runnerVars
  <2>5. Registered'
    BY <1>4 DEF WorkerFails, Registered, Starting, Failed
  <2>6. OneSlip'
    BY <1>4 DEF WorkerFails, OneSlip, Failed
  <2> QED
    BY <2>1, <2>2, <2>3, <2>4, <2>5, <2>6
<1> QED
  BY <1>1, <1>2, <1>3, <1>4 DEF WorkerStep

(* So does every step of _advance_handle_once, whichever thread runs it. *)
LEMMA AdvancesKeepIInv ==
  ASSUME IInv, NEW h \in Threads, AdvanceStep(h)
  PROVE  IInv'
<1> USE DEF IInv
<1>1. CASE BeginAdvance(h)
  <2>1. (RunnerSane /\ ShownEndIsReal)'
    BY <1>1
    DEF BeginAdvance, Advancing, Runner!Call, Runner!CallOver, Runner!CallStop,
        Runner!CallFrame, RunnerSane, ShownEndIsReal, handleVars
  <2>2. (StopKnows /\ Registered)'
    BY <1>1
    DEF BeginAdvance, Advancing, Runner!Call, Runner!CallOver, Runner!CallStop,
        Runner!CallFrame, StopKnows, Registered, Starting, handleVars
  <2>3. TypeOK'
    BY <1>1
    DEF BeginAdvance, Advancing, Runner!Call, Runner!CallOver, Runner!CallStop,
        Runner!CallFrame, TypeOK, Verdicts, handleVars
  <2>4. LockHeld'
    BY <1>1, ThreadAssumption
    DEF BeginAdvance, Advancing, Runner!Call, Runner!CallOver, Runner!CallStop,
        Runner!CallFrame, LockHeld, Threads
  <2>5. OneSlip'
    BY <1>1, ThreadAssumption
    DEF BeginAdvance, Advancing, Runner!Call, Runner!CallOver, Runner!CallStop,
        Runner!CallFrame, StopKnows, OneSlip, Threads, handleVars
  <2> QED
    BY <2>1, <2>2, <2>3, <2>4, <2>5
<1>2. CASE RunFrame /\ lock = h
  <2>1. LockHeld'
    BY <1>2 DEF RunFrame, Runner!RunFrame, LockHeld
  <2>2. (StopKnows /\ Registered)'
    BY <1>2 DEF RunFrame, Runner!RunFrame, StopKnows, Registered, Starting, handleVars
  <2>3. TypeOK'
    BY <1>2, FramesAssumption
    DEF RunFrame, Runner!RunFrame, TypeOK, RunnerSane, OneSlip, Verdicts, handleVars
  <2>4. RunnerSane'
    BY <1>2, EndsAssumption DEF RunFrame, Runner!RunFrame, RunnerSane
  <2>5. ShownEndIsReal'
    BY <1>2 DEF RunFrame, Runner!RunFrame, RunnerSane, ShownEndIsReal, handleVars
  <2>6. OneSlip'
    BY <1>2
    DEF RunFrame, Runner!RunFrame, LockHeld, StopKnows, Registered, Starting,
        OneSlip, Threads, handleVars
  <2> QED
    BY <2>1, <2>2, <2>3, <2>4, <2>5, <2>6
<1>3. CASE AdvanceReturns(h)
  <2>1. (TypeOK /\ RunnerSane)'
    BY <1>3
    DEF AdvanceReturns, Released, Go, Deliver, Runner!Return, TypeOK, RunnerSane
  <2>2. LockHeld'
    BY <1>3, ThreadAssumption
    DEF AdvanceReturns, Released, Go, Deliver, Runner!Return, LockHeld
  <2>3. ShownEndIsReal'
    BY <1>3, EndsAssumption
    DEF AdvanceReturns, Released, Go, Deliver, Runner!Return, ShownEndIsReal,
        Verdicts, Failed
  <2>4. StopKnows'
    BY <1>3, ThreadAssumption
    DEF AdvanceReturns, Released, Go, Deliver, Runner!Return, TypeOK, LockHeld,
        ShownEndIsReal, StopKnows
  <2>5. Registered'
    BY <1>3, EndsAssumption
    DEF AdvanceReturns, Released, Go, Deliver, Runner!Return, TypeOK, LockHeld,
        Registered, Starting, Verdicts, Failed
  <2>6. OneSlip'
    BY <1>3, EndsAssumption
    DEF AdvanceReturns, Released, Go, Deliver, Runner!Return, TypeOK, LockHeld,
        Registered, Starting, OneSlip, Verdicts, Failed
  <2> QED
    BY <2>1, <2>2, <2>3, <2>4, <2>5, <2>6
<1>4. CASE AdvanceRaises(h)
  <2>1. (TypeOK /\ RunnerSane /\ ShownEndIsReal)'
    BY <1>4
    DEF AdvanceRaises, Released, Go, Runner!Raise, TypeOK, RunnerSane,
        ShownEndIsReal, handleVars
  <2>2. LockHeld'
    BY <1>4, ThreadAssumption DEF AdvanceRaises, Released, Go, Runner!Raise, LockHeld
  <2>3. StopKnows'
    BY <1>4, ThreadAssumption
    DEF AdvanceRaises, Released, Go, Runner!Raise, TypeOK, StopKnows, handleVars
  <2>4. Registered'
    BY <1>4
    DEF AdvanceRaises, Released, Go, Runner!Raise, TypeOK, LockHeld, Registered,
        Starting, handleVars
  <2>5. OneSlip'
    BY <1>4
    DEF AdvanceRaises, Released, Go, Runner!Raise, TypeOK, LockHeld, Registered,
        Starting, OneSlip, handleVars
  <2> QED
    BY <2>1, <2>2, <2>3, <2>4, <2>5
<1> QED
  BY <1>1, <1>2, <1>3, <1>4 DEF AdvanceStep

--------------------------------------------------------------------------------
(* The service starts without a handle, its runner at its first frame. *)
LEMMA IInvInit == Init => IInv
<1> SUFFICES ASSUME Init PROVE IInv
  OBVIOUS
<1>1. TypeOK
  <2>1. pc \in [Clients -> {"idle"}]
    BY DEF Init
  <2>2. frame \in 0..Frames
    BY FramesAssumption DEF Init, Runner!RunnerInit
  <2> QED
    BY <2>1, <2>2 DEF Init, Runner!RunnerInit, TypeOK, Modes
<1>2. LockHeld
  BY ThreadAssumption DEF Init, Runner!RunnerInit, LockHeld
<1>3. RunnerSane
  BY FramesAssumption DEF Init, Runner!RunnerInit, RunnerSane
<1>4. ShownEndIsReal
  BY EndsAssumption DEF Init, ShownEndIsReal, Verdicts, Failed
<1>5. StopKnows /\ Registered /\ OneSlip
  BY DEF Init, StopKnows, Registered, Starting, OneSlip
<1> QED
  BY <1>1, <1>2, <1>3, <1>4, <1>5 DEF IInv

(* Every step of the service preserves the invariant. *)
LEMMA IInvNext == IInv /\ [Next]_vars => IInv'
<1> SUFFICES ASSUME IInv, [Next]_vars PROVE IInv'
  OBVIOUS
<1>1. ASSUME NEW c \in Clients, Request(c) \/ RequestStep(c) PROVE IInv'
  BY <1>1, RequestsKeepIInv
<1>2. CASE WorkerStep
  BY <1>2, WorkerKeepsIInv
<1>3. ASSUME NEW h \in Threads, AdvanceStep(h) PROVE IInv'
  BY <1>3, AdvancesKeepIInv
<1>4. CASE UNCHANGED vars
  BY <1>4 DEF vars, runnerVars, handleVars, IInv, TypeOK, LockHeld, RunnerSane,
              ShownEndIsReal, StopKnows, Registered, Starting, OneSlip
<1> QED
  BY <1>1, <1>2, <1>3, <1>4 DEF Next

(* advance_lock, the runner and the handle stay in step, whoever calls. *)
THEOREM ServiceInvariant == Spec => []IInv
  BY IInvInit, IInvNext, PTL DEF Spec

(* Every variable of the service keeps its type; at most one frame slips      *)
(* through after a pause.                                                     *)
THEOREM ServiceTypeCorrect == Spec => []TypeOK
<1>1. IInv => TypeOK
  BY DEF IInv
<1> QED
  BY <1>1, ServiceInvariant, PTL

(* The handle of stop_episode, _advance_handle_once and _background_worker    *)
(* never shows an end the runner has not come to.                             *)
THEOREM EndsAreReal == Spec => []ShownEndIsReal
<1>1. IInv => ShownEndIsReal
  BY DEF IInv
<1> QED
  BY <1>1, ServiceInvariant, PTL

(* When stop_episode answers, the episode is over and not paused.             *)
THEOREM StopsAreFinal == Spec => []StopIsFinal
<1>1. IInv => StopIsFinal
  BY DEF IInv, StopKnows, StopIsFinal
<1> QED
  BY <1>1, ServiceInvariant, PTL

--------------------------------------------------------------------------------
(* The refinement: every step of the service is one of EpisodeControl, or     *)
(* changes nothing its clients see.                                           *)

LEMMA ControlInit == Init => Control!Init
  BY DEF Init, Runner!RunnerInit, Control!Init, Display

(* Requests create, pause and resume. *)
LEMMA RequestsImplement ==
  ASSUME IInv, NEW c \in Clients, Request(c) \/ RequestStep(c)
  PROVE  [Control!Next]_Control!vars
<1> USE DEF Control!vars
<1>1. ASSUME NEW m \in Modes, Register(c, m) PROVE [Control!Next]_Control!vars
  BY <1>1
  DEF IInv, Registered, Register, runnerVars, handleVars, Control!Next, Control!Create,
      Display
<1>2. CASE Pause(c)
  BY <1>2 DEF Pause, runnerVars, Control!Next, Control!Pause, Display
<1>3. CASE Resume(c)
  BY <1>3 DEF Resume, runnerVars, Control!Next, Control!Unpause, Display
<1>4. CASE Stop(c)
  BY <1>4 DEF IInv, TypeOK, Stop, runnerVars, Control!Next, Control!Unpause, Display
<1>5. CASE \/ Start(c) \/ Build(c) \/ Autostart(c) \/ AskForWorker(c) \/ Launch(c)
           \/ StopAsk(c) \/ StopSet(c) \/ StopReply(c)
  BY <1>5 DEF Start, Build, Autostart, AskForWorker, Launch, StopAsk, StopSet, StopReply,
              Runner!AskStop, runnerVars, handleVars, Display
<1> QED
  BY <1>1, <1>2, <1>3, <1>4, <1>5 DEF Request, RequestStep

(* The worker finishes or overrules, once its call has failed. *)
LEMMA WorkerImplements ==
  ASSUME IInv, WorkerStep
  PROVE  [Control!Next]_Control!vars
<1> USE DEF Control!vars
<1>1. CASE WorkerFails
  <2>1. status # "absent" /\ verdict # "running"
    BY <1>1 DEF IInv, Registered, RunnerSane, WorkerFails
  <2>2. Display' = Failed /\ Failed \in Verdicts /\ UNCHANGED <<frame, slipped>>
    BY <1>1 DEF WorkerFails, Display, Failed, Verdicts, runnerVars
  <2>3. CASE status = "running"
    <3>1. Display \in {"running", "paused"}
      BY <2>3 DEF Display
    <3> QED
      BY <2>2, <3>1 DEF Control!Next, Control!Finish
  <2>4. CASE status \in Verdicts
    <3>1. Display \in Verdicts
      BY <2>4, EndsAssumption DEF Display, Verdicts, Failed
    <3> QED
      BY <2>2, <3>1 DEF Control!Next, Control!Overrule
  <2> QED
    BY <2>1, <2>3, <2>4 DEF IInv, TypeOK
<1>2. CASE WorkerTest \/ WorkerRead \/ WorkerAfter
  BY <1>2 DEF WorkerTest, WorkerRead, WorkerAfter, runnerVars, handleVars, Display
<1> QED
  BY <1>1, <1>2 DEF WorkerStep

(* A frame advances or slips; a result that is delivered finishes or overrules. *)
LEMMA AdvancesImplement ==
  ASSUME IInv, NEW h \in Threads, AdvanceStep(h)
  PROVE  [Control!Next]_Control!vars
<1> USE DEF Control!vars
<1>1. CASE lock = h /\ RunFrame
  <2>1. status = "running"
    BY <1>1 DEF IInv, TypeOK, LockHeld, RunnerSane, ShownEndIsReal, Registered, Threads,
                RunFrame, Runner!RunFrame
  <2>2. UNCHANGED Display
    BY <1>1 DEF RunFrame, handleVars, Display
  <2>3. CASE frame' = frame
    BY <1>1, <2>2, <2>3 DEF RunFrame
  <2>4. CASE frame' # frame /\ paused
    <3>1. Display = "paused" /\ slipped = 0 /\ slipped' = 1 /\ frame' = frame + 1
      BY <1>1, <2>1, <2>4
      DEF IInv, TypeOK, OneSlip, RunFrame, Runner!RunFrame, Display
    <3> QED
      BY <2>2, <3>1 DEF Control!Next, Control!Slip
  <2>5. CASE frame' # frame /\ ~paused
    <3>1. Display = "running" /\ UNCHANGED slipped /\ frame' = frame + 1
      BY <1>1, <2>1, <2>5 DEF IInv, TypeOK, RunFrame, Runner!RunFrame, Display
    <3> QED
      BY <2>2, <3>1 DEF Control!Next, Control!Advance
  <2> QED
    BY <2>3, <2>4, <2>5
<1>2. CASE AdvanceReturns(h)
  <2>1. status # "absent"
    BY <1>2, ThreadAssumption
    DEF IInv, LockHeld, Registered, Threads, AdvanceReturns, Released
  <2>2. /\ UNCHANGED <<frame, slipped>> /\ status' = verdict
        /\ paused' = (paused /\ verdict = "running")
    BY <1>2 DEF AdvanceReturns, Deliver, Runner!Return
  <2>3. CASE verdict = "running"
    BY <2>1, <2>2, <2>3 DEF IInv, TypeOK, ShownEndIsReal, Display
  <2>4. CASE verdict # "running"
    <3>1. verdict \in Verdicts /\ Display' = verdict
      BY <2>2, <2>4 DEF IInv, TypeOK, Display
    <3>2. CASE status = "running"
      <4>1. Display \in {"running", "paused"}
        BY <3>2 DEF Display
      <4> QED
        BY <2>2, <3>1, <4>1 DEF Control!Next, Control!Finish
    <3>3. CASE status \in Verdicts
      <4>1. Display = status /\ status \in {verdict, Failed}
        BY <3>3, EndsAssumption DEF IInv, ShownEndIsReal, Display, Verdicts, Failed
      <4> QED
        BY <2>2, <3>1, <3>3, <4>1 DEF Control!Next, Control!Overrule
    <3> QED
      BY <2>1, <3>2, <3>3 DEF IInv, TypeOK
  <2> QED
    BY <2>3, <2>4
<1>3. CASE BeginAdvance(h) \/ AdvanceRaises(h)
  BY <1>3 DEF BeginAdvance, AdvanceRaises, Runner!Call, Runner!Raise, handleVars, Display
<1> QED
  BY <1>1, <1>2, <1>3 DEF AdvanceStep

(* What moduleM and the REST interface promise about one episode holds of the *)
(* service: it shows one status at a time, simulates only while it is         *)
(* running, lets one frame through after a pause and none after the end.      *)
THEOREM ServiceImplementsControl == Spec => ImplementsControl
<1>1. IInv /\ [Next]_vars => [Control!Next]_Control!vars
  <2> SUFFICES ASSUME IInv, [Next]_vars PROVE [Control!Next]_Control!vars
    OBVIOUS
  <2>1. ASSUME NEW c \in Clients, Request(c) \/ RequestStep(c)
        PROVE  [Control!Next]_Control!vars
    BY <2>1, RequestsImplement
  <2>2. CASE WorkerStep
    BY <2>2, WorkerImplements
  <2>3. ASSUME NEW h \in Threads, AdvanceStep(h) PROVE [Control!Next]_Control!vars
    BY <2>3, AdvancesImplement
  <2>4. CASE UNCHANGED vars
    BY <2>4 DEF vars, runnerVars, handleVars, Control!vars, Display
  <2> QED
    BY <2>1, <2>2, <2>3, <2>4 DEF Next
<1> QED
  BY <1>1, ControlInit, ServiceInvariant, PTL DEF Spec, ImplementsControl, Control!Spec
================================================================================
