---------------------------- MODULE FrameLoopProofs ----------------------------
(***************************************************************************)
(* What the frame loop guarantees for every period, duration and set of      *)
(* cranes: its log, its commands, its completion, the loop of run_episode,   *)
(* and that it implements EpisodeLog and RunnerCalls.                        *)
(***************************************************************************)
EXTENDS FrameLoop, SequenceTheorems, TLAPS

StatusRow == [frame : Nat, status : Statuses]

(* The fields have the types the code declares.                             *)
TypeOK ==
    /\ driver \in {"api", "batch"} /\ pc \in Calls
    /\ frame \in Nat /\ status \in Statuses
    /\ stopRequested \in BOOLEAN /\ initialRecorded \in BOOLEAN
    /\ doneSince \in Nat \cup {Never} /\ tasksDone \in BOOLEAN /\ llmFailed \in BOOLEAN
    /\ lastDecision \in [Cranes -> Nat \cup {Never}]
    /\ commands \in [Cranes -> [source : {"neutral", "decision"}, issued : Nat,
                                expires : Nat]]
    /\ started \in BOOLEAN /\ finalized \in BOOLEAN
    /\ rows \in Seq(StatusRow)
    /\ manifest \in Statuses \cup {"none"}

(* The calls before the status is settled, and those after.                  *)
Unsettled == {"initial", "weather", "decide", "expire", "physics", "settle"}
Settled   == {"record", "broadcast", "commit"}
Stopping  == {"stop_record", "stop_broadcast"}

(* A frame starts with a running episode, only _apply_terminal_status ends one  *)
(* inside it, and only a batch leaves the loop.                               *)
PhaseInv ==
    /\ pc \in Unsettled => status = "running"
    /\ pc \in Settled => status # "stopped_by_user"
    /\ pc \in Stopping => status = "stopped_by_user"
    /\ pc \in {"finish", "ended"} => driver = "batch"
    /\ pc \in {"finish", "ended"} => status # "running"

(* The rows are those of the frames so far, all of a running episode.          *)
Live == \A i \in DOMAIN rows : rows[i].frame = i - 1 /\ rows[i].status = "running"

(* How many rows there are, call by call, while more may follow.               *)
LengthInv ==
    /\ pc = "initial" => ~initialRecorded
    /\ pc \in (Unsettled \ {"initial"}) \cup {"record", "stop_record"} =>
           initialRecorded /\ Len(rows) = frame + 1
    /\ pc \in {"broadcast", "commit"} => initialRecorded /\ Len(rows) = frame + 2
    /\ pc \in {"idle", "wrap"} /\ status = "running" /\ initialRecorded =>
           Len(rows) = frame + 1
    /\ status = "running" /\ ~initialRecorded => rows = <<>> /\ frame = 0

LogInv ==
    /\ \A i \in DOMAIN rows :
           \/ rows[i].frame = i - 1
           \/ rows[i].frame = i - 2 /\ rows[i].status = "stopped_by_user"
    /\ \A i \in DOMAIN rows : i < Len(rows) => rows[i].status = "running"
    /\ status = "running" \/ pc \in {"record", "stop_record"} => Live
    /\ LengthInv

(* What is known of the commands between the frames, and what the decisions and  *)
(* the expiry add.                                                             *)
CommandInv ==
    /\ \A c \in Cranes :
        /\ lastDecision[c] <= Now /\ lastDecision[c] <= commands[c].issued
        /\ commands[c].source = "decision" => commands[c].issued = lastDecision[c]
    /\ pc \in {"expire", "physics"} =>
           \A c \in Cranes : lastDecision[c] # Never /\ Now - lastDecision[c] < Interval
    /\ pc = "physics" => \A c \in Cranes : Now < commands[c].expires

(* The frame whose end the status speaks of.                                  *)
Settling == IF pc \in Settled THEN NextTime ELSE Now

CooldownOver == StopWhenDone /\ doneSince # Never /\ Settling >= MinDuration
                /\ Settling - doneSince >= Cooldown

(* should_stop and the terminal status agree: a running episode has reached      *)
(* neither its duration nor the end of its cooldown, a completed one has.        *)
VerdictInv ==
    /\ status = "running" =>
           Settling < Duration /\ doneSince <= Settling /\ ~CooldownOver
    /\ status = "completed" => CooldownOver /\ tasksDone

(* Only what is over is closed, and the API closes only what has a log.          *)
ClosedInv ==
    /\ ~finalized => manifest = "none"
    /\ status = "running" \/ pc \in FrameCalls \cup Stopping => ~finalized
    /\ driver = "api" /\ finalized => ~NothingRecorded

IInv == TypeOK /\ PhaseInv /\ LogInv /\ CommandInv /\ VerdictInv /\ ClosedInv

--------------------------------------------------------------------------------
(* Times, and what settling a frame yields                                     *)

LEMMA Times ==
  ASSUME TypeOK
  PROVE  /\ Now \in Nat /\ NextTime \in Nat /\ NextTime = Now + Dt
         /\ frame = 0 => Now = 0
         /\ frame' = frame => Now' = Now /\ NextTime' = NextTime
         /\ frame' = frame + 1 => Now' = NextTime
<1>1. frame \in Nat /\ Dt \in Nat
  BY PeriodAssumption DEF TypeOK
<1>2. Now \in Nat /\ (frame + 1) * Dt = frame * Dt + Dt
  BY <1>1 DEF Now
<1> QED
  BY <1>1, <1>2 DEF Now, NextTime

(* The first cause in the order of update_terminal_status is one of the causes.  *)
LEMMA FirstCauseIsOne ==
  ASSUME NEW causes \in SUBSET {Causes[i] : i \in DOMAIN Causes}, causes # {}
  PROVE  FirstCause(causes) \in causes
<1>1. DOMAIN Causes = 1..4
  BY DEF Causes
<1> DEFINE First(i) == /\ Causes[i] \in causes
                       /\ \A j \in 1..(i - 1) : Causes[j] \notin causes
<1>2. \E i \in 1..4 : Causes[i] \in causes
  BY <1>1
<1>3. \E i \in 1..4 : First(i)
  <2>1. CASE Causes[1] \in causes
    BY <2>1
  <2>2. CASE Causes[1] \notin causes /\ Causes[2] \in causes
    <3>1. First(2)
      BY <2>2
    <3> QED
      BY <3>1
  <2>3. CASE Causes[1] \notin causes /\ Causes[2] \notin causes /\ Causes[3] \in causes
    <3>1. First(3)
      BY <2>3
    <3> QED
      BY <3>1
  <2>4. CASE /\ Causes[1] \notin causes /\ Causes[2] \notin causes
             /\ Causes[3] \notin causes
    <3>1. Causes[4] \in causes
      BY <1>2, <2>4
    <3>2. First(4)
      BY <2>4, <3>1
    <3> QED
      BY <3>2
  <2> QED
    BY <2>1, <2>2, <2>3, <2>4
<1>4. First(CHOOSE i \in DOMAIN Causes : First(i))
  BY <1>1, <1>3
<1> QED
  BY <1>4 DEF FirstCause

(* _apply_terminal_status: whether it runs on, and what a completion has behind it. *)
LEMMA Verdicts ==
  ASSUME TypeOK, PhaseInv, VerdictInv, NEW causes \in SUBSET {Causes[i] : i \in DOMAIN Causes}, Settle(causes)
  PROVE  /\ status' \in Statuses \ {"stopped_by_user"}
         /\ doneSince' \in Nat \cup {Never} /\ doneSince' <= NextTime
         /\ status' = "running" => NextTime < Duration /\ ~CooldownMet(doneSince')
         /\ status' = "completed" => CooldownMet(doneSince') /\ tasksDone
<1>1. /\ Now \in Nat /\ NextTime \in Nat /\ doneSince <= NextTime
      /\ doneSince \in Nat \cup {Never} /\ MinDuration \in Nat /\ Cooldown \in Nat /\ Duration \in Nat /\ tasksDone \in BOOLEAN
  <2>1. doneSince <= Now
    BY DEF Settle, PhaseInv, VerdictInv, Unsettled, Settled, Settling
  <2> QED
    BY <2>1, Times, PeriodAssumption DEF TypeOK, Never
<1>2. doneSince' = DoneSinceAfter(causes)
      /\ status' = IF Terminal(causes) = "running" /\ CooldownMet(doneSince')
                   THEN "completed" ELSE Terminal(causes)
  BY DEF Settle
<1>3. doneSince' \in Nat \cup {Never} /\ doneSince' <= NextTime
  BY <1>1, <1>2 DEF DoneSinceAfter, Never
<1>4. CASE causes # {}
  <2>1. FirstCause(causes) \in causes
    BY <1>4, FirstCauseIsOne
  <2>2. FirstCause(causes) \in {"failed_collision", "failed_invalid_state", "llm_failed",
                                "failed_recovery"}
    BY <2>1 DEF Causes
  <2>3. Terminal(causes) = FirstCause(causes)
    BY <1>4 DEF Terminal
  <2>4. FirstCause(causes) \in Failures
    BY <2>1 DEF Failures
  <2> QED
    BY <1>2, <1>3, <2>2, <2>3, <2>4 DEF Statuses
<1>5. CASE causes = {}
  <2>1. doneSince' = IF ~tasksDone THEN Never
                     ELSE IF doneSince = Never THEN NextTime ELSE doneSince
    BY <1>2, <1>5 DEF DoneSinceAfter
  <2> DEFINE done == StopWhenDone /\ NextTime >= MinDuration /\ Cooldown = 0 /\ tasksDone
  <2>2. CASE done
    <3>1. status' = "completed"
      BY <1>2, <1>5, <2>2 DEF Terminal
    <3>2. doneSince' # Never /\ NextTime - doneSince' >= Cooldown
      BY <1>1, <1>3, <2>1, <2>2 DEF Never
    <3> QED
      BY <1>3, <2>2, <3>1, <3>2 DEF CooldownMet, Statuses
  <2>3. CASE ~done /\ NextTime >= Duration
    <3>1. status' = "timeout"
      BY <1>2, <1>5, <2>3 DEF Terminal
    <3> QED
      BY <1>3, <3>1 DEF Statuses
  <2>4. CASE ~done /\ ~(NextTime >= Duration)
    <3>1. Terminal(causes) = "running"
      BY <1>5, <2>4 DEF Terminal
    <3>2. status' = IF CooldownMet(doneSince') THEN "completed" ELSE "running"
      BY <1>2, <3>1
    <3>3. CooldownMet(doneSince') => tasksDone
      BY <2>1 DEF CooldownMet
    <3> QED
      BY <1>1, <1>3, <2>4, <3>2, <3>3 DEF Statuses
  <2> QED
    BY <2>2, <2>3, <2>4
<1> QED
  BY <1>4, <1>5

--------------------------------------------------------------------------------
(* The inductive invariant, a conjunct at a time                                *)

LEMMA RowType ==
  ASSUME TypeOK, NEW i \in Nat
  PROVE  Row(i) \in StatusRow /\ Row(i).frame = i /\ Row(i).status = status
  BY DEF TypeOK, Row, StatusRow

LEMMA AppendRow ==
  ASSUME NEW s \in Seq(StatusRow), NEW r \in StatusRow
  PROVE  /\ Append(s, r) \in Seq(StatusRow)
         /\ Len(Append(s, r)) = Len(s) + 1 /\ Len(s) \in Nat
         /\ DOMAIN Append(s, r) = 1..(Len(s) + 1) /\ DOMAIN s = 1..Len(s)
         /\ \A i \in 1..Len(s) : Append(s, r)[i] = s[i]
         /\ Append(s, r)[Len(s) + 1] = r
  BY AppendProperties, LenProperties

LEMMA RowAppended ==
  ASSUME TypeOK, NEW i \in Nat, rows' = Append(rows, Row(i))
  PROVE  /\ rows' \in Seq(StatusRow) /\ Len(rows) \in Nat /\ Len(rows') = Len(rows) + 1
         /\ DOMAIN rows' = 1..(Len(rows) + 1) /\ DOMAIN rows = 1..Len(rows)
         /\ \A j \in 1..Len(rows) : rows'[j] = rows[j]
         /\ rows'[Len(rows) + 1].frame = i /\ rows'[Len(rows) + 1].status = status
<1>1. Row(i) \in StatusRow /\ Row(i).frame = i /\ Row(i).status = status
  BY RowType
<1>2. rows \in Seq(StatusRow)
  BY DEF TypeOK
<1> DEFINE r == Row(i)
<1> HIDE DEF r
<1>3. /\ Append(rows, r) \in Seq(StatusRow)
      /\ Len(Append(rows, r)) = Len(rows) + 1 /\ Len(rows) \in Nat
      /\ DOMAIN Append(rows, r) = 1..(Len(rows) + 1) /\ DOMAIN rows = 1..Len(rows)
      /\ \A j \in 1..Len(rows) : Append(rows, r)[j] = rows[j]
      /\ Append(rows, r)[Len(rows) + 1] = r
  <2>1. r \in StatusRow
    BY <1>1 DEF r
  <2> QED
    BY <1>2, <2>1, AppendRow
<1>4. rows' = Append(rows, r)
  BY DEF r
<1> QED
  BY <1>1, <1>3, <1>4 DEF r

(* The types of the fields the clocks and the frames' ends are kept in.          *)
LEMMA TypeStep == TypeOK /\ PhaseInv /\ VerdictInv /\ [Next]_vars => TypeOK'
<1> SUFFICES ASSUME TypeOK, PhaseInv, VerdictInv, [Next]_vars PROVE TypeOK'
  OBVIOUS
<1> USE DEF clockVars, taskVars, recordVars, runnerVars
<1>1. Now \in Nat /\ 0 \in Nat /\ frame \in Nat /\ frame + 1 \in Nat
  BY Times DEF TypeOK
<1>2. CASE Stop \/ BeginFrame \/ StopFrame \/ OverFrame \/ LeaveLoop
  BY <1>2 DEF TypeOK, Stop, BeginFrame, StopFrame, OverFrame, LeaveLoop, Calls, FrameCalls,
              Statuses
<1>3. CASE RecordStop \/ RecordInitial \/ RecordFrame \/ RecordLate
  <2>1. \E i \in Nat : rows' = Append(rows, Row(i))
    BY <1>1, <1>3 DEF RecordStop, RecordInitial, RecordFrame, RecordLate
  <2>2. rows' \in Seq(StatusRow)
    BY <2>1, RowAppended
  <2> QED
    BY <1>3, <2>2 DEF TypeOK, RecordStop, RecordInitial, RecordFrame, RecordLate, Calls,
                      FrameCalls
<1>4. CASE BroadcastStop \/ StopRaises \/ UpdateWeather \/ Broadcast \/ Commit \/ Return
           \/ RecordLateRaises
  BY <1>4 DEF TypeOK, BroadcastStop, StopRaises, UpdateWeather, Broadcast, Commit, Return,
              RecordLateRaises, Calls, FrameCalls
<1>5. CASE Finalize \/ FinalizeRaises \/ FinalizeAgain
  BY <1>5 DEF TypeOK, Finalize, FinalizeRaises, FinalizeAgain, AfterClosing, Calls, FrameCalls
<1>6. ASSUME NEW duration \in [Cranes -> Durations], NEW failed \in BOOLEAN,
             Decide(duration, failed)
      PROVE  TypeOK'
  <2>1. \A c \in Cranes : Decided(c, duration[c]) \in
            [source : {"neutral", "decision"}, issued : Nat, expires : Nat]
    <3> SUFFICES ASSUME NEW c \in Cranes
                 PROVE  Decided(c, duration[c]) \in
                          [source : {"neutral", "decision"}, issued : Nat, expires : Nat]
      OBVIOUS
    <3>1. duration[c] \in Durations /\ Durations \subseteq Nat
      BY PeriodAssumption
    <3>2. duration[c] \in Nat
      BY <3>1
    <3>3. Now + duration[c] \in Nat
      BY <1>1, <3>2
    <3> QED
      BY <1>1, <3>3 DEF Decided
  <2>2. commands' \in [Cranes -> [source : {"neutral", "decision"}, issued : Nat,
                                  expires : Nat]]
    BY <1>6, <2>1 DEF Decide, TypeOK
  <2>3. lastDecision' \in [Cranes -> Nat \cup {Never}]
    BY <1>1, <1>6 DEF Decide, TypeOK
  <2> QED
    BY <1>6, <2>2, <2>3 DEF Decide, TypeOK, Calls, FrameCalls
<1>7. CASE Expire
  <2>1. NeutralStop(Now) \in [source : {"neutral", "decision"}, issued : Nat, expires : Nat]
    BY <1>1, PeriodAssumption DEF NeutralStop
  <2>2. commands' \in [Cranes -> [source : {"neutral", "decision"}, issued : Nat,
                                  expires : Nat]]
    BY <1>7, <2>1 DEF Expire, TypeOK
  <2> QED
    BY <1>7, <2>2 DEF Expire, TypeOK, Calls, FrameCalls
<1>8. ASSUME NEW done \in BOOLEAN, StepPhysics(done)
      PROVE  TypeOK'
  BY <1>8 DEF StepPhysics, TypeOK, Calls, FrameCalls
<1>9. ASSUME NEW causes \in SUBSET {Causes[i] : i \in DOMAIN Causes}, Settle(causes)
      PROVE  TypeOK'
  <2>1. status' \in Statuses /\ doneSince' \in Nat \cup {Never}
    BY <1>9, Verdicts
  <2> QED
    BY <1>9, <2>1 DEF Settle, TypeOK, Calls, FrameCalls
<1>10. ASSUME NEW mismatch \in BOOLEAN, Raise(mismatch)
       PROVE  TypeOK'
  <2>1. rows' \in Seq(StatusRow)
    BY <1>1, <1>10, RowAppended DEF Raise, TypeOK
  <2>2. status' \in Statuses
    BY <1>10 DEF Raise, Statuses, Failures, Causes
  <2>3. started' \in BOOLEAN
    BY <1>10 DEF Raise, TypeOK
  <2> QED
    BY <1>10, <2>1, <2>2, <2>3 DEF Raise, TypeOK, Calls
<1>11. CASE UNCHANGED vars
  BY <1>11 DEF vars, TypeOK
<1> QED
  BY <1>2, <1>3, <1>4, <1>5, <1>6, <1>7, <1>8, <1>9, <1>10, <1>11 DEF Next, Drive, Work

LEMMA PhaseStep == TypeOK /\ PhaseInv /\ VerdictInv /\ [Next]_vars => PhaseInv'
<1> SUFFICES ASSUME TypeOK, PhaseInv, VerdictInv, [Next]_vars PROVE PhaseInv'
  OBVIOUS
<1> USE DEF PhaseInv, Unsettled, Settled, Stopping, clockVars, taskVars, recordVars,
            runnerVars
<1>1. CASE Stop \/ BeginFrame \/ StopFrame \/ OverFrame
  BY <1>1 DEF Stop, BeginFrame, StopFrame, OverFrame
(* should_stop lets a running episode go on: the second reading of the rules.    *)
<1>2. CASE LeaveLoop
  <2>1. pc = "idle" /\ pc' = "finish" /\ driver = "batch" /\ UNCHANGED <<driver, status>>
        /\ ShouldStop
    BY <1>2 DEF LeaveLoop
  <2>2. status # "running"
    BY <2>1, Times, PeriodAssumption DEF ShouldStop, VerdictInv, Settling, CooldownOver
  <2> QED
    BY <2>1, <2>2
<1>3. CASE RecordStop \/ BroadcastStop \/ StopRaises \/ RecordInitial \/ UpdateWeather
           \/ RecordFrame \/ Broadcast \/ Commit \/ Return \/ RecordLate \/ RecordLateRaises
  BY <1>3 DEF RecordStop, BroadcastStop, StopRaises, RecordInitial, UpdateWeather,
              RecordFrame, Broadcast, Commit, Return, RecordLate, RecordLateRaises, Closing
<1>4. CASE Finalize \/ FinalizeRaises \/ FinalizeAgain
  BY <1>4 DEF Finalize, FinalizeRaises, FinalizeAgain, AfterClosing, Closing
<1>5. ASSUME NEW duration \in [Cranes -> Durations], NEW failed \in BOOLEAN,
             Decide(duration, failed)
      PROVE  PhaseInv'
  BY <1>5 DEF Decide
<1>6. CASE Expire
  BY <1>6 DEF Expire
<1>7. ASSUME NEW done \in BOOLEAN, StepPhysics(done)
      PROVE  PhaseInv'
  BY <1>7 DEF StepPhysics
<1>8. ASSUME NEW causes \in SUBSET {Causes[i] : i \in DOMAIN Causes}, Settle(causes)
      PROVE  PhaseInv'
  <2>1. status' # "stopped_by_user" /\ pc' = "record"
    BY <1>8, Verdicts DEF Settle
  <2> QED
    BY <2>1
<1>9. ASSUME NEW mismatch \in BOOLEAN, Raise(mismatch)
      PROVE  PhaseInv'
  BY <1>9 DEF Raise
<1>10. CASE UNCHANGED vars
  BY <1>10 DEF vars
<1> QED
  BY <1>1, <1>2, <1>3, <1>4, <1>5, <1>6, <1>7, <1>8, <1>9, <1>10 DEF Next, Drive, Work

(* A row is only ever appended to a log in which every row is a running frame.   *)
LEMMA LogStep == TypeOK /\ PhaseInv /\ VerdictInv /\ LogInv /\ [Next]_vars => LogInv'
<1> SUFFICES ASSUME TypeOK, PhaseInv, VerdictInv, LogInv, [Next]_vars PROVE LogInv'
  OBVIOUS
<1> USE DEF clockVars, taskVars, recordVars, runnerVars
<1>1. /\ frame \in Nat /\ rows \in Seq(StatusRow) /\ Len(rows) \in Nat
      /\ DOMAIN rows = 1..Len(rows)
  BY LenProperties DEF TypeOK
(* The row i after k rows of running frames. *)
<1>2. ASSUME NEW i \in Nat, Live, rows' = Append(rows, Row(i)),
             i = Len(rows) \/ (i = Len(rows) - 1 /\ status = "stopped_by_user")
      PROVE  /\ Len(rows') = Len(rows) + 1
             /\ \A j \in DOMAIN rows' :
                    \/ rows'[j].frame = j - 1
                    \/ rows'[j].frame = j - 2 /\ rows'[j].status = "stopped_by_user"
             /\ \A j \in DOMAIN rows' : j < Len(rows') => rows'[j].status = "running"
             /\ status = "running" =>
                    \A j \in DOMAIN rows' : rows'[j].frame = j - 1 /\ rows'[j].status = "running"
  <2>1. /\ DOMAIN rows' = 1..(Len(rows) + 1) /\ Len(rows') = Len(rows) + 1
        /\ \A j \in 1..Len(rows) : rows'[j] = rows[j]
        /\ rows'[Len(rows) + 1].frame = i /\ rows'[Len(rows) + 1].status = status
    BY <1>2, RowAppended
  <2>2. \A j \in 1..Len(rows) : rows'[j].frame = j - 1 /\ rows'[j].status = "running"
    BY <1>1, <1>2, <2>1 DEF Live
  <2>4. ASSUME NEW j \in 1..(Len(rows) + 1)
        PROVE  /\ \/ rows'[j].frame = j - 1
                  \/ rows'[j].frame = j - 2 /\ rows'[j].status = "stopped_by_user"
               /\ j < Len(rows) + 1 => rows'[j].status = "running"
               /\ status = "running" => rows'[j].frame = j - 1 /\ rows'[j].status = "running"
    <3>1. CASE j \in 1..Len(rows)
      BY <2>2, <3>1
    <3>2. CASE j = Len(rows) + 1
      <4>1. rows'[j].frame = i /\ rows'[j].status = status /\ j - 1 = Len(rows)
        BY <1>1, <2>1, <3>2
      <4>2. \/ i = j - 1
            \/ i = j - 2 /\ status = "stopped_by_user"
        <5>1. CASE i = Len(rows)
          BY <4>1, <5>1
        <5>2. CASE i = Len(rows) - 1 /\ status = "stopped_by_user"
          <6>1. j - 2 = Len(rows) - 1
            BY <1>1, <3>2
          <6> QED
            BY <5>2, <6>1
        <5> QED
          BY <1>2, <5>1, <5>2
      <4>3. ~(j < Len(rows) + 1)
        BY <1>1, <3>2
      <4>4. status = "running" => i = j - 1
        BY <4>2
      <4> QED
        BY <4>1, <4>2, <4>3, <4>4
    <3> QED
      BY <1>1, <3>1, <3>2
  <2> QED
    BY <2>1, <2>4
(* The calls that leave the log alone. *)
<1>3. ASSUME UNCHANGED <<rows, frame, initialRecorded>>,
             \/ UNCHANGED <<pc, status>>
             \/ status # "running" /\ status' = status
                /\ pc' \in {"idle", "wrap", "stop_broadcast", "finish", "ended"}
             \/ status = "running" /\ status' = status /\ pc \in {"idle", "wrap"}
                /\ pc' \in {"idle", "wrap", "weather", "initial"}
                /\ (pc' = "weather" => initialRecorded)
                /\ (pc' = "initial" => ~initialRecorded)
             \/ status = "running" /\ status' = "stopped_by_user" /\ pc \in {"idle"}
                /\ pc' = (IF initialRecorded THEN "stop_record" ELSE "wrap")
             \/ pc \in Unsettled \ {"initial"} /\ pc' \in Unsettled \ {"initial"}
                /\ status' = status
             \/ pc = "broadcast" /\ pc' = "commit" /\ status' = status
      PROVE  LogInv'
  <2>1. Live' <=> Live
    BY <1>3 DEF Live
  <2>2. (status = "running" \/ pc \in {"record", "stop_record"} => Live)'
    BY <1>3, <2>1 DEF LogInv, Unsettled
  <2>3. LengthInv'
    BY <1>3 DEF LogInv, LengthInv, Unsettled
  <2> QED
    BY <1>3, <2>2, <2>3 DEF LogInv
<1>4. CASE Stop \/ BeginFrame \/ StopFrame \/ UNCHANGED vars
  BY <1>3, <1>4 DEF Stop, BeginFrame, StopFrame, Called, vars
<1>5. CASE \/ OverFrame \/ LeaveLoop \/ BroadcastStop \/ StopRaises \/ RecordLateRaises
            \/ Finalize \/ FinalizeRaises \/ FinalizeAgain
  <2>1. UNCHANGED <<rows, frame, initialRecorded, status>>
        /\ pc' \in {"idle", "wrap", "stop_broadcast", "finish", "ended"}
    BY <1>5 DEF OverFrame, LeaveLoop, BroadcastStop, StopRaises, RecordLateRaises,
                 Finalize, FinalizeRaises, FinalizeAgain, AfterClosing
  <2>2. status # "running"
    <3>1. CASE LeaveLoop
      BY <2>1, <3>1, PhaseStep DEF LeaveLoop, PhaseInv
    <3> QED
      BY <1>5, <3>1 DEF OverFrame, BroadcastStop, StopRaises, RecordLateRaises,
                 Finalize, FinalizeRaises, FinalizeAgain, Closing, PhaseInv, Stopping
  <2> QED
    BY <1>3, <2>1, <2>2
<1>6. CASE UpdateWeather \/ Expire \/ Broadcast \/ Return
  BY <1>3, <1>6 DEF UpdateWeather, Expire, Broadcast, Return, Unsettled
<1>7. CASE RecordStop
  <2>1. /\ pc = "stop_record" /\ pc' = "stop_broadcast" /\ status = "stopped_by_user"
        /\ Len(rows) = frame + 1 /\ Live /\ rows' = Append(rows, Row(frame))
        /\ UNCHANGED <<frame, status, initialRecorded>>
    BY <1>7 DEF RecordStop, PhaseInv, Stopping, LogInv, LengthInv, Unsettled
  <2>2. LengthInv'
    BY <2>1 DEF LengthInv, Unsettled
  <2> QED
    BY <1>1, <1>2, <2>1, <2>2 DEF LogInv, Live
<1>8. CASE RecordInitial
  <2>1. /\ pc = "initial" /\ pc' = "weather" /\ status = "running" /\ initialRecorded'
        /\ rows = <<>> /\ frame = 0 /\ Live /\ rows' = Append(rows, Row(0))
        /\ UNCHANGED <<frame, status>>
    BY <1>8 DEF RecordInitial, PhaseInv, Unsettled, LogInv, LengthInv
  <2>2. Len(rows) = 0
    BY <2>1
  <2>3. Len(rows') = 1 /\ Live'
    BY <1>2, <2>1, <2>2 DEF Live
  <2>4. LengthInv'
    BY <2>1, <2>3 DEF LengthInv, Unsettled
  <2> QED
    BY <1>2, <2>1, <2>2, <2>3, <2>4 DEF LogInv
<1>9. ASSUME NEW duration \in [Cranes -> Durations], NEW failed \in BOOLEAN,
             Decide(duration, failed)
      PROVE  LogInv'
  BY <1>9 DEF Decide, LogInv, Live, LengthInv, PhaseInv, Unsettled
<1>10. ASSUME NEW done \in BOOLEAN, StepPhysics(done)
      PROVE  LogInv'
  BY <1>10 DEF StepPhysics, LogInv, Live, LengthInv, PhaseInv, Unsettled
<1>11. ASSUME NEW causes \in SUBSET {Causes[i] : i \in DOMAIN Causes}, Settle(causes)
      PROVE  LogInv'
  <2>1. /\ pc = "settle" /\ pc' = "record" /\ status = "running"
        /\ UNCHANGED <<rows, frame, initialRecorded>>
    BY <1>11 DEF Settle, PhaseInv, Unsettled
  <2>2. Live /\ initialRecorded /\ Len(rows) = frame + 1
    BY <2>1 DEF LogInv, LengthInv, Unsettled
  <2> QED
    BY <2>1, <2>2 DEF LogInv, Live, LengthInv, Unsettled
<1>12. CASE RecordFrame
  <2>1. /\ pc = "record" /\ pc' = "broadcast" /\ status # "stopped_by_user"
        /\ initialRecorded /\ Len(rows) = frame + 1 /\ Live
        /\ rows' = Append(rows, Row(frame + 1)) /\ UNCHANGED <<frame, status, initialRecorded>>
    BY <1>12 DEF RecordFrame, PhaseInv, Settled, LogInv, LengthInv, Unsettled
  <2>2. Len(rows') = frame + 2
    BY <1>1, <1>2, <2>1
  <2>3. LengthInv'
    BY <2>1, <2>2 DEF LengthInv, Unsettled
  <2> QED
    BY <1>1, <1>2, <2>1, <2>3 DEF LogInv, Live
<1>13. CASE Commit
  <2>1. /\ pc = "commit" /\ pc' = "wrap" /\ frame' = frame + 1
        /\ initialRecorded /\ Len(rows) = frame + 2 /\ UNCHANGED <<rows, status, initialRecorded>>
    BY <1>13 DEF Commit, LogInv, LengthInv
  <2>2. LengthInv'
    BY <1>1, <2>1 DEF LengthInv, Unsettled
  <2> QED
    BY <2>1, <2>2 DEF LogInv, Live
<1>14. ASSUME NEW mismatch \in BOOLEAN, Raise(mismatch)
       PROVE  LogInv'
  <2>1. pc' = "wrap" /\ status' # "running" /\ UNCHANGED <<frame, initialRecorded>>
    BY <1>14 DEF Raise
  <2>2. rows' = rows \/ (pc = "initial" /\ rows' = Append(rows, Row(0)))
    BY <1>14 DEF Raise
  <2>3. LengthInv'
    BY <2>1 DEF LengthInv, Unsettled
  <2>4. CASE rows' = rows
    BY <2>1, <2>3, <2>4 DEF LogInv
  <2>5. CASE pc = "initial" /\ rows' = Append(rows, Row(0))
    <3>1. Live /\ rows = <<>>
      BY <2>5 DEF PhaseInv, Unsettled, LogInv, LengthInv
    <3>2. Len(rows) = 0
      BY <3>1
    <3> QED
      BY <1>2, <2>1, <2>3, <2>5, <3>1, <3>2 DEF LogInv
  <2> QED
    BY <2>2, <2>4, <2>5
<1>15. CASE RecordLate
  <2>1. /\ pc = "wrap" /\ pc' = "wrap" /\ status # "running" /\ rows = <<>>
        /\ rows' = Append(rows, Row(0)) /\ UNCHANGED <<frame, status>>
    BY <1>15 DEF RecordLate, Closing, NothingRecorded
  <2>2. Len(rows) = 0 /\ Live
    BY <1>1, <2>1 DEF Live
  <2>3. LengthInv'
    BY <2>1 DEF LengthInv, Unsettled
  <2> QED
    BY <1>2, <2>1, <2>2, <2>3 DEF LogInv
<1> QED
  BY <1>4, <1>5, <1>6, <1>7, <1>8, <1>9, <1>10, <1>11, <1>12, <1>13, <1>14, <1>15
  DEF Next, Drive, Work

(* The decisions mark the clock and the commands with one time, the expiry       *)
(* replaces only what ran out, and a frame ends no earlier than it began.        *)
LEMMA CommandStep == TypeOK /\ CommandInv /\ [Next]_vars => CommandInv'
<1> SUFFICES ASSUME TypeOK, CommandInv, [Next]_vars PROVE CommandInv'
  OBVIOUS
<1> USE DEF clockVars, taskVars, recordVars, runnerVars
<1>1. /\ Now \in Nat /\ NextTime \in Nat /\ Now <= NextTime
      /\ frame' = frame => Now' = Now
      /\ frame' = frame + 1 => Now' = NextTime
      /\ Interval \in Nat \ {0} /\ NeutralDuration \in Nat \ {0}
      /\ \A c \in Cranes : /\ lastDecision[c] \in Nat \cup {Never}
                           /\ commands[c].issued \in Nat /\ commands[c].expires \in Nat
  <2>1. Dt \in Nat /\ Interval \in Nat \ {0} /\ NeutralDuration \in Nat \ {0}
    BY PeriodAssumption
  <2>2. Now \in Nat /\ NextTime = Now + Dt /\ (frame' = frame => Now' = Now)
    BY Times
  <2>3. \A c \in Cranes : /\ lastDecision[c] \in Nat \cup {Never}
                          /\ commands[c].issued \in Nat /\ commands[c].expires \in Nat
    BY DEF TypeOK
  <2> QED
    BY <2>1, <2>2, <2>3, Times
(* The calls that leave the clock and the commands alone. *)
<1>2. ASSUME UNCHANGED <<lastDecision, commands>>,
             frame' = frame \/ frame' = frame + 1,
             pc' \notin {"expire", "physics"} \/ (UNCHANGED <<pc, frame>>)
      PROVE  CommandInv'
  <2>1. Now' \in Nat /\ Now <= Now'
    BY <1>1, <1>2, Times
  <2>2. (\A c \in Cranes :
           /\ lastDecision[c] <= Now /\ lastDecision[c] <= commands[c].issued
           /\ commands[c].source = "decision" => commands[c].issued = lastDecision[c])'
    BY <1>1, <1>2, <2>1 DEF CommandInv, Never
  <2>3. UNCHANGED <<pc, frame>> => Now' = Now
    BY <1>1
  <2> QED
    BY <1>2, <2>2, <2>3 DEF CommandInv
<1>3. CASE \/ Stop \/ BeginFrame \/ StopFrame \/ OverFrame \/ LeaveLoop \/ UNCHANGED vars
  BY <1>2, <1>3 DEF Stop, BeginFrame, StopFrame, OverFrame, LeaveLoop, vars
<1>4. CASE \/ RecordStop \/ BroadcastStop \/ StopRaises \/ RecordInitial \/ UpdateWeather
           \/ RecordFrame \/ Broadcast \/ Commit
  BY <1>2, <1>4 DEF RecordStop, BroadcastStop, StopRaises, RecordInitial, UpdateWeather,
                    RecordFrame, Broadcast, Commit
<1>5. CASE \/ Return \/ RecordLate \/ RecordLateRaises \/ Finalize \/ FinalizeRaises
           \/ FinalizeAgain
  BY <1>2, <1>5 DEF Return, RecordLate, RecordLateRaises, Finalize, FinalizeRaises,
                    FinalizeAgain, AfterClosing
<1>6. ASSUME NEW duration \in [Cranes -> Durations], NEW failed \in BOOLEAN,
             Decide(duration, failed)
      PROVE  CommandInv'
  <2>1. /\ pc' = "expire" /\ Now' = Now
        /\ commands' = [c \in Cranes |-> IF c \in Due THEN Decided(c, duration[c])
                                         ELSE commands[c]]
        /\ lastDecision' = [c \in Cranes |-> IF c \in Due THEN Now ELSE lastDecision[c]]
    BY <1>1, <1>6 DEF Decide
  <2>2. ASSUME NEW c \in Cranes
        PROVE  /\ lastDecision'[c] <= Now /\ lastDecision'[c] <= commands'[c].issued
               /\ commands'[c].source = "decision" => commands'[c].issued = lastDecision'[c]
               /\ lastDecision'[c] # Never /\ Now - lastDecision'[c] < Interval
    <3>1. CASE c \in Due
      <4>1. commands'[c].issued = Now /\ lastDecision'[c] = Now
        BY <2>1, <3>1 DEF Decided
      <4> QED
        BY <1>1, <4>1 DEF Never
    <3>2. CASE c \notin Due
      <4>1. commands'[c] = commands[c] /\ lastDecision'[c] = lastDecision[c]
        BY <2>1, <3>2
      <4>2. lastDecision[c] # Never /\ ~(Now - lastDecision[c] >= Interval)
        BY <3>2 DEF Due
      <4>3. lastDecision[c] \in Nat /\ Now - lastDecision[c] < Interval
        BY <1>1, <4>2
      <4> QED
        BY <4>1, <4>2, <4>3 DEF CommandInv
    <3> QED
      BY <3>1, <3>2
  <2> QED
    BY <2>1, <2>2 DEF CommandInv
<1>7. CASE Expire
  <2>1. /\ pc = "expire" /\ pc' = "physics" /\ Now' = Now /\ UNCHANGED lastDecision
        /\ commands' = [c \in Cranes |-> IF Expired(c) THEN NeutralStop(Now) ELSE commands[c]]
    BY <1>1, <1>7 DEF Expire
  <2>2. ASSUME NEW c \in Cranes
        PROVE  /\ lastDecision[c] <= commands'[c].issued
               /\ commands'[c].source = "decision" => commands'[c].issued = lastDecision[c]
               /\ Now < commands'[c].expires
    <3>1. CASE Expired(c)
      <4>1. /\ commands'[c].issued = Now /\ commands'[c].source = "neutral"
            /\ commands'[c].expires = Now + NeutralDuration
        BY <2>1, <3>1 DEF NeutralStop
      <4> QED
        BY <1>1, <4>1 DEF CommandInv
    <3>2. CASE ~Expired(c)
      <4>1. commands'[c] = commands[c] /\ ~(Now >= commands[c].expires)
        BY <2>1, <3>2 DEF Expired
      <4> QED
        BY <1>1, <4>1 DEF CommandInv
    <3> QED
      BY <3>1, <3>2
  <2> QED
    BY <2>1, <2>2 DEF CommandInv
<1>8. ASSUME NEW done \in BOOLEAN, StepPhysics(done)
      PROVE  CommandInv'
  BY <1>2, <1>8 DEF StepPhysics
<1>9. ASSUME NEW causes \in SUBSET {Causes[i] : i \in DOMAIN Causes}, Settle(causes)
      PROVE  CommandInv'
  BY <1>2, <1>9 DEF Settle
<1>10. ASSUME NEW mismatch \in BOOLEAN, Raise(mismatch)
       PROVE  CommandInv'
  BY <1>2, <1>10 DEF Raise
<1> QED
  BY <1>3, <1>4, <1>5, <1>6, <1>7, <1>8, <1>9, <1>10 DEF Next, Drive, Work

(* The status is settled for the frame's end, and committing the frame makes the  *)
(* end the present.                                                             *)
LEMMA VerdictStep == TypeOK /\ PhaseInv /\ VerdictInv /\ [Next]_vars => VerdictInv'
<1> SUFFICES ASSUME TypeOK, PhaseInv, VerdictInv, [Next]_vars PROVE VerdictInv'
  OBVIOUS
<1> USE DEF clockVars, taskVars, recordVars, runnerVars
<1>1. ASSUME UNCHANGED <<frame, status, doneSince, tasksDone>>,
             pc' \in Settled <=> pc \in Settled
      PROVE  VerdictInv'
  BY <1>1, Times DEF VerdictInv, Settling, CooldownOver
<1>2. CASE \/ Stop \/ BeginFrame \/ OverFrame \/ LeaveLoop \/ UNCHANGED vars
  BY <1>1, <1>2 DEF Stop, BeginFrame, OverFrame, LeaveLoop, Called, Settled, vars
<1>3. CASE \/ RecordStop \/ BroadcastStop \/ StopRaises \/ RecordInitial \/ UpdateWeather
           \/ RecordFrame \/ Broadcast \/ Expire
  BY <1>1, <1>3 DEF RecordStop, BroadcastStop, StopRaises, RecordInitial, UpdateWeather,
                    RecordFrame, Broadcast, Expire, Settled
<1>4. CASE \/ Return \/ RecordLate \/ RecordLateRaises \/ Finalize \/ FinalizeRaises
           \/ FinalizeAgain
  BY <1>1, <1>4 DEF Return, RecordLate, RecordLateRaises, Finalize, FinalizeRaises,
                    FinalizeAgain, AfterClosing, Closing, Settled
<1>5. CASE StopFrame
  BY <1>5 DEF StopFrame, VerdictInv
<1>6. ASSUME NEW duration \in [Cranes -> Durations], NEW failed \in BOOLEAN,
             Decide(duration, failed)
      PROVE  VerdictInv'
  BY <1>1, <1>6 DEF Decide, Settled
<1>7. ASSUME NEW done \in BOOLEAN, StepPhysics(done)
      PROVE  VerdictInv'
  <2>1. /\ pc = "physics" /\ pc' = "settle" /\ status' = "running" /\ status = "running"
        /\ UNCHANGED doneSince /\ Now' = Now
    BY <1>7, Times DEF StepPhysics, PhaseInv, Unsettled
  <2> QED
    BY <2>1 DEF VerdictInv, Settling, Settled, CooldownOver
<1>8. ASSUME NEW causes \in SUBSET {Causes[i] : i \in DOMAIN Causes}, Settle(causes)
      PROVE  VerdictInv'
  <2>1. pc' = "record" /\ NextTime' = NextTime /\ tasksDone' = tasksDone
    BY <1>8, Times DEF Settle
  <2>2. Settling' = NextTime /\ (CooldownOver' <=> CooldownMet(doneSince'))
    BY <2>1 DEF Settling, Settled, CooldownOver, CooldownMet
  <2> QED
    BY <1>8, <2>1, <2>2, Verdicts DEF VerdictInv
<1>9. CASE Commit
  <2>1. Settling = NextTime /\ Settling' = NextTime /\ UNCHANGED <<status, doneSince, tasksDone>>
    BY <1>9, Times DEF Commit, Settling, Settled
  <2> QED
    BY <2>1 DEF VerdictInv, CooldownOver
<1>10. ASSUME NEW mismatch \in BOOLEAN, Raise(mismatch)
       PROVE  VerdictInv'
  BY <1>10 DEF Raise, VerdictInv
<1> QED
  BY <1>2, <1>3, <1>4, <1>5, <1>6, <1>7, <1>8, <1>9, <1>10 DEF Next, Drive, Work

(* finalize sets its flag first and is reached only by what is over.             *)
LEMMA ClosedStep == TypeOK /\ PhaseInv /\ ClosedInv /\ [Next]_vars => ClosedInv'
<1> SUFFICES ASSUME TypeOK, PhaseInv, ClosedInv, [Next]_vars PROVE ClosedInv'
  OBVIOUS
<1> USE DEF clockVars, taskVars, recordVars, runnerVars
<1>1. /\ driver' = driver
      /\ NothingRecorded' => NothingRecorded
  <2>1. driver' = driver
    BY DEF Next, Drive, Work, Stop, BeginFrame, StopFrame, OverFrame, LeaveLoop, RecordStop,
           BroadcastStop, StopRaises, RecordInitial, UpdateWeather, Decide, Expire,
           StepPhysics, Settle, RecordFrame, Broadcast, Commit, Raise, Return, RecordLate,
           RecordLateRaises, Finalize, FinalizeRaises, FinalizeAgain, vars
  <2>2. rows' = rows \/ \E i \in Nat : rows' = Append(rows, Row(i))
    <3>1. 0 \in Nat /\ frame \in Nat /\ frame + 1 \in Nat
      BY DEF TypeOK
    <3> QED
      BY <3>1 DEF Next, Drive, Work, Stop, BeginFrame, StopFrame, OverFrame, LeaveLoop,
           RecordStop, BroadcastStop, StopRaises, RecordInitial, UpdateWeather, Decide, Expire,
           StepPhysics, Settle, RecordFrame, Broadcast, Commit, Raise, Return, RecordLate,
           RecordLateRaises, Finalize, FinalizeRaises, FinalizeAgain, vars
  <2>3. rows' = <<>> => rows = <<>>
    <3>1. \A i \in Nat : rows' = Append(rows, Row(i)) => rows' # <<>>
      BY RowAppended
    <3> QED
      BY <2>2, <3>1
  <2>4. started => started'
    BY DEF Next, Drive, Work, Stop, BeginFrame, StopFrame, OverFrame, LeaveLoop, RecordStop,
           BroadcastStop, StopRaises, RecordInitial, UpdateWeather, Decide, Expire,
           StepPhysics, Settle, RecordFrame, Broadcast, Commit, Raise, Return, RecordLate,
           RecordLateRaises, NothingRecorded, Finalize, FinalizeRaises, FinalizeAgain, vars
  <2> QED
    BY <2>1, <2>3, <2>4 DEF NothingRecorded
<1>2. ASSUME UNCHANGED <<finalized, manifest>>,
             status' = "running" \/ pc' \in FrameCalls \cup Stopping =>
                 status = "running" \/ pc \in FrameCalls \cup Stopping
      PROVE  ClosedInv'
  BY <1>1, <1>2 DEF ClosedInv
<1>3. CASE \/ Stop \/ BeginFrame \/ StopFrame \/ OverFrame \/ LeaveLoop \/ UNCHANGED vars
  BY <1>2, <1>3 DEF Stop, BeginFrame, StopFrame, OverFrame, LeaveLoop, FrameCalls, Stopping,
                    vars
<1>4. CASE \/ RecordStop \/ BroadcastStop \/ StopRaises \/ RecordInitial \/ UpdateWeather
           \/ RecordFrame \/ Broadcast \/ Commit \/ Expire
  BY <1>2, <1>4 DEF RecordStop, BroadcastStop, StopRaises, RecordInitial, UpdateWeather,
                    RecordFrame, Broadcast, Commit, Expire, FrameCalls, Stopping
<1>5. ASSUME NEW duration \in [Cranes -> Durations], NEW failed \in BOOLEAN,
             Decide(duration, failed)
      PROVE  ClosedInv'
  BY <1>2, <1>5 DEF Decide, FrameCalls
<1>6. ASSUME NEW done \in BOOLEAN, StepPhysics(done)
      PROVE  ClosedInv'
  BY <1>2, <1>6 DEF StepPhysics, FrameCalls
<1>7. ASSUME NEW causes \in SUBSET {Causes[i] : i \in DOMAIN Causes}, Settle(causes)
      PROVE  ClosedInv'
  BY <1>2, <1>7 DEF Settle, FrameCalls
<1>8. ASSUME NEW mismatch \in BOOLEAN, Raise(mismatch)
      PROVE  ClosedInv'
  BY <1>2, <1>8 DEF Raise, FrameCalls
<1>9. CASE Return \/ RecordLate \/ RecordLateRaises \/ FinalizeAgain
  BY <1>2, <1>9 DEF Return, RecordLate, RecordLateRaises, FinalizeAgain, AfterClosing,
                    FrameCalls, Stopping
<1>10. CASE Finalize \/ FinalizeRaises
  <2>1. /\ status # "running" /\ status' = status /\ finalized' = TRUE
        /\ pc' \notin FrameCalls \cup Stopping
        /\ driver = "api" => ~NothingRecorded
    BY <1>10 DEF Finalize, FinalizeRaises, Closing, AfterClosing, PhaseInv, FrameCalls, Stopping
  <2> QED
    BY <1>1, <2>1 DEF ClosedInv
<1> QED
  BY <1>3, <1>4, <1>5, <1>6, <1>7, <1>8, <1>9, <1>10 DEF Next, Drive, Work

--------------------------------------------------------------------------------
(* The theorems                                                               *)

LEMMA InitHolds == Init => IInv
<1> SUFFICES ASSUME Init PROVE IInv
  OBVIOUS
<1> USE PeriodAssumption DEF Init
<1>1. rows \in Seq(StatusRow) /\ Len(rows) = 0 /\ DOMAIN rows = {}
  OBVIOUS
<1>2. TypeOK
  <2>1. commands \in [Cranes -> [source : {"neutral", "decision"}, issued : Nat,
                                 expires : Nat]]
    BY DEF NeutralStop
  <2>2. lastDecision \in [Cranes -> Nat \cup {Never}]
    BY DEF Never
  <2> QED
    BY <1>1, <2>1, <2>2 DEF TypeOK, Calls, FrameCalls, Statuses, Never
<1>3. Now = 0
  BY <1>2, Times
<1>4. PhaseInv
  BY DEF PhaseInv, Unsettled, Settled, Stopping
<1>5. LogInv
  BY <1>1 DEF LogInv, Live, LengthInv, Unsettled
<1>6. CommandInv
  BY <1>3 DEF CommandInv, Never, NeutralStop
<1>7. VerdictInv
  BY <1>3 DEF VerdictInv, Settling, Settled, CooldownOver, Never
<1>8. ClosedInv
  BY DEF ClosedInv, FrameCalls, Stopping
<1> QED
  BY <1>2, <1>4, <1>5, <1>6, <1>7, <1>8 DEF IInv

(* The inductive invariant of the frame loop.                                 *)
THEOREM FrameInvariant == Spec => []IInv
<1>1. IInv /\ [Next]_vars => IInv'
  BY TypeStep, PhaseStep, LogStep, CommandStep, VerdictStep, ClosedStep DEF IInv
<1> QED
  BY <1>1, InitHolds, PTL DEF Spec

(* frames.jsonl is complete and in order, whatever raised or stopped the loop    *)
(* (RecordFrame, Commit, StopFrame, Raise), for every period and duration.      *)
THEOREM LogIsInOrder == Spec => []LogInOrder
<1>1. IInv => LogInOrder
  BY DEF IInv, LogInv, LengthInv, LogInOrder
<1> QED
  BY <1>1, FrameInvariant, PTL

(* The controller is never given a stale command (DecisionClock, CommandStore),  *)
(* for every interval and every duration a command may have.                    *)
THEOREM CommandsAreCurrent == Spec => []CommandsCurrent
<1>1. IInv => CommandsCurrent
  <2> SUFFICES ASSUME IInv, pc = "physics", NEW c \in Cranes
               PROVE  /\ Now - lastDecision[c] < Interval
                      /\ Now < commands[c].expires
                      /\ commands[c].issued >= lastDecision[c]
                      /\ commands[c].source = "decision" =>
                             commands[c].issued = lastDecision[c]
    BY DEF CommandsCurrent
  <2> QED
    BY DEF IInv, CommandInv
<1> QED
  BY <1>1, FrameInvariant, PTL

(* A completed episode has earned it (update_terminal_status and                *)
(* _promote_completed_if_cooldown_met), for every minimum and cooldown.         *)
THEOREM CompletionIsEarned == Spec => []CompletionEarned
<1>1. IInv => CompletionEarned
  BY DEF IInv, VerdictInv, Settling, Settled, CooldownOver, CompletionEarned
<1> QED
  BY <1>1, FrameInvariant, PTL

(* should_stop never leaves a running episode to finalize.                     *)
THEOREM LoopIsDecided == Spec => []LoopLeavesDecided
<1>1. IInv => LoopLeavesDecided
  BY DEF IInv, PhaseInv, LoopLeavesDecided
<1> QED
  BY <1>1, FrameInvariant, PTL

--------------------------------------------------------------------------------
(* The frame loop implements EpisodeLog                                       *)

Visible == {"idle", "wrap", "finish", "ended"}

LEMMA ContractInit == Init => Contract!Init
<1> SUFFICES ASSUME Init PROVE Contract!Init
  OBVIOUS
<1>1. Len(rows) = 0
  BY DEF Init
<1> QED
  BY <1>1 DEF Init, Contract!Init, Told

(* Inside a frame its driver still knows a running episode; the end is told by    *)
(* the step that leaves the frame, with or without a last row.                   *)
LEMMA ContractStep ==
  ASSUME IInv, IInv', [Next]_vars
  PROVE  [Contract!Next]_Contract!vars
<1> USE DEF clockVars, taskVars, recordVars, runnerVars
<1>1. Len(rows) \in Nat /\ Told = (IF pc \in Visible THEN status ELSE "running")
      /\ Told' = (IF pc' \in Visible THEN status' ELSE "running")
      /\ status \in Statuses /\ status' \in Statuses
  BY LenProperties DEF Told, Visible, IInv, TypeOK
<1>2. ASSUME UNCHANGED <<rows, manifest>>, Told' = Told
      PROVE  UNCHANGED Contract!vars
  BY <1>2 DEF Contract!vars
<1>3. ASSUME NEW i \in Nat, rows' = Append(rows, Row(i))
      PROVE  Len(rows') = Len(rows) + 1
  BY <1>3, RowAppended DEF IInv
(* The calls in which nothing is logged and no end is told. *)
<1>4. CASE \/ Stop \/ BeginFrame \/ OverFrame \/ LeaveLoop \/ UNCHANGED vars
  <2>1. UNCHANGED <<rows, manifest>> /\ Told' = Told
    BY <1>1, <1>4 DEF Stop, BeginFrame, OverFrame, LeaveLoop, Called, Visible, vars
  <2> QED
    BY <1>2, <2>1
<1>5. CASE UpdateWeather \/ Expire \/ Broadcast \/ BroadcastStop \/ Return
           \/ RecordLateRaises \/ FinalizeAgain \/ FinalizeRaises
  <2>1. UNCHANGED <<rows, manifest, status>>
    BY <1>5 DEF UpdateWeather, Expire, Broadcast, BroadcastStop, Return, RecordLateRaises,
                FinalizeAgain, FinalizeRaises
  <2>2. (pc \in Visible <=> pc' \in Visible) \/ (pc = "stop_broadcast" /\ pc' = "wrap")
    BY <1>5 DEF UpdateWeather, Expire, Broadcast, BroadcastStop, Return, RecordLateRaises,
                FinalizeAgain, FinalizeRaises, Closing, AfterClosing, Visible
  <2>3. CASE pc \in Visible <=> pc' \in Visible
    <3>1. Told' = Told
      BY <1>1, <2>1, <2>3
    <3> QED
      BY <1>2, <2>1, <3>1
  <2>4. CASE pc = "stop_broadcast" /\ pc' = "wrap"
    <3>1. Told = "running" /\ Told' = "stopped_by_user"
      BY <1>1, <2>1, <2>4 DEF Visible, IInv, PhaseInv, Stopping
    <3>2. Contract!End("stopped_by_user")
      BY <2>1, <3>1 DEF Contract!End
    <3> QED
      BY <3>2 DEF Contract!Next, Statuses
  <2> QED
    BY <2>2, <2>3, <2>4
<1>6. ASSUME NEW duration \in [Cranes -> Durations], NEW failed \in BOOLEAN,
             Decide(duration, failed)
      PROVE  UNCHANGED Contract!vars
  BY <1>1, <1>2, <1>6 DEF Decide, Visible
<1>7. ASSUME NEW done \in BOOLEAN, StepPhysics(done)
      PROVE  UNCHANGED Contract!vars
  BY <1>1, <1>2, <1>7 DEF StepPhysics, Visible
<1>8. ASSUME NEW causes \in SUBSET {Causes[i] : i \in DOMAIN Causes}, Settle(causes)
      PROVE  UNCHANGED Contract!vars
  BY <1>1, <1>2, <1>8 DEF Settle, Visible
(* A row of an episode that is not known to be over. *)
<1>9. CASE RecordStop \/ RecordInitial \/ RecordFrame
  <2>1. UNCHANGED manifest /\ Told = "running" /\ Told' = "running"
    BY <1>1, <1>9 DEF RecordStop, RecordInitial, RecordFrame, Visible
  <2>2. Len(rows') = Len(rows) + 1
    BY <1>3, <1>9 DEF RecordStop, RecordInitial, RecordFrame, IInv, TypeOK
  <2> QED
    BY <2>1, <2>2 DEF Contract!Next, Contract!Log
(* The single frame an empty log is given. *)
<1>10. CASE RecordLate
  <2>1. UNCHANGED <<manifest, status, pc>> /\ rows = <<>>
    BY <1>10 DEF RecordLate, NothingRecorded
  <2>2. Len(rows) = 0 /\ Len(rows') = Len(rows) + 1
    BY <1>3, <1>10, <2>1 DEF RecordLate
  <2> QED
    BY <1>1, <2>1, <2>2 DEF Contract!Next, Contract!Log
(* The steps that tell the end. *)
<1>11. ASSUME Told = "running", Told' # "running", UNCHANGED manifest,
              Len(rows') \in {Len(rows), Len(rows) + 1}
       PROVE  Contract!Next
  <2>1. Told' \in Statuses \ {"running"}
    BY <1>1, <1>11
  <2>2. Contract!End(Told')
    BY <1>11 DEF Contract!End
  <2> QED
    BY <2>1, <2>2 DEF Contract!Next
<1>12. CASE StopFrame
  <2>1. /\ UNCHANGED <<rows, manifest>> /\ Told = "running" /\ status' = "stopped_by_user"
        /\ Told' = "running" \/ Told' # "running"
    BY <1>1, <1>12 DEF StopFrame, Called
  <2> QED
    BY <1>2, <1>11, <2>1
<1>13. CASE StopRaises
  <2>1. UNCHANGED <<rows, manifest>> /\ Told = "running" /\ Told' = "stopped_by_user"
    BY <1>1, <1>13 DEF StopRaises, Visible, IInv, PhaseInv, Stopping
  <2> QED
    BY <1>11, <2>1
<1>14. CASE Commit
  <2>1. UNCHANGED <<rows, manifest>> /\ Told = "running"
    BY <1>1, <1>14 DEF Commit, Visible
  <2> QED
    BY <1>2, <1>11, <2>1
<1>15. ASSUME NEW mismatch \in BOOLEAN, Raise(mismatch)
       PROVE  Contract!Next
  <2>1. UNCHANGED manifest /\ Told = "running" /\ Told' # "running"
    BY <1>1, <1>15 DEF Raise, FrameCalls, Visible
  <2>2. Len(rows') \in {Len(rows), Len(rows) + 1}
    BY <1>3, <1>15 DEF Raise
  <2> QED
    BY <1>11, <2>1, <2>2
(* The manifest states the end that was told. *)
<1>16. CASE Finalize
  <2>1. /\ UNCHANGED <<rows, status>> /\ manifest' = status /\ manifest = "none"
        /\ status # "running" /\ pc \in Visible /\ pc' \in Visible
    BY <1>16 DEF Finalize, Closing, AfterClosing, Visible, IInv, PhaseInv, ClosedInv
  <2> QED
    BY <1>1, <2>1 DEF Contract!Next, Contract!Certify
<1> QED
  BY <1>4, <1>5, <1>6, <1>7, <1>8, <1>9, <1>10, <1>12, <1>13, <1>14, <1>15, <1>16
  DEF Next, Drive, Work

(* Whoever drives the loop, and whatever raises in it, is told one outcome that   *)
(* never changes; nothing but an empty log's one frame is logged after it, and     *)
(* the manifest states it.                                                     *)
THEOREM LoopImplementsContract == Spec => ImplementsContract
<1>1. IInv /\ IInv' /\ [Next]_vars => [Contract!Next]_Contract!vars
  BY ContractStep
<1> QED
  BY <1>1, ContractInit, FrameInvariant, PTL DEF Spec, ImplementsContract, Contract!Spec

--------------------------------------------------------------------------------
(* The frame loop implements RunnerCalls                                      *)

(* A frame whose end is before the duration is not the last one.                *)
LEMMA FrameBound ==
  ASSUME NEW d \in Nat \ {0}, NEW n \in Nat, NEW k \in Nat, (k + 1) * d < n
  PROVE  k + 1 < (n + d - 1) \div d
<1> DEFINE q == (n + d - 1) \div d
           r == (n + d - 1) % d
<1>1. n + d - 1 \in Nat /\ q \in Nat /\ r \in 0..(d - 1) /\ n + d - 1 = q * d + r
  OBVIOUS
<1> HIDE DEF q, r
<1>2. (k + 2) * d = (k + 1) * d + d
  OBVIOUS
<1>3. (k + 2) * d < (q + 1) * d
  <2>1. (q + 1) * d = q * d + d
    BY <1>1
  <2> QED
    BY <1>1, <1>2, <2>1
<1>4. ~(k + 2 >= q + 1)
  <2>1. ASSUME k + 2 >= q + 1 PROVE FALSE
    <3>1. k + 2 = (q + 1) + (k + 1 - q) /\ k + 1 - q \in Nat
      BY <1>1, <2>1
    <3>2. (k + 2) * d = (q + 1) * d + (k + 1 - q) * d /\ (k + 1 - q) * d \in Nat
      BY <1>1, <3>1
    <3> QED
      BY <1>1, <1>3, <3>2
  <2> QED
    BY <2>1
<1> QED
  BY <1>1, <1>4 DEF q

(* RunnerCalls as the API sees it, with nothing left of the batch's calls.       *)
LEMMA ApiCallsInit == Init => ApiCalls!RunnerInit
  BY DEF Init, ApiCalls!RunnerInit, Api, AtCall, FrameCalls

LEMMA BatchStep ==
  ASSUME ~Api, driver' = driver
  PROVE  UNCHANGED ApiCalls!runnerVars
  BY DEF ApiCalls!runnerVars, Api

LEMMA DriverStays == [Next]_vars => driver' = driver
  BY DEF Next, Drive, Work, Stop, BeginFrame, StopFrame, OverFrame, LeaveLoop, RecordStop,
         BroadcastStop, StopRaises, RecordInitial, UpdateWeather, Decide, Expire,
         StepPhysics, Settle, RecordFrame, Broadcast, Commit, Raise, Return, RecordLate,
         RecordLateRaises, Finalize, FinalizeRaises, FinalizeAgain, vars

LEMMA ApiStep ==
  ASSUME IInv, IInv', [Next]_vars, Api
  PROVE  [ApiCalls!RunnerNext]_ApiCalls!runnerVars
<1> USE DEF clockVars, taskVars, recordVars, runnerVars
<1> DEFINE At(p) == IF p \in FrameCalls THEN "called"
                    ELSE IF p \in Stopping \cup {"wrap"} THEN "returning" ELSE "idle"
           Verdict(p, s) == IF p \notin FrameCalls THEN s ELSE "running"
<1>0. AtCall = At(pc) /\ AtCall' = At(pc')
  BY DEF AtCall, FrameCalls, Stopping
<1>1. /\ driver = "api" /\ driver' = "api" /\ Api' = TRUE
      /\ AtCall = At(pc) /\ AtCall' = At(pc')
      /\ status \in Statuses /\ status' \in Statuses /\ frame \in Nat
      /\ stopRequested \in BOOLEAN /\ stopRequested' \in BOOLEAN
      /\ finalized \in BOOLEAN /\ finalized' \in BOOLEAN
  BY <1>0, DriverStays DEF Api, IInv, TypeOK
<1> HIDE DEF At, Verdict
(* Inside a call: nothing the API sees changes. *)
<1>2. ASSUME UNCHANGED <<stopRequested, frame, finalized>>,
             At(pc') = At(pc), Verdict(pc', status') = Verdict(pc, status)
      PROVE  UNCHANGED ApiCalls!runnerVars
  BY <1>1, <1>2 DEF ApiCalls!runnerVars, Verdict
<1>3. CASE UNCHANGED vars
  BY <1>2, <1>3 DEF vars
<1>4. CASE Stop
  BY <1>1, <1>4 DEF Stop, ApiCalls!RunnerNext, ApiCalls!AskStop, At
<1>5. CASE BeginFrame
  <2>1. /\ At(pc) = "idle" /\ At(pc') = "called" /\ status = "running" /\ ~stopRequested
        /\ pc \notin FrameCalls /\ pc' \in FrameCalls
        /\ UNCHANGED <<stopRequested, frame, finalized>>
    BY <1>5 DEF BeginFrame, Called, At, FrameCalls, Stopping
  <2> QED
    BY <1>1, <2>1 DEF ApiCalls!RunnerNext, ApiCalls!Call, ApiCalls!CallFrame
<1>6. CASE StopFrame
  <2>1. /\ At(pc) = "idle" /\ At(pc') = "returning" /\ status = "running" /\ stopRequested
        /\ status' = "stopped_by_user" /\ pc \notin FrameCalls /\ pc' \notin FrameCalls
        /\ UNCHANGED <<stopRequested, frame, finalized>>
    BY <1>6 DEF StopFrame, Called, At, FrameCalls, Stopping
  <2> QED
    BY <1>1, <2>1 DEF ApiCalls!RunnerNext, ApiCalls!Call, ApiCalls!CallStop
<1>7. CASE OverFrame
  <2>1. /\ At(pc) = "idle" /\ At(pc') = "returning" /\ status # "running"
        /\ pc \notin FrameCalls /\ pc' \notin FrameCalls
        /\ UNCHANGED <<status, stopRequested, frame, finalized>>
    BY <1>7 DEF OverFrame, Called, At, FrameCalls, Stopping
  <2> QED
    BY <1>1, <2>1 DEF ApiCalls!RunnerNext, ApiCalls!Call, ApiCalls!CallOver
<1>8. CASE LeaveLoop
  BY <1>1, <1>8 DEF LeaveLoop
<1>9. CASE RecordStop \/ BroadcastStop \/ RecordLate
  <2>1. /\ pc \notin FrameCalls /\ pc' \notin FrameCalls /\ At(pc) = "returning"
        /\ At(pc') = "returning" /\ UNCHANGED <<status, stopRequested, frame, finalized>>
    BY <1>9 DEF RecordStop, BroadcastStop, RecordLate, At, FrameCalls, Stopping
  <2> QED
    BY <1>2, <2>1 DEF Verdict
<1>10. CASE RecordInitial \/ UpdateWeather \/ Expire \/ RecordFrame \/ Broadcast
  <2>1. /\ pc \in FrameCalls /\ pc' \in FrameCalls
        /\ UNCHANGED <<stopRequested, frame, finalized>>
    BY <1>10 DEF RecordInitial, UpdateWeather, Expire, RecordFrame, Broadcast, FrameCalls
  <2> QED
    BY <1>2, <2>1 DEF At, Verdict
<1>11. ASSUME NEW duration \in [Cranes -> Durations], NEW failed \in BOOLEAN,
              Decide(duration, failed)
       PROVE  UNCHANGED ApiCalls!runnerVars
  BY <1>2, <1>11 DEF Decide, FrameCalls, At, Verdict
<1>12. ASSUME NEW done \in BOOLEAN, StepPhysics(done)
       PROVE  UNCHANGED ApiCalls!runnerVars
  BY <1>2, <1>12 DEF StepPhysics, FrameCalls, At, Verdict
<1>13. ASSUME NEW causes \in SUBSET {Causes[i] : i \in DOMAIN Causes}, Settle(causes)
       PROVE  UNCHANGED ApiCalls!runnerVars
  BY <1>2, <1>13 DEF Settle, FrameCalls, At, Verdict
(* The frame is over: committed, or ended by an exception. *)
<1>14. CASE Commit
  <2>1. /\ At(pc) = "called" /\ At(pc') = "returning" /\ frame' = frame + 1
        /\ pc \in FrameCalls /\ pc' \notin FrameCalls /\ pc' = "wrap"
        /\ UNCHANGED <<status, stopRequested, finalized>> /\ status # "stopped_by_user"
    BY <1>14 DEF Commit, At, FrameCalls, Stopping, IInv, PhaseInv, Settled
  <2>2. CASE status = "running"
    <3>1. Now' < Duration
      BY <2>1, <2>2 DEF IInv, VerdictInv, Settling, Settled
    <3>2. (frame + 1) * Dt < Duration
      BY <2>1, <3>1 DEF Now
    <3>3. frame + 1 < (Duration + Dt - 1) \div Dt
      BY <1>1, <3>2, FrameBound, PeriodAssumption
    <3> QED
      BY <1>1, <2>1, <2>2, <3>3 DEF ApiCalls!RunnerNext, ApiCalls!RunFrame
  <2>3. CASE status # "running"
    BY <1>1, <2>1, <2>3 DEF ApiCalls!RunnerNext, ApiCalls!RunFrame
  <2> QED
    BY <2>2, <2>3
<1>15. ASSUME NEW mismatch \in BOOLEAN, Raise(mismatch)
       PROVE  ApiCalls!RunnerNext
  <2>1. /\ At(pc) = "called" /\ At(pc') = "returning" /\ frame' = frame
        /\ pc \in FrameCalls /\ pc' \notin FrameCalls
        /\ UNCHANGED <<stopRequested, finalized>>
        /\ status' \in {"failed_replay_mismatch", "failed_invalid_state"}
    BY <1>15 DEF Raise, At, FrameCalls, Stopping
  <2> QED
    BY <1>1, <2>1 DEF ApiCalls!RunnerNext, ApiCalls!RunFrame
(* The call returns, or its end raises. *)
<1>16. ASSUME At(pc) = "returning", At(pc') = "idle",
              pc \notin FrameCalls, pc' \notin FrameCalls,
              UNCHANGED <<status, stopRequested, frame>>,
              \/ finalized' = (finalized \/ status # "running")
              \/ status # "running" /\ ~finalized
       PROVE  ApiCalls!RunnerNext
  BY <1>1, <1>16 DEF ApiCalls!RunnerNext, ApiCalls!Return, ApiCalls!Raise
<1>17. CASE StopRaises
  <2>1. status = "stopped_by_user" /\ ~finalized
    BY <1>17 DEF StopRaises, IInv, PhaseInv, ClosedInv, Stopping
  <2> QED
    BY <1>1, <1>16, <1>17, <2>1 DEF StopRaises, At, FrameCalls, Stopping
<1>18. CASE Return
  BY <1>1, <1>16, <1>18 DEF Return, At, FrameCalls, Stopping
<1>19. CASE RecordLateRaises
  <2>1. status # "running" /\ ~finalized
    BY <1>1, <1>19 DEF RecordLateRaises, Closing, IInv, ClosedInv
  <2> QED
    BY <1>16, <1>19, <2>1 DEF RecordLateRaises, At, FrameCalls, Stopping
<1>20. CASE Finalize \/ FinalizeRaises \/ FinalizeAgain
  <2>1. /\ pc = "wrap" /\ pc' = "idle" /\ status # "running" /\ finalized' = TRUE
        /\ UNCHANGED <<status, stopRequested, frame>>
    BY <1>1, <1>20 DEF Finalize, FinalizeRaises, FinalizeAgain, Closing, AfterClosing, IInv,
                       PhaseInv
  <2> QED
    BY <1>16, <2>1 DEF At, FrameCalls, Stopping
<1> QED
  BY <1>3, <1>4, <1>5, <1>6, <1>7, <1>8, <1>9, <1>10, <1>11, <1>12, <1>13, <1>14, <1>15,
     <1>17, <1>18, <1>19, <1>20
  DEF Next, Drive, Work

(* Driven by the API, the loop is the runner the episode service is modelled      *)
(* with, for every duration and frame length: it commits no frame at or past its   *)
(* duration and still runs, and its log is closed once.                          *)
THEOREM LoopImplementsCalls == Spec => ImplementsCalls
<1>1. IInv /\ IInv' /\ [Next]_vars => [ApiCalls!RunnerNext]_ApiCalls!runnerVars
  BY ApiStep, BatchStep, DriverStays
<1> QED
  BY <1>1, ApiCallsInit, FrameInvariant, PTL DEF Spec, ImplementsCalls, ApiCalls!RunnerSpec
================================================================================
