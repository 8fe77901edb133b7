-------------------------- MODULE OperatorDecisionProofs ------------------------
(* Proofs about the operators of a frame, for any cranes, pool, retries and bounds:    *)
(* the call records tell the story of each decision, and every batch is one round of   *)
(* DecisionRounds.  The refinement rests on the session's counter being the length of   *)
(* the run of neutral stops at the end of what was delivered, the one being decided      *)
(* included, in whatever order the threads of the pool finish.                         *)
EXTENDS OperatorDecision, TLAPS

Errors == {"none", "clean", "marked"}
Results == {"own", "fallback"}
Jobs == [pc : {"out", "queued", "asking", "done", "raised"}, attempt : Nat,
         result : Results \cup {"none"}]
Record == [told : Errors, error : Errors]
Sessions == [failures : Nat, decided : Nat, history : Nat]

Typed ==
    /\ provider \in {"mock", "replay", "chat"}
    /\ phase \in {"idle", "deciding", "llm_failed", "raised"}
    /\ due \in SUBSET Crane
    /\ job \in [Crane -> Jobs] /\ retryErrors \in [Crane -> Errors]
    /\ records \in [Crane -> Seq(Record)] /\ session \in [Crane -> Sessions]
    /\ given \in [Crane -> Seq(Results)]

(* The batch and its jobs. *)
BatchInv ==
    /\ phase = "idle" => due = {}
    /\ phase = "deciding" => due # {}
    /\ phase \in {"idle", "deciding"} => \A c \in Crane : job[c].pc = "out" <=> c \notin due

Chained(r) ==
    /\ \A i \in 1..Len(r) : r[i].told = IF i = 1 THEN "none" ELSE r[i - 1].error
    /\ \A i \in 1..(Len(r) - 1) : r[i].error # "none"
LastError(r) == IF Len(r) = 0 THEN "none" ELSE r[Len(r)].error

(* The attempt in progress is the one after the last recorded, all of which failed,     *)
(* and it is told that one's errors.                                                 *)
StoryOf(j, told, r) ==
    /\ Chained(r)
    /\ j.pc \in {"out", "queued", "asking"} =>
           /\ j.attempt = Len(r) /\ j.attempt <= MaxRetries
           /\ told = LastError(r)
           /\ Len(r) > 0 => LastError(r) # "none"
    /\ j.pc = "done" =>
           /\ Len(r) > 0 /\ j.result \in Results
           /\ j.result = "own" <=> LastError(r) = "none"
           /\ j.result = "fallback" => Len(r) = 1 + MaxRetries
StoryInv == \A c \in Crane : StoryOf(job[c], retryErrors[c], records[c])

(* The last n of the sequence, and no more, are neutral stops. *)
StopRun(s, n) ==
    /\ n <= Len(s)
    /\ \A i \in (Len(s) - n + 1)..Len(s) : s[i] = "fallback"
    /\ n < Len(s) => s[Len(s) - n] # "fallback"

(* What an operator has decided: all it delivered, and the decision it waits with. *)
Decided(g, j) == IF j.pc = "done" THEN Append(g, j.result) ELSE g
CountOf(g, j, n) == j.pc # "raised" => StopRun(Decided(g, j), n)
CountInv ==
    phase \in {"idle", "deciding"} =>
        \A c \in Crane : CountOf(given[c], job[c], session[c].failures)

IInv == Typed /\ BatchInv /\ StoryInv /\ CountInv
--------------------------------------------------------------------------------
(* Sequences.                                                                      *)
LEMMA AppendElement ==
  ASSUME NEW S, NEW s \in Seq(S), NEW e \in S
  PROVE  /\ Append(s, e) \in Seq(S) /\ Len(s) \in Nat
         /\ Len(Append(s, e)) = Len(s) + 1
         /\ \A i \in 1..Len(s) : Append(s, e)[i] = s[i]
         /\ Append(s, e)[Len(s) + 1] = e
  OBVIOUS

(* An attempt that was told the last error carries the story on.                     *)
LEMMA StoryGoesOn ==
  ASSUME NEW r \in Seq(Record), NEW e \in Errors, Chained(r),
         Len(r) > 0 => LastError(r) # "none"
  PROVE  LET longer == Append(r, [told |-> LastError(r), error |-> e])
         IN  /\ longer \in Seq(Record) /\ Chained(longer)
             /\ Len(longer) = Len(r) + 1 /\ LastError(longer) = e
<1> DEFINE new == [told |-> LastError(r), error |-> e]
           longer == Append(r, new)
<1>1. Len(r) \in Nat /\ \A i \in 1..Len(r) : r[i] \in Record
  OBVIOUS
<1>2. LastError(r) \in Errors
  BY <1>1 DEF LastError, Errors, Record
<1>3. new \in Record
  BY <1>2 DEF Record
<1>4. new.told = LastError(r) /\ new.error = e
  OBVIOUS
<1> HIDE DEF new
<1>5. /\ longer \in Seq(Record) /\ Len(longer) = Len(r) + 1
      /\ \A i \in 1..Len(r) : longer[i] = r[i]
      /\ longer[Len(r) + 1] = new
  BY <1>3, AppendElement
<1> HIDE DEF longer
<1>6. ASSUME NEW i \in 1..Len(longer)
      PROVE  longer[i].told = IF i = 1 THEN "none" ELSE longer[i - 1].error
  <2>1. CASE i \in 1..Len(r)
    BY <1>1, <1>5, <2>1 DEF Chained
  <2>2. CASE i = Len(r) + 1
    <3>1. longer[i].told = LastError(r)
      BY <1>4, <1>5, <2>2
    <3>2. CASE Len(r) = 0
      BY <2>2, <3>1, <3>2 DEF LastError
    <3>3. CASE Len(r) # 0
      <4>1. longer[i - 1] = r[Len(r)] /\ i # 1
        BY <1>1, <1>5, <2>2, <3>3
      <4> QED
        BY <3>1, <3>3, <4>1 DEF LastError
    <3> QED
      BY <3>2, <3>3
  <2> QED
    BY <1>1, <1>5, <2>1, <2>2
<1>7. ASSUME NEW i \in 1..(Len(longer) - 1) PROVE longer[i].error # "none"
  <2>1. i \in 1..Len(r) /\ longer[i] = r[i]
    BY <1>1, <1>5
  <2>2. CASE i = Len(r)
    BY <1>1, <2>1, <2>2 DEF LastError
  <2>3. CASE i # Len(r)
    BY <1>1, <2>1, <2>3 DEF Chained
  <2> QED
    BY <2>2, <2>3
<1>8. Chained(longer)
  BY <1>6, <1>7 DEF Chained
<1>9. LastError(longer) = e
  BY <1>1, <1>4, <1>5 DEF LastError
<1> QED
  BY <1>5, <1>8, <1>9 DEF longer, new

(* A neutral stop makes the run one longer, an own command ends it.                   *)
LEMMA RunGoesOn ==
  ASSUME NEW s \in Seq(Results), NEW n \in Nat, StopRun(s, n)
  PROVE  /\ StopRun(Append(s, "fallback"), n + 1)
         /\ StopRun(Append(s, "own"), 0)
<1>1. "fallback" \in Results /\ "own" \in Results
  BY DEF Results
<1>2. Len(s) \in Nat
  OBVIOUS
<1>3. StopRun(Append(s, "fallback"), n + 1)
  <2> DEFINE longer == Append(s, "fallback")
  <2>1. /\ Len(longer) = Len(s) + 1 /\ longer[Len(s) + 1] = "fallback"
        /\ \A i \in 1..Len(s) : longer[i] = s[i]
    BY <1>1, AppendElement
  <2> HIDE DEF longer
  <2>2. ASSUME NEW i \in (Len(longer) - (n + 1) + 1)..Len(longer) PROVE longer[i] = "fallback"
    BY <1>2, <2>1 DEF StopRun
  <2>3. n + 1 < Len(longer) => longer[Len(longer) - (n + 1)] # "fallback"
    BY <1>2, <2>1 DEF StopRun
  <2> QED
    BY <1>2, <2>1, <2>2, <2>3 DEF StopRun, longer
<1>4. StopRun(Append(s, "own"), 0)
  <2> DEFINE longer == Append(s, "own")
  <2>1. Len(longer) = Len(s) + 1 /\ longer[Len(s) + 1] = "own"
    BY <1>1, AppendElement
  <2> HIDE DEF longer
  <2>2. Len(longer) \in Nat /\ longer[Len(longer)] # "fallback"
    BY <1>2, <2>1
  <2> QED
    BY <2>2 DEF StopRun, longer
<1> QED
  BY <1>3, <1>4

(* The run tells DecisionRounds whether the operator gave up.                          *)
LEMMA RunDecides ==
  ASSUME NEW s \in Seq(Results), NEW n \in Nat, StopRun(s, n)
  PROVE  /\ Rounds!GaveUp(s) <=> n >= MaxFailures
         /\ n >= MaxFailures => Len(s) > 0 /\ s[Len(s)] = "fallback"
<1>1. Len(s) \in Nat /\ MaxFailures \in Nat \ {0}
  BY SizesAssumption
<1>2. n >= MaxFailures => Rounds!GaveUp(s)
  BY <1>1 DEF StopRun, Rounds!GaveUp
<1>3. n < MaxFailures => ~Rounds!GaveUp(s)
  <2> SUFFICES ASSUME n < MaxFailures, Rounds!GaveUp(s) PROVE FALSE
    OBVIOUS
  <2>1. n < Len(s) /\ Len(s) - n \in (Len(s) - MaxFailures + 1)..Len(s)
    BY <1>1 DEF Rounds!GaveUp
  <2> QED
    BY <2>1 DEF StopRun, Rounds!GaveUp
<1> QED
  BY <1>1, <1>2, <1>3 DEF StopRun

(* What parse_raw_llm_response and a provider that raises can tell the next attempt.    *)
LEMMA ErrorTypes ==
  ASSUME Typed, NEW reply \in Replies
  PROVE  AttemptError(reply) \in Errors
<1>1. CASE provider = "mock"
  BY <1>1 DEF Typed, Replies, MockReplies, Raw, AttemptError, ParseError, Quoting, Errors
<1>2. CASE provider = "replay"
  BY <1>2 DEF Typed, Replies, ReplayReplies, Replayed, NoReply, AttemptError, Quoting, Errors
<1>3. CASE provider = "chat"
  <2>1. PICK t \in Transport, x \in {"no_object", "bad_fields", "command"},
             d \in {DurationMin, DurationMax + 1}, m \in BOOLEAN : reply = Completion(t, x, d, m)
    BY <1>3 DEF Replies, ChatReplies
  <2> QED
    BY <2>1 DEF Completion, Raw, NoReply, AttemptError, ParseError, Quoting, Errors
<1> QED
  BY <1>1, <1>2, <1>3 DEF Typed

--------------------------------------------------------------------------------
(* The orchestrator starts inside its invariant.                                     *)
LEMMA DecisionInit == Init => IInv
<1> SUFFICES ASSUME Init PROVE IInv
  OBVIOUS
<1>1. Typed
  BY DEF Init, Typed, Idle, Jobs, Errors, Sessions, Results
<1>2. \A c \in Crane : job[c] = Idle /\ records[c] = <<>> /\ retryErrors[c] = "none"
                       /\ given[c] = <<>> /\ session[c].failures = 0
  BY DEF Init
<1>3. BatchInv
  BY <1>2 DEF Init, BatchInv, Idle
<1>4. StoryOf(Idle, "none", <<>>)
  BY SizesAssumption DEF StoryOf, Chained, LastError, Idle
<1>5. CountOf(<<>>, Idle, 0)
  BY DEF CountOf, Decided, StopRun, Idle
<1> QED
  BY <1>1, <1>2, <1>3, <1>4, <1>5 DEF IInv, StoryInv, CountInv

(* A step of one crane's decision: the others are left alone, and what the crane's       *)
(* records, job and counter say of each other is all there is to show.                 *)
LEMMA CraneStep ==
  ASSUME IInv, Typed', NEW c \in Crane, UNCHANGED <<phase, due, given>>,
         \A d \in Crane : d # c => /\ job'[d] = job[d] /\ retryErrors'[d] = retryErrors[d]
                                   /\ records'[d] = records[d] /\ session'[d] = session[d],
         job[c].pc # "out", job'[c].pc # "out",
         StoryOf(job'[c], retryErrors'[c], records'[c]),
         phase = "deciding" => CountOf(given[c], job'[c], session'[c].failures)
  PROVE  IInv'
<1>1. BatchInv'
  BY DEF IInv, BatchInv
<1>2. StoryInv'
  BY DEF IInv, StoryInv
<1>3. CountInv'
  <2>1. phase = "idle" => c \notin due
    BY DEF IInv, BatchInv
  <2>2. phase # "idle"
    BY <2>1 DEF IInv, BatchInv
  <2> QED
    BY <2>2 DEF IInv, CountInv
<1> QED
  BY <1>1, <1>2, <1>3 DEF IInv

(* A thread takes the next crane, or the messages of an attempt are refused.            *)
LEMMA PlaceStep ==
  ASSUME IInv, NEW c \in Crane, Take(c) \/ RefuseMessages(c)
  PROVE  IInv'
<1>1. PICK place \in {"asking", "raised"} :
         /\ job' = [job EXCEPT ![c].pc = place]
         /\ job[c].pc \in {"queued", "asking"} /\ phase = "deciding"
         /\ UNCHANGED <<provider, phase, due, retryErrors, records, session, given>>
  BY DEF Take, RefuseMessages, InState
<1>2. job[c] \in Jobs
  BY DEF IInv, Typed
<1>3. /\ job'[c] = [job[c] EXCEPT !.pc = place] /\ job' \in [Crane -> Jobs]
      /\ \A d \in Crane : d # c => job'[d] = job[d]
  BY <1>1, <1>2 DEF IInv, Typed, Jobs
<1>4. Typed'
  BY <1>1, <1>3 DEF IInv, Typed
<1>5. StoryOf(job'[c], retryErrors[c], records[c])
  BY <1>1, <1>2, <1>3 DEF IInv, StoryInv, StoryOf, Jobs
<1>6. CountOf(given[c], job'[c], session[c].failures)
  BY <1>1, <1>2, <1>3 DEF IInv, CountInv, CountOf, Decided, Jobs
<1>7. job[c].pc # "out" /\ job'[c].pc # "out"
  BY <1>1, <1>2, <1>3 DEF Jobs
<1> QED
  BY <1>1, <1>3, <1>4, <1>5, <1>6, <1>7, CraneStep

(* What an attempt records: its error, and the error it was told.                       *)
LEMMA AttemptRecorded ==
  ASSUME IInv, NEW c \in Crane, NEW e \in Errors, Asked(c), Recorded(c, e)
  PROVE  /\ records' \in [Crane -> Seq(Record)]
         /\ \A d \in Crane : d # c => records'[d] = records[d]
         /\ Chained(records'[c]) /\ LastError(records'[c]) = e
         /\ Len(records'[c]) = Len(records[c]) + 1 /\ Len(records[c]) \in Nat
         /\ job[c].attempt = Len(records[c]) /\ job[c].attempt <= MaxRetries
         /\ job[c] \in Jobs /\ job[c].pc = "asking" /\ phase = "deciding"
         /\ StopRun(given[c], session[c].failures)
<1>1. job[c].pc = "asking" /\ phase = "deciding" /\ job[c] \in Jobs
  BY DEF Asked, IInv, Typed
<1>2. /\ records[c] \in Seq(Record) /\ Chained(records[c])
      /\ retryErrors[c] = LastError(records[c])
      /\ Len(records[c]) > 0 => LastError(records[c]) # "none"
      /\ job[c].attempt = Len(records[c]) /\ job[c].attempt <= MaxRetries
  BY <1>1 DEF IInv, Typed, StoryInv, StoryOf
<1>3. records' = [records EXCEPT ![c] =
                     Append(records[c], [told |-> LastError(records[c]), error |-> e])]
  BY <1>2 DEF Recorded
<1> DEFINE longer == Append(records[c], [told |-> LastError(records[c]), error |-> e])
<1>4. /\ longer \in Seq(Record) /\ Chained(longer)
      /\ Len(longer) = Len(records[c]) + 1 /\ LastError(longer) = e
  BY <1>2, StoryGoesOn
<1> HIDE DEF longer
<1>5. /\ records'[c] = longer /\ records' \in [Crane -> Seq(Record)]
      /\ \A d \in Crane : d # c => records'[d] = records[d]
  BY <1>3, <1>4 DEF IInv, Typed, longer
<1>6. StopRun(given[c], session[c].failures)
  BY <1>1 DEF IInv, CountInv, CountOf, Decided
<1>7. Len(records[c]) \in Nat
  BY <1>2
<1> QED
  BY <1>1, <1>2, <1>4, <1>5, <1>6, <1>7

(* A decision that is made: the session counts it, and the operator waits with it,        *)
(* unless its summary is refused.                                                      *)
LEMMA DecisionMade ==
  ASSUME IInv, NEW c \in Crane, NEW result \in Results, NEW marked, Summarised(c, result, marked),
         job[c].pc = "asking", StopRun(given[c], session[c].failures)
  PROVE  /\ job' \in [Crane -> Jobs] /\ session' \in [Crane -> Sessions]
         /\ \A d \in Crane : d # c => job'[d] = job[d] /\ session'[d] = session[d]
         /\ \/ job'[c].pc = "raised"
            \/ job'[c].pc = "done" /\ job'[c].result = result
         /\ CountOf(given[c], job'[c], session'[c].failures)
<1> USE DEF Jobs, Sessions
<1>1. /\ job \in [Crane -> Jobs] /\ session \in [Crane -> Sessions]
      /\ given[c] \in Seq(Results) /\ session[c].failures \in Nat
  BY DEF IInv, Typed
<1>2. Remembered(session[c].history) \in Nat
  BY <1>1 DEF Remembered
<1> DEFINE n == IF result = "own" THEN 0 ELSE session[c].failures + 1
<1>3. StopRun(Append(given[c], result), n)
  BY <1>1, RunGoesOn DEF Results
<1>n. n \in Nat /\ session[c].decided + 1 \in Nat
  BY <1>1
<1> HIDE DEF n
<1>4. CASE marked /\ HistoryLimit > 0
  <2>1. /\ job' = [job EXCEPT ![c].pc = "raised"]
        /\ session' = [session EXCEPT ![c].decided = @ + 1, ![c].failures = n]
    BY <1>4 DEF Summarised, n
  <2>2. /\ job' \in [Crane -> Jobs] /\ job'[c].pc = "raised"
        /\ \A d \in Crane : d # c => job'[d] = job[d]
    BY <1>1, <2>1
  <2> DEFINE new == [session[c] EXCEPT !.decided = session[c].decided + 1, !.failures = n]
  <2>3. new \in Sessions /\ session' = [session EXCEPT ![c] = new]
    BY <1>1, <1>n, <2>1
  <2> HIDE DEF new
  <2>4. /\ session' \in [Crane -> Sessions]
        /\ \A d \in Crane : d # c => session'[d] = session[d]
    BY <1>1, <2>3
  <2> QED
    BY <2>2, <2>4 DEF CountOf
<1>5. CASE ~(marked /\ HistoryLimit > 0)
  <2>1. /\ job' = [job EXCEPT ![c].pc = "done", ![c].result = result]
        /\ session' = [session EXCEPT ![c].decided = @ + 1, ![c].failures = n,
                                      ![c].history = Remembered(@)]
    BY <1>5 DEF Summarised, n
  <2>2. /\ job' \in [Crane -> Jobs] /\ job'[c].pc = "done" /\ job'[c].result = result
        /\ \A d \in Crane : d # c => job'[d] = job[d]
    BY <1>1, <2>1
  <2> DEFINE new == [session[c] EXCEPT !.decided = session[c].decided + 1, !.failures = n,
                                       !.history = Remembered(session[c].history)]
  <2>3. new \in Sessions /\ new.failures = n
    BY <1>1, <1>2, <1>n
  <2>5. session' = [session EXCEPT ![c] = new]
    BY <1>1, <2>1
  <2> HIDE DEF new
  <2>4. /\ session' \in [Crane -> Sessions] /\ session'[c].failures = n
        /\ \A d \in Crane : d # c => session'[d] = session[d]
    BY <1>1, <2>3, <2>5
  <2> QED
    BY <1>3, <2>2, <2>4 DEF CountOf, Decided
<1> QED
  BY <1>4, <1>5

(* An attempt ends: with a command, with another attempt, or with the neutral stop.       *)
LEMMA AttemptStep ==
  ASSUME IInv, NEW c \in Crane, NEW reply \in Replies,
         AcceptCommand(c, reply) \/ Retry(c, reply) \/ Fallback(c, reply)
  PROVE  IInv'
<1>1. AttemptError(reply) \in Errors
  BY ErrorTypes DEF IInv
<1>2. Asked(c) /\ UNCHANGED <<provider, phase, due, given>>
  BY DEF AcceptCommand, Retry, Fallback
<1>3. Recorded(c, AttemptError(reply))
  BY DEF AcceptCommand, Retry, Fallback
<1>4. /\ records' \in [Crane -> Seq(Record)]
      /\ \A d \in Crane : d # c => records'[d] = records[d]
      /\ Chained(records'[c]) /\ LastError(records'[c]) = AttemptError(reply)
      /\ Len(records'[c]) = Len(records[c]) + 1 /\ Len(records[c]) \in Nat
      /\ job[c].attempt = Len(records[c]) /\ job[c].attempt <= MaxRetries
      /\ job[c] \in Jobs /\ job[c].pc = "asking" /\ phase = "deciding"
      /\ StopRun(given[c], session[c].failures)
  BY <1>1, <1>2, <1>3, AttemptRecorded
<1>5. MaxRetries \in Nat
  BY SizesAssumption
<1>6. CASE AcceptCommand(c, reply)
  <2>1. /\ Summarised(c, "own", reply.marked) /\ UNCHANGED retryErrors
        /\ AttemptError(reply) = "none" /\ "own" \in Results
    BY <1>6 DEF AcceptCommand, Results
  <2>2. /\ job' \in [Crane -> Jobs] /\ session' \in [Crane -> Sessions]
        /\ \A d \in Crane : d # c => job'[d] = job[d] /\ session'[d] = session[d]
        /\ \/ job'[c].pc = "raised"
           \/ job'[c].pc = "done" /\ job'[c].result = "own"
        /\ CountOf(given[c], job'[c], session'[c].failures)
    BY <1>4, <2>1, DecisionMade
  <2>3. Typed'
    BY <1>2, <1>4, <2>1, <2>2 DEF IInv, Typed
  <2>4. StoryOf(job'[c], retryErrors'[c], records'[c])
    BY <1>4, <2>1, <2>2 DEF StoryOf
  <2> QED
    BY <1>2, <1>4, <2>1, <2>2, <2>3, <2>4, CraneStep
<1>7. CASE Retry(c, reply)
  <2>1. /\ job' = [job EXCEPT ![c].attempt = @ + 1]
        /\ retryErrors' = [retryErrors EXCEPT ![c] = AttemptError(reply)]
        /\ UNCHANGED session
        /\ AttemptError(reply) # "none" /\ job[c].attempt < MaxRetries
    BY <1>7 DEF Retry
  <2>2. /\ job' \in [Crane -> Jobs] /\ job'[c].pc = "asking"
        /\ job'[c].attempt = job[c].attempt + 1
        /\ \A d \in Crane : d # c => job'[d] = job[d]
    <3>1. job[c].attempt + 1 \in Nat
      BY <1>4
    <3> DEFINE j == [job[c] EXCEPT !.attempt = job[c].attempt + 1]
    <3>2. j \in Jobs /\ j.pc = "asking" /\ j.attempt = job[c].attempt + 1
      BY <1>4, <3>1 DEF Jobs
    <3>3. job' = [job EXCEPT ![c] = j]
      BY <2>1
    <3> HIDE DEF j
    <3> QED
      BY <3>2, <3>3 DEF IInv, Typed
  <2>3. /\ retryErrors' \in [Crane -> Errors] /\ retryErrors'[c] = AttemptError(reply)
        /\ \A d \in Crane : d # c => retryErrors'[d] = retryErrors[d]
    BY <1>1, <2>1 DEF IInv, Typed
  <2>4. Typed'
    BY <1>2, <1>4, <2>1, <2>2, <2>3 DEF IInv, Typed
  <2>5. StoryOf(job'[c], retryErrors'[c], records'[c])
    BY <1>4, <1>5, <2>1, <2>2, <2>3 DEF StoryOf
  <2>6. CountOf(given[c], job'[c], session'[c].failures)
    BY <1>4, <2>1, <2>2 DEF CountOf, Decided
  <2> QED
    BY <1>2, <1>4, <2>1, <2>2, <2>3, <2>4, <2>5, <2>6, CraneStep
<1>8. CASE Fallback(c, reply)
  <2>1. /\ Summarised(c, "fallback", FALSE)
        /\ retryErrors' = [retryErrors EXCEPT ![c] = AttemptError(reply)]
        /\ AttemptError(reply) # "none" /\ "fallback" \in Results
        /\ job[c].attempt = MaxRetries
    BY <1>8 DEF Fallback, Results
  <2>2. /\ job' \in [Crane -> Jobs] /\ session' \in [Crane -> Sessions]
        /\ \A d \in Crane : d # c => job'[d] = job[d] /\ session'[d] = session[d]
        /\ \/ job'[c].pc = "raised"
           \/ job'[c].pc = "done" /\ job'[c].result = "fallback"
        /\ CountOf(given[c], job'[c], session'[c].failures)
    BY <1>4, <2>1, DecisionMade
  <2>3. /\ retryErrors' \in [Crane -> Errors]
        /\ \A d \in Crane : d # c => retryErrors'[d] = retryErrors[d]
    BY <1>1, <2>1 DEF IInv, Typed
  <2>4. Typed'
    BY <1>2, <1>4, <2>1, <2>2, <2>3 DEF IInv, Typed
  <2>5. StoryOf(job'[c], retryErrors'[c], records'[c])
    BY <1>4, <1>5, <2>1, <2>2 DEF StoryOf
  <2> QED
    BY <1>2, <1>4, <2>1, <2>2, <2>3, <2>4, <2>5, CraneStep
<1> QED
  BY <1>6, <1>7, <1>8

(* The first calls of a batch: every due crane is queued with an empty story.             *)
LEMMA BatchStep ==
  ASSUME IInv, NEW asked \in DueSets, StartBatch(asked)
  PROVE  IInv'
<1>1. asked \in SUBSET Crane /\ asked # {}
  BY DueAssumption
<1>2. /\ phase = "idle" /\ phase' = "deciding" /\ due' = asked
      /\ \A c \in Crane : /\ job'[c] = IF c \in asked THEN [Idle EXCEPT !.pc = "queued"] ELSE Idle
                          /\ retryErrors'[c] = "none" /\ records'[c] = <<>>
      /\ UNCHANGED <<provider, session, given>>
  BY DEF StartBatch
<1>3. Typed'
  BY <1>1, <1>2 DEF StartBatch, IInv, Typed, Jobs, Idle, Errors
<1>4. BatchInv'
  BY <1>1, <1>2 DEF BatchInv, Idle
<1>5. \A c \in Crane : job[c].pc = "out" /\ job'[c].pc \in {"out", "queued"}
                       /\ job'[c].attempt = 0
  BY <1>2 DEF IInv, BatchInv, Idle
<1>6. Chained(<<>>) /\ LastError(<<>>) = "none" /\ Len(<<>>) = 0
  BY DEF Chained, LastError
<1>7. StoryInv'
  BY <1>2, <1>5, <1>6, SizesAssumption DEF StoryInv, StoryOf
<1>8. CountInv'
  BY <1>2, <1>5 DEF IInv, CountInv, CountOf, Decided
<1> QED
  BY <1>3, <1>4, <1>7, <1>8 DEF IInv

(* When a batch is delivered every due crane waits with its decision.                      *)
LEMMA AllDone ==
  ASSUME IInv, Deliver
  PROVE  /\ phase = "deciding" /\ due # {} /\ due \subseteq Crane
         /\ \A c \in due : /\ job[c].pc = "done" /\ job[c].result \in Results
                           /\ StopRun(Append(given[c], job[c].result), session[c].failures)
<1>1. phase = "deciding" /\ InState("raised") = {} /\ Settled
  BY DEF Deliver
<1>2. InState("asking") = {} /\ InState("queued") = {}
  BY <1>1 DEF Settled
<1>3. due # {} /\ due \subseteq Crane
  BY <1>1 DEF IInv, Typed, BatchInv
<1>4. ASSUME NEW c \in due
      PROVE  job[c].pc = "done" /\ job[c].result \in Results
             /\ StopRun(Append(given[c], job[c].result), session[c].failures)
  <2>1. c \in Crane /\ job[c] \in Jobs /\ job[c].pc # "out"
    BY <1>1, <1>3 DEF IInv, Typed, BatchInv
  <2>2. job[c].pc = "done"
    BY <1>1, <1>2, <2>1 DEF InState, Jobs
  <2> QED
    BY <1>1, <2>1, <2>2 DEF IInv, StoryInv, StoryOf, CountInv, CountOf, Decided
<1> QED
  BY <1>1, <1>3, <1>4

(* The end of a batch forgets all but the sessions.                                       *)
LEMMA DeliverStep ==
  ASSUME IInv, Deliver
  PROVE  IInv'
<1>1. /\ phase = "deciding" /\ due # {} /\ due \subseteq Crane
      /\ \A c \in due : /\ job[c].pc = "done" /\ job[c].result \in Results
                        /\ StopRun(Append(given[c], job[c].result), session[c].failures)
  BY AllDone
<1>2. /\ given' = [c \in Crane |-> IF c \in due THEN Append(given[c], job[c].result) ELSE given[c]]
      /\ phase' \in {"llm_failed", "idle"} /\ due' = {} /\ UNCHANGED <<provider, session>>
      /\ \A c \in Crane : job'[c] = Idle /\ retryErrors'[c] = "none" /\ records'[c] = <<>>
  BY DEF Deliver, Forgotten
<1>3. given' \in [Crane -> Seq(Results)]
  <2>1. ASSUME NEW c \in Crane
        PROVE  (IF c \in due THEN Append(given[c], job[c].result) ELSE given[c]) \in Seq(Results)
    BY <1>1, <2>1, AppendElement DEF IInv, Typed
  <2> QED
    BY <1>2, <2>1
<1>4. Typed'
  BY <1>2, <1>3 DEF Deliver, Forgotten, IInv, Typed, Jobs, Idle, Errors
<1>5. BatchInv'
  BY <1>2 DEF BatchInv, Idle
<1>6. StoryInv'
  BY <1>2, SizesAssumption DEF StoryInv, StoryOf, Chained, LastError, Idle
<1>7. ASSUME NEW c \in Crane PROVE StopRun(given'[c], session'[c].failures)
  <2>1. CASE c \in due
    BY <1>1, <1>2, <2>1
  <2>2. CASE c \notin due
    <3>1. job[c].pc = "out"
      BY <1>1, <2>2 DEF IInv, BatchInv
    <3> QED
      BY <1>1, <1>2, <2>2, <3>1 DEF IInv, CountInv, CountOf, Decided
  <2> QED
    BY <2>1, <2>2
<1>8. CountInv'
  BY <1>2, <1>7 DEF CountInv, CountOf, Decided, Idle
<1> QED
  BY <1>4, <1>5, <1>6, <1>8 DEF IInv

(* What the jobs, the records and the counters of the operators say of each other, in    *)
(* whatever order the pool takes and finishes them.                                     *)
THEOREM DecisionInvariant == Spec => []IInv
<1>1. IInv /\ [Next]_vars => IInv'
  <2> SUFFICES ASSUME IInv, [Next]_vars PROVE IInv'
    OBVIOUS
  <2>1. CASE \E asked \in DueSets : StartBatch(asked)
    BY <2>1, BatchStep
  <2>2. CASE \E c \in Crane : Work(c)
    BY <2>2, PlaceStep, AttemptStep DEF Work
  <2>3. CASE Deliver
    BY <2>3, DeliverStep
  <2>4. CASE RaiseBatch
    BY <2>4 DEF RaiseBatch, IInv, Typed, BatchInv, StoryInv, CountInv
  <2>5. CASE UNCHANGED vars
    BY <2>5 DEF vars, IInv, Typed, BatchInv, StoryInv, CountInv
  <2> QED
    BY <2>1, <2>2, <2>3, <2>4, <2>5 DEF Next
<1> QED
  BY <1>1, DecisionInit, PTL DEF Spec

(* The call records of every decision tell its story, for any number of retries: each     *)
(* attempt was told the errors of the one before it, a neutral stop comes after            *)
(* 1 + max_retries failures, and nobody is asked again after a good answer.               *)
THEOREM RecordsAreTrue == Spec => []RecordsTellTheStory
<1>1. IInv => RecordsTellTheStory
  <2> SUFFICES ASSUME IInv, NEW c \in Crane
               PROVE  LET r == records[c] IN
                      /\ \A i \in 1..Len(r) :
                             r[i].told = IF i = 1 THEN "none" ELSE r[i - 1].error
                      /\ \A i \in 1..(Len(r) - 1) : r[i].error # "none"
                      /\ job[c].pc = "done" =>
                             /\ Len(r) > 0
                             /\ job[c].result = "own" <=> r[Len(r)].error = "none"
                             /\ job[c].result = "fallback" => Len(r) = 1 + MaxRetries
    BY DEF RecordsTellTheStory
  <2>1. StoryOf(job[c], retryErrors[c], records[c])
    BY DEF IInv, StoryInv
  <2> QED
    BY <2>1 DEF StoryOf, Chained, LastError
<1> QED
  BY <1>1, DecisionInvariant, PTL

--------------------------------------------------------------------------------
(* The refinement.                                                                  *)

(* Delivering a batch is one round: the commands all at once, and the end of the         *)
(* episode exactly when one operator has given up.                                     *)
LEMMA DeliverIsRound ==
  ASSUME IInv, IInv', Deliver
  PROVE  Rounds!Next
<1>1. /\ phase = "deciding" /\ due # {} /\ due \subseteq Crane
      /\ \A c \in due : /\ job[c].pc = "done" /\ job[c].result \in Results
                        /\ StopRun(Append(given[c], job[c].result), session[c].failures)
  BY AllDone
<1> DEFINE answer == [c \in due |-> job[c].result]
<1>2. answer \in [due -> {"own", "fallback"}] /\ due \in (SUBSET Crane) \ {{}}
  BY <1>1 DEF Results
<1>3. given' = [c \in Crane |-> IF c \in due THEN Append(given[c], answer[c]) ELSE given[c]]
  BY DEF Deliver
<1>4. ASSUME NEW c \in due PROVE ReportsFailure(c) <=> Rounds!GaveUp(given'[c])
  <2>1. /\ given'[c] = Append(given[c], job[c].result) /\ c \in Crane
        /\ given[c] \in Seq(Results) /\ session[c].failures \in Nat /\ job[c].result \in Results
    BY <1>1, <1>3 DEF IInv, Typed, Sessions
  <2>2. given'[c] \in Seq(Results) /\ StopRun(given'[c], session[c].failures)
    BY <1>1, <2>1, AppendElement
  <2>3. given'[c][Len(given'[c])] = job[c].result
    BY <2>1, AppendElement
  <2> QED
    BY <2>2, <2>3, RunDecides, <2>1 DEF ReportsFailure
<1>5. phase' = IF \E c \in due : Rounds!GaveUp(given'[c]) THEN "llm_failed" ELSE "idle"
  BY <1>4 DEF Deliver
<1>6. Rounds!Round(due, answer)
  BY <1>1, <1>3, <1>5 DEF Rounds!Round
<1> QED
  BY <1>2, <1>6 DEF Rounds!Next

(* However the pool interleaves the operators, a batch gives every due crane one command, *)
(* all in one step or none at all, and the session's counter ends the episode exactly     *)
(* after MaxFailures neutral stops in a row.                                            *)
THEOREM DecisionsAreRounds == Spec => ImplementsRounds
<1>1. Init => Rounds!Init
  BY DEF Init, Rounds!Init
<1>2. IInv /\ IInv' /\ [Next]_vars => [Rounds!Next]_Rounds!vars
  <2> SUFFICES ASSUME IInv, IInv', [Next]_vars PROVE [Rounds!Next]_Rounds!vars
    OBVIOUS
  <2>1. CASE \E asked \in DueSets : StartBatch(asked)
    BY <2>1 DEF StartBatch, Rounds!vars
  <2>2. CASE \E c \in Crane : Work(c)
    BY <2>2 DEF Work, Take, RefuseMessages, AcceptCommand, Retry, Fallback, Rounds!vars
  <2>3. CASE Deliver
    BY <2>3, DeliverIsRound
  <2>4. CASE RaiseBatch
    BY <2>4 DEF RaiseBatch, Rounds!Next, Rounds!Lost
  <2>5. CASE UNCHANGED vars
    BY <2>5 DEF vars, Rounds!vars
  <2> QED
    BY <2>1, <2>2, <2>3, <2>4, <2>5 DEF Next
<1> QED
  BY <1>1, <1>2, DecisionInvariant, PTL DEF Spec, ImplementsRounds, Rounds!Spec

================================================================================
