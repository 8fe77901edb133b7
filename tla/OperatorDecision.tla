--------------------------- MODULE OperatorDecision ----------------------------
(* The operators of one frame: decide_with_retry for every due crane, alone or on *)
(* a pool of threads, and the collection of the results (operator_decision.py,     *)
(* llm_provider.py, command_parser.py, prompt_builder.py).                         *)
(*                                                                                 *)
(* A text is reduced to what the code tells apart: whether it parses, whether its   *)
(* duration is allowed, and whether it holds one of the words (token, secret, ...)  *)
(* that LLMMessage refuses, here `marked`.                                          *)
EXTENDS Naturals, Sequences, FiniteSets

CONSTANTS
  Crane,            \* crane ids, also the operators: one operator per crane
  DueSets,          \* the sets of cranes that are due together
  Order,            \* the cranes in the order the scheduler asks for them
  MaxRetries,       \* LLMConfig.max_retries
  MaxFailures,      \* LLMConfig.max_consecutive_failures
  Workers,          \* LLMConfig.scheduling.max_concurrent_requests
  HistoryLimit,     \* LLMConfig.context.recent_decisions_full
  DurationMin, DurationMax,  \* LLMConfig.command_duration, in half seconds
  Batches           \* bound: batches of one episode

ASSUME SizesAssumption == /\ MaxRetries \in Nat /\ HistoryLimit \in Nat /\ Batches \in Nat
                          /\ MaxFailures \in Nat \ {0} /\ Workers \in Nat \ {0}
                          /\ DurationMin \in Nat /\ DurationMax \in Nat
ASSUME DueAssumption == DueSets \subseteq (SUBSET Crane) \ {{}}
ASSUME OrderAssumption == /\ Order \in Seq(Crane)
                          /\ \A c \in Crane : \E i \in 1..Len(Order) : Order[i] = c
                          /\ \A i, j \in 1..Len(Order) : Order[i] = Order[j] => i = j

VARIABLES
  provider,   \* create_llm_provider's choice, for the whole episode
  phase,      \* "idle", "deciding", "llm_failed" (the episode is over) or "raised"
  batch,      \* batches started
  due,        \* the cranes whose observations make the batch; Order is its order
  job,        \* per crane: what its decide_with_retry is doing
  retryErrors, \* per crane: retry_errors, the errors told to the next attempt
  records,    \* per crane: call_records of its decision
  session,    \* per crane: OperatorSession
  given       \* history: the results decide() returned, per crane

vars == <<provider, phase, batch, due, job, retryErrors, records, session, given>>

--------------------------------------------------------------------------------
(* Providers.                                                                     *)

NoReply == [via |-> "error", text |-> "none", duration |-> 0, marked |-> FALSE]
Replayed == [via |-> "replay", text |-> "command", duration |-> 2, marked |-> FALSE]
Raw(text, duration, marked) ==
  [via |-> "raw", text |-> text, duration |-> duration, marked |-> marked]

\* MockProvider: a fixed well-formed command of one second.
MockReplies == {Raw("command", 2, FALSE)}

\* ReplayProvider: the one recorded command of this snapshot and crane; none, or
\* more than one, raises.
ReplayReplies == {IF matches = 1 THEN Replayed ELSE NoReply : matches \in 0..2}

\* How a chat request can end before there is a text: UrllibHTTPClient.post and
\* the checks of _generate_chat_completion after it. An answer that TokenUsage or
\* RawLLMResponse refuses is lost too, and the error of their validator quotes it.
Transport == {"timeout", "os_error", "body_not_object", "http_error", "no_content",
              "refused_answer", "content"}
Completion(transport, text, duration, marked) ==
  CASE transport = "content" -> Raw(text, duration, marked)
    [] transport = "refused_answer" -> [NoReply EXCEPT !.marked = marked]
    [] OTHER -> NoReply

ChatReplies ==
  {Completion(t, x, d, m) : t \in Transport, x \in {"no_object", "bad_fields", "command"},
                            d \in {DurationMin, DurationMax + 1}, m \in BOOLEAN}

Replies == CASE provider = "mock" -> MockReplies
             [] provider = "replay" -> ReplayReplies
             [] provider = "chat" -> ChatReplies

--------------------------------------------------------------------------------
(* Parsing. An error is "clean" or "marked": the raw fragment it quotes.          *)

Quoting(marked) == IF marked THEN "marked" ELSE "clean"

\* parse_raw_llm_response: the object, the schema, then the configured duration.
\* The duration error quotes only the number.
ParseError(reply) ==
  CASE reply.text \in {"no_object", "bad_fields"} -> Quoting(reply.marked)
    [] reply.text = "command" ->
         IF DurationMin <= reply.duration /\ reply.duration <= DurationMax
         THEN "none" ELSE "clean"

\* The errors of one attempt: a provider that raises is an error like any other,
\* a replayed command is not parsed again.
AttemptError(reply) == CASE reply.via = "error" -> Quoting(reply.marked)
                         [] reply.via = "replay" -> "none"
                         [] reply.via = "raw" -> ParseError(reply)

\* The messages of an attempt: system prompt, history, observation, and the
\* errors of the attempt before it.
RetryPrompt(errors) == IF errors = "none" THEN <<>>
                       ELSE <<[role |-> "retry", marked |-> errors = "marked"]>>
Messages(c) ==
  <<[role |-> "system", marked |-> FALSE]>>
  \o (IF session[c].history = 0 THEN <<>> ELSE <<[role |-> "history", marked |-> FALSE]>>)
  \o <<[role |-> "observation", marked |-> FALSE]>>
  \o RetryPrompt(retryErrors[c])

\* LLMMessage's validator.
RefusedMessage(messages) == \E i \in 1..Len(messages) : messages[i].marked

--------------------------------------------------------------------------------
Idle == [pc |-> "out", attempt |-> 0, result |-> "none"]

Init ==
  /\ provider \in {"mock", "replay", "chat"}
  /\ phase = "idle" /\ batch = 0 /\ due = {}
  /\ job = [c \in Crane |-> Idle]
  /\ retryErrors = [c \in Crane |-> "none"]
  /\ records = [c \in Crane |-> <<>>]
  /\ session = [c \in Crane |-> [failures |-> 0, decided |-> 0, history |-> 0]]
  /\ given = [c \in Crane |-> <<>>]

\* The observations of a batch are in the order the scheduler lists the cranes.
Before(d, c) == \E i, j \in 1..Len(Order) : i < j /\ Order[i] = d /\ Order[j] = c
Sequential == Cardinality(due) = 1 \/ Workers = 1
InState(pc) == {c \in due : job[c].pc = pc}

\* Only the sessions outlive a batch: the rest is local to the calls.
Forgotten == /\ job' = [c \in Crane |-> Idle]
             /\ retryErrors' = [c \in Crane |-> "none"]
             /\ records' = [c \in Crane |-> <<>>]

\* decide() with the observations of one snapshot: it has validated them and
\* fetched each session before the first operator is asked.
StartBatch(asked) ==
  /\ phase = "idle" /\ batch < Batches
  /\ phase' = "deciding" /\ batch' = batch + 1
  /\ due' = asked
  /\ job' = [c \in Crane |-> IF c \in asked THEN [Idle EXCEPT !.pc = "queued"] ELSE Idle]
  /\ retryErrors' = [c \in Crane |-> "none"]
  /\ records' = [c \in Crane |-> <<>>]
  /\ UNCHANGED <<provider, session, given>>

(* Mutant: a thread whose operator raised is not given back. *)
FreeWorkerLost == Cardinality(InState("asking") \cup InState("raised")) < Workers

\* The list comprehension asks the next crane after the one before it returned;
\* the pool's threads take the submitted cranes first in, first out.
FreeWorker == IF Sequential THEN InState("asking") = {} /\ InState("raised") = {}
              ELSE Cardinality(InState("asking")) < Workers
Take(c) ==
  /\ phase = "deciding" /\ FreeWorker
  /\ c \in InState("queued") /\ ~\E d \in InState("queued") : Before(d, c)
  /\ job' = [job EXCEPT ![c].pc = "asking"]
  /\ UNCHANGED <<provider, phase, batch, due, retryErrors, records, session, given>>

\* build_operator_messages is outside the try of the attempt: a message that is
\* refused leaves decide_with_retry as an exception.
RefuseMessages(c) ==
  /\ phase = "deciding" /\ job[c].pc = "asking"
  /\ RefusedMessage(Messages(c))
  /\ job' = [job EXCEPT ![c].pc = "raised"]
  /\ UNCHANGED <<provider, phase, batch, due, retryErrors, records, session, given>>

Asked(c) == /\ phase = "deciding" /\ job[c].pc = "asking"
            /\ ~RefusedMessage(Messages(c))
Recorded(c, error) ==
  records' = [records EXCEPT ![c] = Append(@, [told |-> retryErrors[c], error |-> error])]

\* What _decide_one_observation adds to the session when a decision is made: one
\* summary message, cut to the last HistoryLimit. It names the command's
\* attention target, which may hold a refused word.
Remembered(h) == IF HistoryLimit = 0 THEN 0 ELSE IF h < HistoryLimit THEN h + 1 ELSE h

(* Mutant: a good command does not reset the count of failures. *)
SummarisedTotal(c, result, marked) ==
  /\ job' = [job EXCEPT ![c].pc = IF marked /\ HistoryLimit > 0 THEN "raised" ELSE "done",
                        ![c].result = result]
  /\ session' = [session EXCEPT ![c].decided = @ + 1,
                   ![c].failures = IF result = "own" THEN @ ELSE @ + 1]

Summarised(c, result, marked) ==
  IF marked /\ HistoryLimit > 0
  THEN /\ job' = [job EXCEPT ![c].pc = "raised"]
       /\ session' = [session EXCEPT ![c].decided = @ + 1,
                        ![c].failures = IF result = "own" THEN 0 ELSE @ + 1]
  ELSE /\ job' = [job EXCEPT ![c].pc = "done", ![c].result = result]
       /\ session' = [session EXCEPT ![c].decided = @ + 1,
                        ![c].failures = IF result = "own" THEN 0 ELSE @ + 1,
                        ![c].history = Remembered(@)]

AcceptCommand(c, reply) ==
  /\ Asked(c) /\ AttemptError(reply) = "none"
  /\ Recorded(c, "none")
  /\ Summarised(c, "own", reply.marked)
  /\ UNCHANGED <<provider, phase, batch, due, retryErrors, given>>

(* Mutant: the next attempt is not told what was wrong. *)
RetryUninformed(c, reply) ==
  /\ Asked(c) /\ AttemptError(reply) # "none"
  /\ job[c].attempt < MaxRetries
  /\ Recorded(c, AttemptError(reply))
  /\ job' = [job EXCEPT ![c].attempt = @ + 1]
  /\ UNCHANGED <<provider, phase, batch, due, retryErrors, session, given>>

Retry(c, reply) ==
  /\ Asked(c) /\ AttemptError(reply) # "none"
  /\ job[c].attempt < MaxRetries
  /\ Recorded(c, AttemptError(reply))
  /\ retryErrors' = [retryErrors EXCEPT ![c] = AttemptError(reply)]
  /\ job' = [job EXCEPT ![c].attempt = @ + 1]
  /\ UNCHANGED <<provider, phase, batch, due, session, given>>

\* The retries are used up: build_neutral_stop_command.
Fallback(c, reply) ==
  /\ Asked(c) /\ AttemptError(reply) # "none"
  /\ job[c].attempt = MaxRetries
  /\ Recorded(c, AttemptError(reply))
  /\ retryErrors' = [retryErrors EXCEPT ![c] = AttemptError(reply)]
  /\ Summarised(c, "fallback", FALSE)
  /\ UNCHANGED <<provider, phase, batch, due, given>>

\* Sequentially an exception leaves at once; the pool waits for every future
\* before the exception of the first that raised goes on.
Settled == IF Sequential THEN InState("asking") = {} /\ (InState("queued") = {} \/ InState("raised") # {})
           ELSE InState("asking") = {} /\ InState("queued") = {}

\* episode_failure_reason of a result, which the scheduler turns into the
\* episode's status at the end of the frame.
ReportsFailure(c) == job[c].result = "fallback" /\ session[c].failures >= MaxFailures

Deliver ==
  /\ phase = "deciding" /\ Settled /\ InState("raised") = {}
  /\ given' = [c \in Crane |-> IF c \in due THEN Append(given[c], job[c].result) ELSE given[c]]
  /\ phase' = IF \E c \in due : ReportsFailure(c) THEN "llm_failed" ELSE "idle"
  /\ due' = {} /\ Forgotten
  /\ UNCHANGED <<provider, batch, session>>

\* The exception passes run_one_frame's handler, which ends the episode.
RaiseBatch ==
  /\ phase = "deciding" /\ Settled /\ InState("raised") # {}
  /\ phase' = "raised"
  /\ UNCHANGED <<provider, batch, due, job, retryErrors, records, session, given>>

Work(c) == \/ Take(c) \/ RefuseMessages(c)
           \/ \E reply \in Replies : \/ AcceptCommand(c, reply) \/ Retry(c, reply)
                                     \/ Fallback(c, reply)

Next == \/ \E asked \in DueSets : StartBatch(asked)
        \/ \E c \in Crane : Work(c)
        \/ Deliver \/ RaiseBatch

\* A provider call ends: it has a timeout or does not wait; some thread of the pool,
\* or the collecting one, always runs.
Fairness == WF_vars((\E c \in Crane : Work(c)) \/ Deliver \/ RaiseBatch)

Spec == Init /\ [][Next]_vars /\ Fairness

--------------------------------------------------------------------------------
\* The call records of a decision, which the recorder writes and the training
\* data is read from, tell its story: every attempt was told the errors of the one
\* before it, an operator is replaced by a neutral stop only after 1 + max_retries
\* attempts that all failed, and it is never asked again after a good answer.
RecordsTellTheStory ==
  \A c \in Crane :
    LET r == records[c] IN
    /\ \A i \in 1..Len(r) : r[i].told = IF i = 1 THEN "none" ELSE r[i - 1].error
    /\ \A i \in 1..(Len(r) - 1) : r[i].error # "none"
    /\ job[c].pc = "done" => /\ Len(r) > 0
                             /\ job[c].result = "own" <=> r[Len(r)].error = "none"
                             /\ job[c].result = "fallback" => Len(r) = 1 + MaxRetries

\* Whatever the order in which the pool finishes, a batch is one round: each due
\* crane gets one command, all at once or none, and the counter kept in the
\* session ends the episode exactly when the delivered commands say so.
Rounds == INSTANCE DecisionRounds WITH
            standing <- IF phase \in {"idle", "deciding"} THEN "running" ELSE phase
ImplementsRounds == Rounds!Spec

\* A batch always ends: with its commands or with an exception.
BatchEnds == phase = "deciding" ~> phase # "deciding"

\* docs/moduleG/overview.md:137 and :147 of invalid JSON, schema and provider errors:
\* the decision is retried with its errors in the prompt, and when the retries are
\* used up a neutral stop takes its place.  So an operator whose last answer was
\* unusable is asked again or replaced; it does not raise (decide_with_retry).
UnusableIsReplaced ==
  \A c \in Crane :
    LET r == records[c] IN
    r # <<>> /\ r[Len(r)].error # "none" => job[c].pc # "raised"
================================================================================
