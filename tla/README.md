# Multi-crane simulation: TLA+ models and proofs

This directory models the control logic of the multi-crane simulation: what is
decided in which order, by whom, and what happens when a call raises, a request
arrives at the wrong moment, a process is killed or a link is lost; from the
configuration of an episode over its frames and its files to the samples a model is
trained on. Numbers are small integers wherever control depends on them, and free
choices where it does not. `PROJECT.json` lists every run, the source lines each
definition stands for, the findings, the hazards and the theorems.

## 1. The system

A run is one *episode*: tower cranes with a queue of lifting tasks each, operated
by language models or by replayed decisions, in frames of `dt` seconds.

```
 browser (store.ts, ws.ts)  <--- websocket --- WebSocketConnectionManager
        | REST                                          ^ submit_broadcast
        v                                               |
 EpisodeService --- worker thread --> ProductionEpisodeRunner (records, finalizes)
 (handle, advance_lock)                                 |
 batch_runner / run_episode.py ------------------> EpisodeRunner.run_one_frame
                                                        |
   weather -> task activation -> risk, observation, operator decision, safety
           -> command store -> controller, physics -> task update -> terminal
           status -> recorder -> broadcast
                                                        |
 run directory (parquet, JSONL, frames.jsonl, manifest, summary)
        -> catalog, quality gate, splits, windows -> dataset -> training tensors
```

FastAPI's routes are plain functions on a pool of threads; the websocket lives on
the event loop; an interactive episode has one daemon worker thread. Everything
inside a frame is sequential.

### Components

| Component | State it keeps | Operations that change it | What makes it correct | Status |
|---|---|---|---|---|
| Task system (`task_queue.py`, `task_state_machine.py`, `task_failure.py`, `ProductionTaskSystem`) | per crane: queue, slot, block, stage, load, timers keyed by task id | activate due tasks; state machine step; timeout handling | a load belongs to the active task and is handed to a recovery, never lost; a recovery blocks the queue exactly while it runs; no stage outlives its timeout | `TaskLifecycle` |
| Frame loop (`scheduler.py`) | frame index, status, decision clock, command store, cooldown | `run_one_frame`, `run_episode`, `stop` | one end, gapless log, commands current, completion earned | `FrameLoop` |
| Production wrapper and recorder (`production_runner.py`, `recorder.py`) | `_finalized`, run directory, rows | record, initial frame, finalize | the log ends as its manifest says | control in `FrameLoop`; the files in `RunArtifacts` |
| Episode service (`episode_service.py`) | handle table, status, paused, worker | start, pause, resume, stop, the worker's loop | a stop is final, a pause holds (but for one frame), an end shown is an end reached | `EpisodeService` |
| Live stream (`websocket.py`, `ws.ts`, `store.ts`) | connections, socket, timers, frame buffer | connect, broadcast, heartbeat, reconnect, push | the newest frame reaches a page, in order; a page is never stuck | `LiveStream` |
| Operator decisions (`operator_decision.py`, `llm_provider.py`, `command_parser.py`, `prompt_builder.py`) | per operator: failures in a row, decisions, history; the batch's pool | a batch of decisions on a thread pool, retries, fallback | each due crane gets one command, all or none; failures counted once, and the episode ends by them | `OperatorDecision` |
| Safety, controller, physics (`safety.py`, `controller.py`, `physics.py`) | position, speed and load of each crane | mechanical limits, zones, interventions, control target, step | what the pipeline lets through is safe for the frame it looked at; a stopped crane gains no speed | `CraneMotion`, `SafetyPipeline` |
| Risk, collision, weather, hints (`risk.py`, `collision.py`, `weather.py`, `observation.py`) | the weather remembered by the risk adapter | evaluate before the decision and after physics | a level belongs to the states it is recorded with; a crane that is led gets its load | `OnlineRisk`, `ControlHints`, `ControlLoop` |
| Recorder and batch (`recorder.py`, `batch_runner.py`) | rows in memory, files of a run directory, the report | record a frame, finalize file by file, run a plan of episodes | a directory that counts as an episode is complete; the report says what there is | `RunArtifacts` |
| Dataset pipeline (`data/`) | files of a dataset directory | find, judge, split, cut windows, write | only whole episodes get in; files agree with the manifest | `DatasetBuild` |
| Training converter (`training/`) | files of the training set | read the dataset, make a sample of each window, write | samples are of complete frames and of the split the dataset gave | `TrainingConversion` |
| Layout and tasks of an episode (`auto_layout.py`, `layout.py`, `task_generation.py`, `task_feasibility.py`, `manual_task_validation.py`, `config_resolver.py`) | none; random runs repeated from their seeds | resolve, validate, start | what was checked starts; what is drawn can be done | `TaskPlanning`, `CraneLayout`, `EpisodeSetup` |
| Desktop shell (`electron/`) | child process, windows, servers | start, activate, close, quit | no process is left behind; each launch is answered | `DesktopShell` |
| Desktop settings, run workspace, local runner, offline labels, reachability report, dataset summary | files, or none | read-modify-write; pure functions | | not modelled (section 8) |
| Prompt texts, schemas, configuration loader, CLI, tensors, pages, 3D scene | none that later steps depend on | parsing, computation, rendering | | not modelled (section 8) |

`PROJECT.json` gives every component with its files and the reason when it is not
modelled.

### Interactions

* The driver of an episode is the API's worker and its stop requests (through
  `ProductionEpisodeRunner.run_one_frame`) or a loop (`run_episode`, for batches and
  the command line). The first finalizes as soon as a call returns a terminal
  status; the second when its loop ends.
* `EpisodeRunner.stop` may come from another thread during a frame: it only sets a
  flag that the next call looks at.
* A frame calls the task system twice: activation before the decisions, update after
  physics. A task failure request becomes a cause of the episode's terminal status.
* The recorder's `last_frame` is read by the event loop when a socket is accepted,
  while broadcasts of older frames may still be queued on it.
* The operators of one frame run on a pool of threads and share nothing but the
  provider; their results are collected in the order of the cranes.
* Recorder, dataset builder and converter are processes that meet in directories:
  nothing but the order in which files are written tells one how far another is.
* The search for a layout, the validate route and the start each draw the tasks of an
  episode; only the seed makes them the same tasks.

### Behaviours that are hard

Exceptions in the middle of a frame; stop, pause and the worker over one lock that is
released between the worker's look at the handle and its frame; recoveries that fail
and are followed by recoveries; three overlapping notions of "done" (`should_stop`,
`update_terminal_status`, the cooldown promotion); sockets that are slow, lost without
a close event, or left while a timer is pending; safety looked at for one frame of a
command that lasts several; run directories recorded again while a dataset is built
from them; a desktop application that awaits a child, a port and a page in turn while
its windows may be closed. The full list, each at its line and
with the property that watches it, is `hazards` in `PROJECT.json`.

## 2. The modules

| Module | What it is | Source |
|---|---|---|
| `LoadCustody` | abstract: jobs, one hook, and how a load may change hands | promise of the task system |
| `TaskLifecycle` | one crane's queue through activation, state machine and timing | `ProductionTaskSystem`, `sim/task_*.py` |
| `EpisodeLog` | abstract: one outcome, a log that ends with it, a certificate that states it | promise of the frame loop |
| `RunnerCalls` | interface: a runner as the service's threads see it | between `FrameLoop` and `EpisodeService` |
| `FrameLoop` | one episode, call by call, under either driver | `scheduler.py`, `production_runner.py`, `recorder.py` |
| `EpisodeControl` | abstract: what clients may rely on about one episode | promise of the service |
| `EpisodeService` | request threads, the worker and the lock, over a `RunnerCalls` runner | `episode_service.py` |
| `LiveStream` | recording thread, event loop, one socket, page and store | `websocket.py`, `ws.ts`, `store.ts` |
| `DecisionRounds` | abstract: a round gives every crane one command, or none any | promise of the operators |
| `OperatorDecision` | batches of decisions on a pool of threads, with retries and sessions | `operator_decision.py`, `llm_provider.py`, `command_parser.py`, `prompt_builder.py` |
| `CraneMotion` | one crane from lever to position | `controller.py`, `physics.py` |
| `OnlineRisk` | hooks, jibs, levels of pairs and collisions | `risk.py`, `collision.py`, `physics.py` |
| `SafetyPipeline` | what stands between a command and the levers | `safety.py` |
| `ControlHints` | what an operator is told, and the stages' geometry | `observation.py`, `task_state_machine.py` |
| `ControlLoop` | the frame that composes the four | `scheduler.py`, adapters of `production_runner.py`, `weather.py` |
| `RunArtifacts` | run directories: recorder and batch runner | `recorder.py`, `batch_runner.py` |
| `DatasetBuild` | the dataset built from them, over an earlier one | `data/` |
| `TrainingConversion` | the samples made from both | `training/` |
| `TaskPlanning` | what a task may be, as three parts of the code say it | `task_generation.py`, `manual_task_validation.py`, `task_feasibility.py` |
| `CraneLayout` | what a layout may be, and where generated cranes stand | `layout.py`, `auto_layout.py` |
| `EpisodeSetup` | resolve, validate and start over them | `auto_layout.py`, `task_generation.py`, `config_resolver.py`, `routes_health.py` |
| `DesktopShell` | the main process of the desktop application, await by await | `electron/main.cjs`, `electron/backend.mjs` |
| `TaskLifecycleProofs`, `FrameLoopProofs`, `EpisodeServiceProofs`, `LiveStreamProofs`, `OperatorDecisionProofs`, `DataPipelineProofs`, `EpisodeSetupProofs`, `DesktopShellProofs` | theorems about the module each is named for; `DataPipelineProofs` about `RunArtifacts`, `DatasetBuild` and `TrainingConversion` together | |
| `MC` and the name of a module | constants and bounds for TLC | |
| `MCWorkbench`, `MCOperatedCranes`, `MCPlannedData` | several components in one run | |

How they compose: `TaskLifecycle` implements `LoadCustody`; `FrameLoop` implements
`EpisodeLog` (for whoever reads the log) and, driven by the API, `RunnerCalls` (for
whoever calls it); `EpisodeService` is built on `RunnerCalls` by `INSTANCE` and
implements `EpisodeControl`. So what the service relies on is checked of the loop
rather than assumed. `LiveStream` starts from the recorded frames only.
`OperatorDecision` implements `DecisionRounds`, which is all `FrameLoop` assumes of a
decision. `ControlLoop` extends `ControlHints`, that `SafetyPipeline`, that
`OnlineRisk` and that `CraneMotion`: one frame with its numbers, where `FrameLoop` has
its calls and their failures; the geometry that `TaskLifecycle` leaves free is in
`ControlHints`. `TrainingConversion` extends `DatasetBuild` and that `RunArtifacts`:
one state of three kinds of process over the same directories. `EpisodeSetup` extends
`CraneLayout` and that `TaskPlanning`.

`MCWorkbench` (desktop shell, live stream, task system), `MCOperatedCranes` (operators,
control) and `MCPlannedData` (setup, data) put components into one state that share no
variable in the code either, or meet in a place another module models. Interleaving
them would multiply states and show nothing: a behaviour is of one component while the
others rest in one state, which is written out in the module (`ShellUp`, `PageLeft`,
`OperatorsRest`, `CranesRest`, `NoSetup`, `NoData`). Each component's own initial states are
all among those of the joint run, and its next-state relation is unchanged.

### TaskLifecycle

A frame is three actions, `phase` saying which is next: `ActivateTask` or
`ActivateNothing` (`activate_due_tasks`), `StepMachine` or `SkipQueue`
(`step_task_state_machine` with the wrapper's update of the queue), and
`HandleTiming` (`handle_task_timing_and_failures` and the wrapper's update after
it), split by verdict into `UnblockQueue`, `FailTask`, `EnterRecovery`,
`AbortEpisode` and `KeepTask`. Two booleans stand for geometry: whether the stage's
own test succeeds (`ok`), and whether the hook moved enough to count as progress
(`moved`); the operator's request is any of the three, in any stage. The runtimes,
dictionaries keyed by task id in the code, are the entry last written together with
its key: a queue works on one task at a time, an entry of another key is never read
again, and a lookup under the wrong key finds nothing, as in the code. A crane's
queue shares nothing with another's, so one queue is the component.

### FrameLoop

`pc` is the next call: `initial`, `weather`, `decide`, `expire`, `physics`, `settle`,
`record`, `broadcast`, `commit` inside `_run_one_frame`; `stop_record` and
`stop_broadcast` for the frame of a stop; `wrap` and `finish` for the production
wrapper and the end of `run_episode`. `Raise` lets any call that reaches another
component fail, keeping what earlier calls changed; the calls outside the `try`
(`StopRaises`, `RecordLateRaises`, `FinalizeRaises`) fail towards the caller, as in
the code. `Terminal` is `update_terminal_status`, `DoneSinceAfter` and `CooldownMet`
the cooldown's two halves, `ShouldStop` the loop's own test. What other components
compute is an outcome: which causes a frame has, whether the tasks are done, how long
a command lasts.

### EpisodeService

One episode id. `pc[c]` is where each request thread is, `worker` where the
background worker is, `lock` who holds `advance_lock`. What is outside the lock in
the code is an action of its own: the two looks at the handle table in
`start_episode`, the two unlocked tests of `_needs_background_worker`,
`runner.stop`, `worker_stop.set()`, the answer. The worker's read of `paused` and
its advance are separate, because the code gives the lock back in between.

### LiveStream

Frames are numbered by their place in the log; what the page compares is
`FrameIndex`, in which the frame of a stop repeats the index before it. `link` is
`dead` when the connection is lost without a close event. A broadcast is in
`pending` until the loop runs it and in `chan` until the page handles it. A send may
wait (`slow`), and one that waits too long takes its socket out of `connections`
while the socket stays open. The page may be opened at any frame of the episode
and be left at any moment.

### OperatorDecision

`StartBatch` asks the due cranes in order; `FreeWorker` says who has a thread of the
pool. A thread's attempt is one action, by its outcome: `AcceptCommand`, `Retry`,
`Fallback`, or `RefuseMessages`, the exception of a message that holds a refused word.
`Transport` lists how a request can end before there is a text; only the error of an answer
that `TokenUsage` or `RawLLMResponse` refuses quotes the answer.
`Deliver` and `RaiseBatch` are the collection in order after the pool has ended. The
replies of a provider are the kinds the parser tells apart, with or without such a
word. A session outlives its batch even when the batch raises.

### ControlLoop and the modules below it

A decision frame takes what the operators ask for through `Allowed` (mechanical limits,
then zones), looks at the risk of what is left, and `Executed` applies the safety mode;
the frame then runs as `RestOfFrame`: expiry, controller, physics, stage, recorded
level, collision. `HeldFrame` is a frame between decisions. `Estimated` is the velocity
that safety and risk look ahead with, which is the lever's share of the model's speed and
not the crane's own; `Desired` comes from another table, the controller's gears. The
instance keeps the proportion of the two as it is in the code: the gears of trolley and
hoist drive half the share, those of the slew more than the model's speed.
`Stepped` keeps the order of `step_crane_state`: velocity, position, bounds, and the
velocity of a bounded axis lost. A turn has eight steps and sines are rounded to -1, 0
and 1, so points are on a grid and every distance is a comparison of squares.

### RunArtifacts, DatasetBuild, TrainingConversion

A file is known by the recording, or the build, that wrote it and by whether it is
whole; its rows follow from how that recording went (`RowsIn`). `Flush` and `Write` write
one file per action in the code's order. A file that breaks off is as it was, or torn
(`BrokenOff`): the logs are written in place, and a table's finished copy is renamed over the
old one or, where that is refused, copied over it. `ConfigTorn` is a configuration that
breaks off when a recording starts, which later makes the episode unreadable.
A build looks at the
run directories three times (`Discover`, `Judge`, `Lay`), a conversion reads the
dataset once and the run directories window by window, in the order of split, episode and
first frame. `Mishap` counts what goes wrong: a
refused row, a file that breaks, a stop by the user, a kill.

### EpisodeSetup

The site is a street: a point is one coordinate and a height, the ring on which
`auto_layout.py` puts cranes is its two ends, and what cranes share is a length. A
generation draws one task after another with the code's rejections (`DrawAuto`,
`DrawTemplate`, `AssignTemplate`, `Complete`). A template's load that is in no table
ends it with a `KeyError`, which the search does not catch (`SearchRaises`). What a
random run draws first is free, and `memory` repeats it to whoever runs with the same
cranes and seed, which is how the search's trial, the validate route and the start can
be compared.

### DesktopShell

Each action is the code from one `await` to the next. `child` is the process and
`tracked` whether the application knows it; the exit event comes some time after the
exit; a child that was never spawned has none (`ChildNotSpawned`). `port` says who
listens, since it is only looked at while it is chosen. Windows are the main and the
failure window of each call of `createMainWindow`.

## 3. The runs

| Run | What it checks |
|---|---|
| `workbench` | the shell: no backend or server left behind, each launch answered. The page: one lifeline, the buffer in order, the newest frame on its way, the end shown. The tasks: custody of the load, the slot, the block, queue order, every timer looked at and a clock for every pending stage, finished tasks stay finished, refinement of `LoadCustody` |
| `frame_loop` | order of the log, current commands, earned completion, the loop's end decided, the episode ends, refinement of `EpisodeLog` and of `RunnerCalls` |
| `episode_service` | an end shown is real, an accepted stop is final, the worker delivers and leaves, refinement of `EpisodeControl` |
| `operated_cranes` | the operators: call records tell a decision's story, refinement of `DecisionRounds`, a batch ends. The cranes: what the pipeline guarantees for the frame it looks at, a crane that is stopped for its risk gains no speed, recorded levels belong to the recorded states, a crane that is led down gets its load |
| `planned_data` | the setup: drawn tasks pass the feasibility check but for two named cases, what was checked starts. The data: the summary is last, the report true, samples sound, splits agree |
| `task_recovery_timeout`, `live_dropped`, `stale_splits`, `pause_slips`, `lost_batch`, `task_only_zones`, `plan_check` | one documented statement each that the code does not keep (section 6) |

Where a passing run checks a contract or a property that was cut to what the code does,
a violating run of the same modules checks the statement it was cut from: `PauseHolds`
beside the `Slip` of `EpisodeControl`, `UnusableIsReplaced` beside the `Lost` of
`DecisionRounds`, `PlansPassTheCheck` beside the two exceptions of `PlannedIsFeasible`,
`TaskOnlyRecords` beside `FirstFrameSafe`, which speaks of hard zones only.

Limits of what the properties say: `NothingLeftBehind` counts a child that was killed and
does not die as known, and does not claim that it goes. `ReportTrue` is about episodes a report
names; after a batch that ended early some are in none. `GuidedAttach` starts at
`lower_for_attach`: in `align_pickup` a rounded hint may leave a crane where it is until the
stage's timeout. `SplitsAgree` compares samples with the build they were made from, not
with one that a new recording would give.

### Bounds, and why they are enough

* Tasks: two ordinary tasks, the first planned for frame 1 with a deadline, the second
  unplanned and without a usable recovery target. Two tasks are what ordering needs, and
  recoveries are appended as they happen, so chains of failing recoveries occur. The
  timeouts (attach 6, release 4, no progress 2, recovery 3 frames) are pairwise
  different and short against the 24 frames of the run, so each of them expires, alone
  and in the order of every other, except the recovery's, which never does (section 6,
  1).
* Frames: frames of two ticks, duration 9, minimum 8, cooldown 4, decision interval 3,
  neutral stops of 2 and commands of 2 or 5 ticks. Minimum, cooldown, neutral stop and
  the short command end on a frame, duration, interval and the long command between
  two, so every comparison is met exactly and missed by a tick. The two cranes decide
  together and their commands may last differently, so one expires while the other lives.
* Service: three request threads (one to start, one to stop, one to pause, or two to
  race in any of these), three frames, two ways to end by itself: completed, and
  the status that a failing worker writes too. Longer episodes repeat the second frame.
* Live stream: four frames, two reconnect attempts, a buffer of two, three faults. The
  buffer overflows, the client gives up, and a fault may follow a successful
  reconnection. Attempts are reset by an open socket as in the code, so the limit on
  faults is a bound of the model, not of the client.

* Operators: three cranes on a pool of two threads, so that one waits while two ask;
  three batches, of all three or of one alone (which takes no pool); one retry, two
  failures in a row end the episode, a history of one. The third batch starts from
  what two others left in the sessions.
* Control: two cranes whose jibs sweep one another. One kind of episode has one crane
  with loads, a hard zone on its ring and every kind of lever, one both cranes at risk in S2
  and S3 under a changing wind, one a crane led through its task under a changing
  visibility. Two frames per decision, so that a command outlives the frame it was
  looked at for. Levers and command sets are a list rather than all: states are reached
  by any sequence of them.
* Data: a batch of one episode, which may run again into its directory, and an episode
  recorded by the server, of one layout with two cranes; two frames each, windows of one
  frame to learn from and one to predict; two recordings, two builds, one conversion,
  one mishap, one table, the frames or the summary breaking, and four recordings and builds
  together (`Few`). Of steps that touch
  nothing of each other's, one order is explored (`OneOrder`): a recorder in memory or at
  a file nobody else reads goes on before any other process does. A second recording
  may so meet a build, and a second build a conversion, at each of its steps.
* Setup: twenty-two configurations, generated and given layouts of one and two cranes,
  every overlap level, coverage and height mode, every task type, manual templates good
  and bad, two of them with a load that no table knows; two attempts of the search (three in
  `plan_check`), one task per crane, three requests, so that a start follows a start and a
  validation.
* Desktop: both platforms, both sources of the page, two activations and two polls: a
  second activation while the first one loads, and a poll after one that failed.

`Duration` in `TaskLifecycle` and `Frames` in `RunnerCalls` are the code's own
duration; `MaxFaults`, `Batches`, `MaxTakes`, `MaxBuilds`, `MaxConversions`,
`MaxMishaps`, `MaxRequests` and `Activations` are bounds of the models alone. No passing run checks
deadlock: an episode ends, a page that gave up stays as it is, an application is closed,
the requests and recordings of an instance are used up. That nothing waits for ever where
it must not is what the liveness properties say.

### Fairness

* `FrameLoop`: weak fairness of the frame's calls and of the driver's next call
  (`Drive \/ Work`). `run_episode` is a loop, the worker calls until the status is
  terminal, and a call that never returns is outside the model. No stop request is
  assumed.
* `EpisodeService`: every thread that has made a request is scheduled. The steps that
  take `advance_lock` have strong fairness: a `threading.Lock` is not fair, but it
  has finitely many waiters and a thread that is released between two acquisitions
  loses the race only finitely often in practice. Without it, requests that take the
  lock again and again could keep the worker out for ever. Nobody has to make a
  request, and a pause may hold the worker for ever.
* `LiveStream`: the episode goes on, the event loop runs its broadcasts and accepts,
  a waiting send ends one way or the other, and the page handles its messages and
  timers. Heartbeats, faults and leaving have no fairness: none of them has to happen.
* `OperatorDecision`: a batch goes on. A provider's call has a timeout, and some thread of
  the pool is scheduled.
* `ControlLoop`: frames of a guided episode follow one another. The weather owes nothing.
* `DesktopShell`: each await of the startup ends: it is a timer, a file, a socket or the
  load of a page. Backend, user and neighbours on the port owe nothing.
* `TaskLifecycle`, `EpisodeSetup` and the data pipeline have safety properties only, and
  no fairness.

## 4. What is proved

The proofs hold for every value of the constants that satisfies the named assumptions of
the modules. Each assumption is what the configuration's own validation, or the code that
sets the constant, establishes:

* `PeriodAssumption` and `CraneAssumption` (`FrameLoop`): a positive frame, duration,
  interval and neutral stop; a minimum, a cooldown and durations of commands that may be
  zero; at least one crane.
* `CountAssumption`, `ScheduleAssumption`, `PeriodAssumption` (`TaskLifecycle`): at
  least one ordinary task, times and timeouts that are natural numbers, zero included.
  `EndsAssumption`, `FramesAssumption`, `ThreadAssumption` (`EpisodeService`): a thread
  or an outcome is not also the name of a state of the lock or of a status.
* `LiveAssumption`: a log of at least one frame after its first, and positive limits.
* `SizesAssumption`, `DueAssumption`, `OrderAssumption` (`OperatorDecision`): a pool of one
  thread at least, one failure at least before the episode ends, batches that are not
  empty, and `Order`, the cranes' order, which names each crane once.
* `RunAssumption`, `BuildAssumption`: a plan that is a sequence of episodes, each with a
  crane; windows of at least one frame on either side.
* `UnitAssumption`, `CapacityAssumption`, `SiteAssumption`, `SetupBounds`: weights rounded to
  an odd unit, so that no weight lies half-way, a load chart with an integer for each
  radius, sites whose two modes are booleans. Zones, boundaries, loads and layouts are
  arbitrary.
* `OpenersAssumption` and `PollsAssumption` (`DesktopShell`): the startup is not an
  activation, and "no window" is not the name of an opener.

Every module below proves its inductive invariant (initial states satisfy it, each action
keeps it), and reads the properties off it. All these invariants were checked by TLC on the
instances of section 3 before they were proved.

### `TaskLifecycleProofs`

* `TypeCorrect`: `TypeOK`, for any queue, schedule and timeouts. It needs one more
  fact, that the task the timing step works on is in the queue.
* `QueueInvariant`: the inductive invariant `IInv`. Custody, the slot, the block and
  the order of the queue are not inductive alone. The block is cleared one action
  after a recovery completes, so `TimingTask` follows the task between the two;
  `RecoveryStages` says a recovery lives only in stages with the load on the hook,
  which is why a failing recovery is never failed unloaded; `Frontier` says
  `next_task_index` is the first pending ordinary task, recoveries behind it
  notwithstanding; `AbortStops` that nothing follows an abort.
* From it: `CustodyHolds`, `SlotHolds`, `NeverStuck` and `InOrder`.
* Every step from a state of `IInv` has one of seven effects on the statuses, the slot
  and the hook (`StepEffect`). `HistoryStands` (finished tasks stay finished) and
  `TaskSystemImplementsCustody`, the refinement of `LoadCustody`, are read off them.
* `StagesAreBounded`: no stage runs on beyond its timeouts. The bound is on timers that
  are kept under a task's id, so the invariant gains `ClockInv`: each pending stage has
  the timer its timeout is measured from, under the id it is looked up with, and no timer
  is of the future.

### `FrameLoopProofs`

* `FrameInvariant`: `TypeOK`, and five parts. `PhaseInv` says in which calls the status
  may be over; `LogInv` and `LengthInv` how the log's length follows from the frame and
  the call, with an initial frame that may be missing after an exception; `CommandInv`
  that a command in the store is of the crane's last decision, or is a neutral stop
  issued since; `VerdictInv` what the verdict of the frame rests on between the call
  that settles it and the one that records it; `ClosedInv` that only what is over is
  finalized, and by the API only what has a log.
* From it: `LogIsInOrder`, `CommandsAreCurrent`, `CompletionIsEarned`, `LoopIsDecided`.
  The proof of the third showed a case the instances do not have: with a cooldown of
  zero, completion follows in the frame that first sees the tasks done, so the invariant
  must also say that the cooldown's start is never later than the time being settled.
* `LoopImplementsContract` and `LoopImplementsCalls`: each step is a step of `EpisodeLog`,
  and of `RunnerCalls`, or a stutter. The second is what `EpisodeServiceProofs` builds on,
  so the two proofs join.

### `EpisodeServiceProofs`

* `ServiceInvariant`: the inductive invariant `IInv`. `LockHeld` says that the lock is
  held exactly while the runner is in a call, and by whom; `RunnerSane` that a frame
  runs only in a live episode and that the worker fails only at the end of one;
  `StopKnows` what a stop has established at each of its steps: the runner was asked,
  so the advance that follows cannot be a frame and leaves an end; `Registered` that
  one request registered the handle and the worker starts after it; `OneSlip` that
  once a frame slipped through a pause nobody is left who would run another.
* From it: `ServiceTypeCorrect`, `EndsAreReal`, `StopsAreFinal`, and
  `ServiceImplementsControl`, the refinement of `EpisodeControl` step by step, for any
  number of clients and frames.

### `LiveStreamProofs`

* `LiveInvariant`: the newest frame may be in the log, in the loop's queue, on the socket
  or on the page, and which it is depends on the phase of the connection. `LifeInv` says
  which of socket and timers there are in each phase; `QueueInv` that the loop's queue
  ends with the newest frame handed over; `StreamInv` that a member of the broadcasts has
  on its socket, or shows, the newest frame that left the queue, and that the hello comes
  before its frames.
* From it: `LifelineHolds`, `BufferStaysInOrder` and `NewestArrives`, for a log, a buffer
  and a number of attempts and faults of any size.

### `OperatorDecisionProofs`

* `DecisionInvariant`: `BatchInv` says which phases a job has in which phase of its batch;
  `StoryInv` what a job's records, its attempt and the error to be told have to do with each
  other; `CountInv` that a session's counter is the length of the run of neutral stops at
  the end of all its crane decided, the decision it waits with included. The last is what
  makes the threads' order irrelevant: a counter moves when its thread is done, the
  command is delivered later.
* From it: `RecordsAreTrue`, and `DecisionsAreRounds`, the refinement of `DecisionRounds`:
  the batch that ends the episode is the one in which some crane's run reaches the limit.

### `DataPipelineProofs`

* `PipelineInvariant`, over recorder, batch runner, builder and converter at once. `RunInv`
  gives each file of a directory a recording it can be of, follows the order in which
  `finalize` comes past the files, and says what the report has been told; `FoundInv` what
  a build that has looked knows; `BuiltInv` and `ConversionInv` the same of the index and of a
  conversion that has read it, while either may be overtaken by another recording or build.
* From it: `SummaryComesLast`, `ReportIsTrue`, `SamplesAreSound`, `SampleSplitsAgree`. That a
  sample has each crane once in each frame needs that a window spans two frames at least
  (`BuildAssumption`): only the last frame of a recording may be doubled or short, so
  the first of two frames that follow one another has every crane.

### `EpisodeSetupProofs`

* `SetupInvariant`: a run of the generation is a function of the cranes and the seed it is
  made with, because the run under way agrees with whatever `memory` holds of it
  (`MemoryInv`), an accepted validation leaves a resolved layout and a run that ended well
  (`AnswersInv`), and each task drawn so far satisfies the part of the feasibility check that
  its own draw established (`DrawnInv`).
* From it: `DrawnTasksFit` and `CheckedStarts`. The first rests on a lemma on one draw, for
  every site and load; it states the two exceptions section 7 names. The proof also
  showed that a load of a template which is in no table raises instead of being refused:
  the model has it now, and its instance two such configurations.

### `DesktopShellProofs`

* `ShellInvariant`: that nothing is left behind is not inductive. What each `await` of the
  startup may rely on is: whether the backend was spawned and is tracked, which
  windows can be open, which renderer server is listening, and what a quit in between
  has done. In particular whoever quits before the backend is spawned has no window yet.
* From it: `NothingIsLeftBehind`, for any number of activations and polls.

### Only model-checked

* `FirstFrameSafe`, `RiskyNeverGains` and `RecordedRiskCurrent` of `ControlLoop`. The first
  holds of the instance's tables and not of all: the pipeline predicts with another speed
  table than the controller drives with, which for the slew is the faster one, and looks
  at samples of a segment (section 7), so a theorem would need an assumption that the code
  does not establish. The other two are planned (section 5).
* Liveness under fairness, which the prover cannot reach: `EpisodeEnds`, `WorkerDelivers`,
  `CatchesUp`, `BatchEnds`, `GuidedAttach`, `LaunchAnswered`. So is everything with `ENABLED`:
  refinements are proved for the safety part of a specification, without its fairness.
* What a recursive function or a fold over sequences computes for every input. The proofs use
  only what follows from the definitions without induction.

## 5. Plan

The models were written in this order: the task system, because everything an episode
produces depends on it; the loop that calls it; the service that calls the loop; the
stream that shows it; then what a frame computes and who decides; the files a run
leaves; the configuration it starts from; the application around it. What is left is
proof, of `ControlLoop`:

1. `RecordedRiskCurrent`: a type invariant for `states` and `orders` over all axes, and what
   a decision frame and a held frame each record.
2. `RiskyNeverGains`: that a crane at risk in S3 gets neutral levers, and a lemma on
   `Smoothed` and `Approach`, that with a neutral lever speed never grows, for every table.
3. The part of `FirstFrameSafe` that holds for every table: a crane at rest inside a hard
   zone is kept at rest there.

## 6. Where code and documents disagree

Each has a run that exhibits it; `findings` in `PROJECT.json` quotes the line.

1. A recovery's timeout never fires: its start is stored under the failed task's id
   (`production_runner.py:350`, run `task_recovery_timeout`).
2. A page that was slow once stays connected without getting frames
   (`websocket.py:122`, run `live_dropped`).
3. A rebuild leaves the file of a split that has become empty
   (`dataset_builder.py:177`, run `stale_splits`).
4. One frame may run after a pause was accepted (`episode_service.py:287`, run
   `pause_slips`); `EpisodeControl` states, and a theorem proves, that it is at most one.
5. An unusable answer that holds a word such as token makes the retry's own message
   invalid, and the batch raises where a retry and then a neutral stop are promised
   (`operator_decision.py:55`, run `lost_batch`).
6. `_hard_or_default_policy` makes `task_only` zones hard at run time, where its own comment
   and the documents say record only (`production_runner.py:886`, run `task_only_zones`).
7. The feasibility check the design asks for as a last step of generation is called by
   nothing. The weight limit may be exceeded by the rounding, and a hook may hang in a
   forbidden zone whose heights exclude the surface (`task_generation.py:408`, run
   `plan_check`); `PlannedIsFeasible` and its theorem say that these two are all.

## 7. Observations

Read in the code while it was modelled; the models keep each of them, and no run states
them as a property.

Tasks and frames:

* The delay between tasks is never applied: completion clears the slot without
  `complete_active_task`, which sets `ready_after_s` (`production_runner.py:328`).
* A task that completes in the frame its deadline passes is stored as on time
  (`task_failure.py:215`).
* An episode whose cooldown is met exactly at its duration is a timeout
  (`scheduler.py:915`; `docs/moduleJ/overview.md:250` asks for the opposite).
* An exception in physics leaves no terminal event and no terminal frame in the log
  (`scheduler.py:193`).

Control:

* A hard zone is looked at one frame ahead and the command lasts longer: the hook enters
  in a later frame and nothing is marked (`safety.py:297`).
* Safety and risk look ahead with the speed a lever asks for, not with the crane's own.
* S2 halves the gear's speed, and for the slew half of it is still above the model's
  maximum: the crane is not slowed, while its command is recorded as limited
  (`controller.py:192`). S2 and S3 mark neutral commands as modified, too.
* An intervention is logged once for each frame its command lasts; the scheduler never
  hands interventions to `record_step`.
* An operator who lowers his hook before it is aligned, as his hints say, stays in
  `align_pickup`: that stage needs the hook above, and its hints are neutral
  (`task_state_machine.py:82`).

Data:

* The default quality gate asks for `replay/command_replay.jsonl`, which the recorder
  never writes: with the defaults every recorded episode is quarantined. The model's gate
  does not ask for it.
* An episode stopped by its user has every crane twice in its last frame and passes the
  gate, which counts in a set (`quality.py:184`); the converter skips its windows.
* `write_offline_labels` has no caller in production, so a strict conversion of an
  episode with two cranes fails; `_has_offline_labels` looks at column names only.
* A torn `episode_summary.json` makes `discover_episodes` raise for the whole build; an
  episode recorded again shows both recordings while it is finalized.
* The times of windows are frame numbers; `split_counts` of the summary counts windows; a
  dataset without windows is refused by its reader; with one layout held out and no
  other, train is empty.
* `docs/moduleO/task05_split_planner.md:82` asks for an error or a warning when
  `holdout.unseen_layout` has no layout of its own to hold out; `splits.py:55` gives neither.
  The planner is a pure function and the warning would be a word in a report, so this is
  stated without a run.
* A batch that may not go on after a failed episode writes no report (`batch_runner.py:82`).

Setup:

* A zone with an empty `load_types` is sampled as one for all loads and validated as one
  for none; a zone that is neither box nor polygon is never sampled, though its centre is
  promised; an unknown load type of a template raises a `KeyError` before it is refused,
  in the search for a layout as well.
* The validate route does not try generated tasks of a given layout out.
* A template gives a crane up after one height and weight that do not fit.
* Staggered heights of two cranes are three metres apart where six are asked for: the
  search uses up its attempts and takes the best it saw.

Desktop:

* Whoever answers `/health` on the port passes for the backend, and the exit of the child
  is not looked at while it is waited for.
* On macOS, a window closed while its page loads ends in a failure window and a healthy
  backend stopped; a later activation says that the backend is not running.

## 8. Not modelled

* Floating-point values: dynamics, distances and predictions are on a grid. Whatever
  depends on rounding of small differences is out of TLC's reach.
* Wording of prompts and views of neighbours and risks for an operator: his commands are
  free in the model (but for the hints he may follow).
* The seeded weather timeline, planned times and deadlines of generated tasks: free
  choices or constants.
* Desktop settings and run workspace: read-modify-write of one file through a fixed
  temporary name, and the choice of a directory's name. Both are listed as hazards.
* The local runner: `FrameLoop` with adapters that return constants.
* Offline labels, reachability report, dataset summary, task events: pure functions whose
  results are reports.
* Tensors and features, configuration parsing, hashing and secrets, command line, pages,
  replay clock, three.js scene: no state that a later step depends on.
* A second crane in `TaskLifecycle`, a second page in `LiveStream`, a second episode in
  `EpisodeService`: they share no state the modelled steps change.
* A crash of the server during a live episode, in `FrameLoop`: nothing of a running
  episode is persisted before finalize, and no code reads a half-written run back to
  continue it. What a kill leaves in the directories is in `RunArtifacts`.
* Operations without a caller in the production code (`replace_pending_tasks`,
  `complete_active_task`).
