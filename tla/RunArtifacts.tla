------------------------------ MODULE RunArtifacts ------------------------------
(***************************************************************************)
(* The run directories of recorded episodes: the recorder (recorder.py) that   *)
(* gathers rows in memory, one frame after another, and writes its files when   *)
(* the episode ends, under the batch runner (batch_runner.py) that records the   *)
(* planned episodes one by one and reports on them, or under the server.       *)
(*                                                                          *)
(* A take is one recording.  A file is known by the take that wrote it, and what *)
(* its rows are follows from the take.  An episode recorded again, by the same   *)
(* batch run once more, has the same directory.                                *)
(***************************************************************************)
EXTENDS Integers, Sequences, FiniteSets

CONSTANTS
    Plan,          \* the sequence of episodes a batch records
    Served,        \* the episodes recorded by the server, each once
    CraneCount,    \* the cranes of an episode's configuration
    MayBeRisky,    \* the episodes with high risks in some recordings
    MaxFrame,      \* bound: the last frame of an episode
    MaxTakes,      \* bound: the recordings of a behaviour
    MaxMishaps,    \* bound: failures, kills and stops of a behaviour
    Refusable,     \* the writers whose rows may not validate
    Breakable      \* the files that may not get written

Episodes == {Plan[i] : i \in DOMAIN Plan} \cup Served

ASSUME RunAssumption == /\ MaxFrame \in Nat /\ MaxTakes \in Nat /\ MaxMishaps \in Nat
                        /\ Plan \in Seq(Episodes) /\ CraneCount \in [Episodes -> Nat \ {0}]

Tables == <<"trajectories", "pair_risks", "graph_edges", "tasks", "weather">>
Logs == <<"observations", "decisions", "commands", "interventions", "events">>
Writers == Tables \o Logs
Visuals == <<"frames", "manifest">>
Summaries == <<"summary", "metadata">>

(* Mutant: the summary is written where it is built. *)
SummaryFirst == Summaries \o Writers \o Visuals

(* The files of finalize, in the order they are written. *)
FlushOrder == Writers \o Visuals \o Summaries
Roles == {FlushOrder[i] : i \in DOMAIN FlushOrder} \cup {"config"}

VARIABLES
    taken,      \* the recordings, the last one perhaps under way
    dirs,       \* by episode and role, the take in the file and whether it is whole
    phase,      \* of the recorder: "idle", "recording" or "flushing"
    next,       \* position in FlushOrder
    batch,      \* is a batch running?
    plan,       \* the episodes it has still to record
    entries,    \* report_episodes: the take of a completed one, 0 for a failed one
    report,     \* generation_report.json
    mishaps

recorder == <<taken, dirs, phase, next>>
batchRun == <<batch, plan, entries, report>>
runVars == <<recorder, batchRun, mishaps>>

Absent == [take |-> 0, whole |-> FALSE]
NoEntries == [e \in {} |-> 0]

RunInit ==
    /\ taken = <<>>
    /\ dirs = [e \in Episodes |-> [r \in Roles |-> Absent]]
    /\ phase = "idle" /\ next = 1
    /\ batch = FALSE /\ plan = <<>> /\ entries = NoEntries /\ report = NoEntries
    /\ mishaps = 0

Current == Len(taken)
Episode == taken[Current].episode

(***************************************************************************)
(* The rows one frame gives each writer, for n cranes; of the tasks, the weather   *)
(* and the logs only that there are some matters.                              *)
(***************************************************************************)
CraneRows(n) == n
PairRows(n) == (n * (n - 1)) \div 2
EdgeRows(n) == 2 * PairRows(n)
StateRows == 1
EntryRows == 1
CommandRows == 1

FrameRows(n) == [w \in {Writers[i] : i \in DOMAIN Writers} |->
    CASE w = "trajectories" -> CraneRows(n)
      [] w = "pair_risks" -> PairRows(n)
      [] w = "graph_edges" -> EdgeRows(n)
      [] w \in {"tasks", "weather"} -> StateRows
      [] w \in {"observations", "decisions", "events"} -> EntryRows
      [] w \in {"commands", "interventions"} -> CommandRows]

(* The frame a stop records again comes with no online risk. *)
StopRows(n) == [FrameRows(n) EXCEPT !["pair_risks"] = 0, !["graph_edges"] = 0]

(***************************************************************************)
(* The rows of a frame in a table of a take.  Frames up to last are whole; one   *)
(* more, the extra one, reached only the first writers, the number of which is   *)
(* upto, and left held rows in the writer that refused.                        *)
(***************************************************************************)
RowsIn(t, w, f) ==
    LET rows == IF t.extra = t.last THEN StopRows(CraneCount[t.episode])
                                    ELSE FrameRows(CraneCount[t.episode])
        place == CHOOSE i \in DOMAIN Writers : Writers[i] = w
    IN  (IF f \in 0 .. t.last THEN FrameRows(CraneCount[t.episode])[w] ELSE 0)
        + (IF f # t.extra THEN 0
           ELSE IF place <= t.upto THEN rows[w]
           ELSE IF place = t.upto + 1 THEN t.held ELSE 0)

FramesIn(t, w) == {f \in 0 .. MaxFrame : RowsIn(t, w, f) > 0}

(* build_episode_manifest and build_episode_summary, from what is in memory. *)
FrameCount(t) == (IF t.last < 0 THEN 0 ELSE t.last) + 1
CountedCranes(t) == IF t.last < 0 THEN 0 ELSE CraneCount[t.episode]

Mishap == mishaps < MaxMishaps /\ mishaps' = mishaps + 1

(* The frame before the first is -1, and no frame is the extra one at -2. *)
NewTake(e, risky) == [episode |-> e, last |-> -1, extra |-> -2, upto |-> 0,
                      held |-> 0, risky |-> risky]

(***************************************************************************)
(* _ensure_started, init_run_directory: the configuration and the metadata are    *)
(* written over, what else an earlier take left stays.                         *)
(***************************************************************************)
Started(e) ==
    /\ phase = "idle" /\ Current < MaxTakes
    /\ \E risky \in {FALSE, (e \in MayBeRisky)} : taken' = Append(taken, NewTake(e, risky))
    /\ dirs' = [dirs EXCEPT ![e]["config"] = [take |-> Current + 1, whole |-> TRUE],
                            ![e]["metadata"] = [take |-> Current + 1, whole |-> TRUE]]
    /\ phase' = "recording" /\ next' = 1

(* resolved_config.yaml breaks off: the take ends before its first frame. *)
ConfigTorn(e) ==
    /\ Current < MaxTakes
    /\ taken' = Append(taken, NewTake(e, FALSE))
    /\ dirs' = [dirs EXCEPT ![e]["config"] = [take |-> Current + 1, whole |-> FALSE]]
    /\ UNCHANGED <<phase, next>>

Serve ==
    \E e \in Served :
        /\ \A i \in DOMAIN taken : taken[i].episode # e
        /\ Started(e)
        /\ UNCHANGED <<batchRun, mishaps>>

(* BatchEpisodeRunner.run *)
StartBatch ==
    /\ ~batch /\ phase = "idle" /\ Current < MaxTakes
    /\ batch' = TRUE /\ plan' = Plan /\ entries' = NoEntries
    /\ UNCHANGED <<recorder, report, mishaps>>

NextEpisode ==
    /\ batch /\ plan # <<>> /\ Started(Head(plan))
    /\ plan' = Tail(plan)
    /\ UNCHANGED <<batch, entries, report, mishaps>>

Entered(e, take) == [d \in DOMAIN entries \cup {e} |-> IF d = e THEN take ELSE entries[d]]

(* With continue_on_episode_failure off the batch ends there, without a report. *)
EpisodeFails(e, rest) ==
    /\ entries' = Entered(e, 0)
    /\ \E continue \in BOOLEAN :
        IF continue THEN plan' = rest /\ UNCHANGED batch
        ELSE plan' = <<>> /\ batch' = FALSE
    /\ UNCHANGED report

(* Its configuration does not load or resolve, or its directory cannot be made. *)
EpisodeNotStarted ==
    /\ batch /\ plan # <<>> /\ phase = "idle" /\ Mishap
    /\ EpisodeFails(Head(plan), Tail(plan))
    /\ UNCHANGED recorder \/ ConfigTorn(Head(plan))

Recording == phase = "recording"
Update(t) == taken' = [taken EXCEPT ![Current] = t]
Finalize == phase' = "flushing" /\ next' = 1

RecordFrame ==
    /\ Recording /\ taken[Current].last < MaxFrame
    /\ Update([taken[Current] EXCEPT !.last = @ + 1])
    /\ UNCHANGED <<dirs, phase, next, batchRun, mishaps>>

(* The episode has come to its end. *)
EndEpisode ==
    /\ Recording /\ taken[Current].last >= 0
    /\ Finalize
    /\ UNCHANGED <<taken, dirs, batchRun, mishaps>>

(***************************************************************************)
(* A row of the next frame does not validate, or carries a secret.  The writers  *)
(* before this one keep the frame's rows, this one the rows before the row; the   *)
(* frame fails, with it the episode, which is finalized.                        *)
(***************************************************************************)
FrameRefused ==
    /\ Recording /\ taken[Current].last < MaxFrame /\ Mishap
    /\ \E i \in DOMAIN Writers :
        /\ Writers[i] \in Refusable
        /\ \E held \in 0 .. FrameRows(CraneCount[Episode])[Writers[i]] - 1 :
            Update([taken[Current] EXCEPT !.extra = taken[Current].last + 1,
                                          !.upto = i - 1, !.held = held])
    /\ Finalize
    /\ UNCHANGED <<dirs, batchRun>>

(* stop: the last frame is recorded again; before the first, the first one. *)
Stopped ==
    /\ Recording /\ Episode \in Served /\ Mishap
    /\ Update(IF taken[Current].last < 0 THEN [taken[Current] EXCEPT !.last = 0]
              ELSE [taken[Current] EXCEPT !.extra = taken[Current].last, !.upto = Len(Writers)])
    /\ Finalize
    /\ UNCHANGED <<dirs, batchRun>>

InBatch == batch /\ Episode \notin Served

Flushing == phase = "flushing" /\ next \in DOMAIN FlushOrder

(* VisualFrameWriter.flush leaves the file alone when it has no frame. *)
Written(r) == r # "frames" \/ taken[Current].last >= 0

Flush ==
    /\ Flushing
    /\ dirs' = [dirs EXCEPT ![Episode][FlushOrder[next]] =
                    IF Written(FlushOrder[next]) THEN [take |-> Current, whole |-> TRUE] ELSE @]
    /\ next' = next + 1
    /\ UNCHANGED <<taken, phase, batchRun, mishaps>>

Finalized ==
    /\ phase = "flushing" /\ next = Len(FlushOrder) + 1
    /\ phase' = "idle"
    /\ entries' = IF InBatch THEN Entered(Episode, Current) ELSE entries
    /\ UNCHANGED <<taken, dirs, next, batch, plan, report, mishaps>>

(***************************************************************************)
(* The directories after a file that broke off: as they were, or with the part    *)
(* that got written.  A table is replaced by a finished copy, or, when the file    *)
(* may not be replaced, copied over it in place as the other files are written.    *)
(***************************************************************************)
Torn == [take |-> Current, whole |-> FALSE]

BrokenOff ==
    IF Flushing /\ FlushOrder[next] \in Breakable /\ Written(FlushOrder[next])
    THEN {dirs, [dirs EXCEPT ![Episode][FlushOrder[next]] = Torn]} ELSE {dirs}

(* Mutant: the error of a file is swallowed, and the rest is written. *)
FlushGoesOn ==
    /\ Flushing /\ FlushOrder[next] \in Breakable /\ Mishap
    /\ next' = next + 1
    /\ UNCHANGED <<taken, dirs, phase, batchRun>>

FlushFails ==
    /\ Flushing /\ FlushOrder[next] \in Breakable /\ Written(FlushOrder[next]) /\ Mishap
    /\ dirs' \in BrokenOff
    /\ phase' = "idle"
    /\ IF InBatch THEN EpisodeFails(Episode, plan) ELSE UNCHANGED batchRun
    /\ UNCHANGED <<taken, next>>

WriteReport ==
    /\ batch /\ plan = <<>> /\ phase = "idle"
    /\ report' = entries /\ batch' = FALSE
    /\ UNCHANGED <<recorder, plan, entries, mishaps>>

(* The process that records, or the one that runs the batch, is killed. *)
Killed ==
    /\ batch \/ phase # "idle"
    /\ Mishap
    /\ dirs' \in BrokenOff
    /\ phase' = "idle"
    /\ IF phase = "idle" \/ InBatch THEN batch' = FALSE /\ plan' = <<>>
       ELSE UNCHANGED <<batch, plan>>
    /\ UNCHANGED <<taken, next, entries, report>>

RunNext ==
    \/ Serve \/ StartBatch \/ NextEpisode \/ EpisodeNotStarted
    \/ RecordFrame \/ EndEpisode \/ FrameRefused \/ Stopped
    \/ Flush \/ Finalized \/ FlushFails \/ WriteReport \/ Killed

(***************************************************************************)
(* A directory with a summary, which is what the catalog goes by, has every file  *)
(* of the summary's take or of a later one: a failure or a kill in the middle of  *)
(* finalize leaves no directory that counts as an episode for the first time.     *)
(* Only the frames are missing when not one was recorded.                       *)
(***************************************************************************)
SummaryIsLast ==
    \A e \in Episodes, r \in Roles \ {"frames"} :
        dirs[e][r].take >= dirs[e]["summary"].take

(***************************************************************************)
(* What the report of a batch calls completed has a directory that holds the      *)
(* whole of that recording and nothing of another, until it is recorded again.    *)
(* Its frames may be missing, or another's, when it has none.                    *)
(***************************************************************************)
ReportTrue ==
    \A e \in DOMAIN report :
        LET k == report[e] IN
        (k > 0 /\ \A i \in k + 1 .. Current : taken[i].episode # e) =>
            \A r \in Roles : r # "frames" \/ taken[k].last >= 0 =>
                dirs[e][r] = [take |-> k, whole |-> TRUE]
================================================================================
