------------------------------ MODULE DatasetBuild ------------------------------
(***************************************************************************)
(* The dataset built from the run directories: catalog.py finds the episodes,    *)
(* quality.py judges them, splits.py assigns them, window_index.py cuts them    *)
(* into windows and dataset_builder.py writes the dataset directory, over what   *)
(* an earlier build left there.  A build reads the directories in three steps,    *)
(* between which they may be recorded again.                                   *)
(*                                                                          *)
(* A file of the dataset is known by the build that wrote it.                   *)
(***************************************************************************)
EXTENDS RunArtifacts, SequencesExt

CONSTANTS
    Order,          \* the episodes by scenario, layout and id; the ids go up with it
    Layout,         \* layout_hash, by episode
    TrainPercent, ValPercent,
    HoldLayout, HoldCranes,    \* split.holdout.unseen_layout, unseen_num_cranes
    InputSteps, PredSteps, Stride,
    NegativesPerPositive,      \* of sampling; -1 when it is off
    RequireReplay,  \* of the quality gate
    MaxBuilds       \* bound: the builds of a behaviour

ASSUME BuildAssumption == /\ InputSteps \in Nat \ {0} /\ PredSteps \in Nat \ {0}
                          /\ Stride \in Nat \ {0} /\ MaxBuilds \in Nat

Splits == {"train", "val", "test", "test_high_risk", "test_unseen_layout",
           "test_unseen_num_cranes"}

DatasetFiles == <<"dataset_summary", "dataset_manifest", "quality_summary", "split_manifest",
                  "episodes", "windows", "files", "splits", "quarantine">>

VARIABLES
    stage,      \* of the build: "idle", "found", "judged" or "writing"
    found,      \* the catalog's records, by episode
    verdict,    \* quality_report.json, by episode
    built,      \* what each build has to write
    writing,    \* position in DatasetFiles
    dataset,    \* by file, the build that wrote it and whether it is whole
    splitFiles, \* splits/<split>/episodes.jsonl, by split
    quarantine  \* quarantine/<episode>/quality_report.json

building == <<stage, found, verdict, built, writing, dataset, splitFiles, quarantine>>
buildVars == <<runVars, building>>

NoFile == [build |-> 0, whole |-> FALSE]
NoRecords == [e \in {} |-> 0]
FileNames == {DatasetFiles[i] : i \in DOMAIN DatasetFiles}

BuildInit ==
    /\ RunInit
    /\ stage = "idle" /\ found = NoRecords /\ writing = 1 /\ built = <<>>
    /\ verdict = [e \in Episodes |-> "none"]
    /\ dataset = [f \in FileNames |-> NoFile]
    /\ splitFiles = [s \in Splits |-> {}]
    /\ quarantine = {}

TakeIn(e, r) == taken[dirs[e][r].take]
Exists(e, r) == dirs[e][r].take > 0

(***************************************************************************)
(* DatasetCatalog: a directory is an episode by its summary; the frames are       *)
(* counted by the manifest, the cranes by the summary.                         *)
(***************************************************************************)
Listed == {e \in Episodes : Exists(e, "summary")}

ParsesIfThere(e, r) == Exists(e, r) => dirs[e][r].whole

\* A configuration that breaks off where it still parses is another layout at most.
Readable(e) ==
    dirs[e]["summary"].whole /\ ParsesIfThere(e, "manifest") /\ ParsesIfThere(e, "config")

\* The high-risk rows of a risky take are those of its last frame.
Record(e) == [count |-> IF Exists(e, "manifest") THEN FrameCount(TakeIn(e, "manifest")) ELSE 0,
              cranes |-> CountedCranes(TakeIn(e, "summary")),
              risky |-> TakeIn(e, "summary").risky /\ CraneCount[e] > 1,
              files |-> {r \in Roles : Exists(e, r)}]

Discover ==
    /\ stage = "idle" /\ Len(built) < MaxBuilds
    /\ \A e \in Listed : Readable(e)
    /\ found' = [e \in Listed |-> Record(e)]
    /\ stage' = "found"
    /\ UNCHANGED <<verdict, built, writing, dataset, splitFiles, quarantine>>

(***************************************************************************)
(* DatasetQualityGate.  A table without rows is not looked at any further.        *)
(***************************************************************************)
Covers(e, w, count) == FramesIn(TakeIn(e, w), w) = 0 .. count - 1
NoRows(e, w) == FramesIn(TakeIn(e, w), w) = {}

CranesIn(t, f) == Min({RowsIn(t, "trajectories", f), CraneCount[t.episode]})

TrajectoriesComplete(e, record) ==
    /\ Covers(e, "trajectories", record.count)
    /\ \A f \in 0 .. record.count - 1 :   \* the different cranes are counted, not the rows
        CranesIn(TakeIn(e, "trajectories"), f) = record.cranes

PairsComplete(e, record) ==
    /\ Covers(e, "pair_risks", record.count)
    /\ \A f \in 0 .. record.count - 1 :
        RowsIn(TakeIn(e, "pair_risks"), "pair_risks", f) = PairRows(record.cranes)

WeatherComplete(e, record) == Covers(e, "weather", record.count)

RequiredFiles == {Tables[i] : i \in DOMAIN Tables} \cup {"summary", "manifest"}

Passes(e, record) ==
    /\ RequiredFiles \subseteq record.files
    /\ \A i \in DOMAIN Tables : ParsesIfThere(e, Tables[i])
    /\ NoRows(e, "trajectories") \/ TrajectoriesComplete(e, record)
    /\ NoRows(e, "pair_risks") \/ PairsComplete(e, record)
    /\ NoRows(e, "weather") \/ WeatherComplete(e, record)
    /\ Exists(e, "events") /\ ParsesIfThere(e, "events")
    /\ ~RequireReplay    \* the recorder writes no replay/command_replay.jsonl
    /\ ParsesIfThere(e, "observations") /\ ParsesIfThere(e, "frames")

(* With fail_on_quality_error one failed episode is the end of the build. *)
Judge ==
    /\ stage = "found"
    /\ verdict' = [e \in Episodes |-> IF e \notin DOMAIN found THEN verdict[e]
                                      ELSE IF Passes(e, found[e]) THEN "passed" ELSE "failed"]
    /\ \E failFast \in BOOLEAN :
        LET statuses == {verdict'[e] : e \in DOMAIN found}
        IN  stage' = IF "passed" \in statuses /\ ~(failFast /\ "failed" \in statuses)
                     THEN "judged" ELSE "idle"
    /\ UNCHANGED <<found, built, writing, dataset, splitFiles, quarantine>>

At(e) == CHOOSE i \in DOMAIN Order : Order[i] = e

(* _episode_sort_key: the counted cranes come before the id. *)
Ahead(d, e) == IF Layout[d] = Layout[e] /\ found[d].cranes # found[e].cranes
               THEN found[d].cranes < found[e].cranes ELSE At(d) < At(e)
Ranked(S) == SetToSortSeq(S, Ahead)

(* DatasetSplitPlanner.  The highest ratio of high-risk rows, then the greatest id. *)
HighRisk(S) ==
    LET risky == {e \in S : found[e].risky}
        Before(d, e) == \/ found[d].count > found[e].count
                        \/ found[d].count = found[e].count /\ At(d) <= At(e)
    IN  {e \in risky : \A d \in risky : Before(d, e)}

FirstOf(S) == {e \in S : \A d \in S \ {e} : Ahead(e, d)}

UnseenLayout(S) ==
    IF HoldLayout THEN FirstOf({e \in S : \A d \in S \ {e} : Layout[d] # Layout[e]}) ELSE {}

UnseenCranes(S) ==
    IF HoldCranes THEN FirstOf({e \in S : \A d \in S \ {e} : found[d].cranes # found[e].cranes})
    ELSE {}

\* round() of n * percent / 100, to the even one of two as near.
Share(n, percent) ==
    LET down == (n * percent) \div 100
        rest == (n * percent) % 100
    IN  IF rest > 50 \/ (rest = 50 /\ down % 2 = 1) THEN down + 1 ELSE down

BaseSplit(n, i) ==
    LET train == Max({1, Share(n, TrainPercent)})
        val == IF train + Share(n, ValPercent) > n THEN Max({0, n - train})
               ELSE Share(n, ValPercent)
    IN  IF i <= train THEN "train" ELSE IF i <= train + val THEN "val" ELSE "test"

Assigned(passed) ==
    LET risk == HighRisk(passed)
        layout == UnseenLayout(passed \ risk)
        cranes == UnseenCranes(passed \ (risk \cup layout))
        base == Ranked(passed \ (risk \cup layout \cup cranes))
    IN  [e \in passed |->
            IF e \in risk THEN "test_high_risk"
            ELSE IF e \in layout THEN "test_unseen_layout"
            ELSE IF e \in cranes THEN "test_unseen_num_cranes"
            ELSE LET i == CHOOSE i \in DOMAIN base : base[i] = e
                 IN  BaseSplit(Len(base), i)]

(***************************************************************************)
(* DatasetWindowIndexer: windows of InputSteps frames to learn from and the       *)
(* PredSteps after them to predict, all inside the counted frames.              *)
(***************************************************************************)
Positive(e, from) ==
    /\ PairRows(CraneCount[e]) > 0
    /\ TakeIn(e, "pair_risks").risky
    /\ TakeIn(e, "pair_risks").last \in from + InputSteps .. from + InputSteps + PredSteps - 1

WindowsOf(e, split) ==
    {[episode |-> e, split |-> split, from |-> f, cranes |-> Max({found[e].cranes, 1}),
      positive |-> Positive(e, f)] :
        f \in {n \in 0 .. found[e].count - (InputSteps + PredSteps) : n % Stride = 0}}

Earlier(v, w) == At(v.episode) < At(w.episode) \/ (v.episode = w.episode /\ v.from < w.from)

Sampled(windows) ==
    LET Of(s, positive) == {w \in windows : w.split = s /\ w.positive = positive}
        Kept(s) == IF Of(s, TRUE) = {} THEN 1
                   ELSE Cardinality(Of(s, TRUE)) * NegativesPerPositive
    IN  IF NegativesPerPositive < 0 THEN windows
        ELSE {w \in windows : w.positive \/
                 Cardinality({v \in Of(w.split, FALSE) : Earlier(v, w)}) < Kept(w.split)}

(* validate_no_leakage *)
NoLeakage(splits) ==
    \A e, d \in DOMAIN splits :
        splits[d] = "train" =>
            /\ splits[e] = "test_unseen_layout" => Layout[e] # Layout[d]
            /\ splits[e] = "test_unseen_num_cranes" => found[e].cranes # found[d].cranes

Passed == {e \in DOMAIN found : verdict[e] = "passed"}

(* _positive_frames: the pairs are read once more for the windows there are. *)
PairsRead ==
    \A e \in Passed : WindowsOf(e, "train") # {} => ParsesIfThere(e, "pair_risks")

Lay ==
    /\ stage = "judged"
    /\ \E splits \in {Assigned(Passed)} :
        IF NoLeakage(splits) /\ PairsRead
        THEN /\ built' = Append(built,
                    [splits |-> splits, quarantined |-> DOMAIN found \ Passed,
                     windows |-> Sampled(UNION {WindowsOf(e, splits[e]) : e \in Passed})])
             /\ stage' = "writing"
        ELSE stage' = "idle" /\ UNCHANGED built
    /\ writing' = 1
    /\ UNCHANGED <<found, verdict, dataset, splitFiles, quarantine>>

File == DatasetFiles[writing]
Building == built[Len(built)]
InSplit(s) == {e \in DOMAIN Building.splits : Building.splits[e] = s}

(* Only the splits and the reports there are get written; nothing is removed. *)
WriteSplits(S) ==
    splitFiles' = [s \in Splits |-> IF s \in S /\ InSplit(s) # {} THEN InSplit(s) ELSE splitFiles[s]]

WriteReports(S) == quarantine' = quarantine \cup (S \cap Building.quarantined)

Write ==
    /\ stage = "writing"
    /\ dataset' = [dataset EXCEPT ![File] = [build |-> Len(built), whole |-> TRUE]]
    /\ WriteSplits(IF File = "splits" THEN Splits ELSE {})
    /\ WriteReports(IF File = "quarantine" THEN Episodes ELSE {})
    /\ IF writing = Len(DatasetFiles) THEN stage' = "idle" /\ writing' = 1
       ELSE writing' = writing + 1 /\ UNCHANGED stage
    /\ UNCHANGED <<found, verdict, built>>

(***************************************************************************)
(* The file cannot be opened, or what is written of it breaks off, with some of  *)
(* the splits or of the reports there.  A build that is killed ends the same way.  *)
(***************************************************************************)
WriteFails ==
    /\ stage = "writing" /\ Mishap
    /\ \E file \in {dataset[File], [build |-> Len(built), whole |-> FALSE]} :
        dataset' = [dataset EXCEPT ![File] = file]
    /\ \E S \in SUBSET (IF File = "splits" THEN Splits ELSE {}) : WriteSplits(S)
    /\ \E S \in SUBSET (IF File = "quarantine" THEN Episodes ELSE {}) : WriteReports(S)
    /\ stage' = "idle" /\ writing' = 1
    /\ UNCHANGED <<recorder, batchRun, found, verdict, built>>

BuildNext ==
    \/ RunNext /\ UNCHANGED building
    \/ (Discover \/ Judge \/ Lay \/ Write) /\ UNCHANGED runVars
    \/ WriteFails

(***************************************************************************)
(* splits/<split>/episodes.jsonl lists the episodes that the split manifest in    *)
(* force assigns to the split (docs/moduleO/task07_dataset_assembly_summary.md),   *)
(* when the builds that wrote them have run to their end.                      *)
(***************************************************************************)
SplitFilesAgree ==
    \A s \in Splits :
        stage = "idle" /\ mishaps = 0 /\ built # <<>> => splitFiles[s] = InSplit(s)

================================================================================
