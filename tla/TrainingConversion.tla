---------------------------- MODULE TrainingConversion ----------------------------
(***************************************************************************)
(* The conversion of a dataset to training samples: window_reader.py reads the    *)
(* dataset directory, converter.py makes a sample of each window from the run      *)
(* directories the dataset points to, and writes four files.  Nothing keeps the   *)
(* directories from being recorded again, or the dataset from being rebuilt, at    *)
(* the same time.  The conversion is of every split, without a dry run.           *)
(***************************************************************************)
EXTENDS DatasetBuild

CONSTANT MaxConversions   \* bound: the conversions that got to their files

ASSUME ConversionAssumption == MaxConversions \in Nat

TrainingFiles == <<"stgnn_manifest", "stgnn_summary", "conversion_report", "samples">>

VARIABLES
    step,       \* of the conversion: "idle", "sampling" or "saving"
    strict,     \* the options' strict
    bundle,     \* DatasetWindowBundle: the assignments and the windows
    samples,    \* made so far
    made,       \* the samples of each conversion that got to its files
    saving,     \* position in TrainingFiles
    training    \* by file, the conversion that wrote it

converting == <<step, strict, bundle, samples, made, saving, training>>
pipelineVars == <<buildVars, converting>>

NoBundle == [splits |-> NoRecords, windows |-> {}]

Init ==
    /\ BuildInit
    /\ step = "idle" /\ strict = FALSE /\ bundle = NoBundle /\ samples = {}
    /\ made = <<>> /\ saving = 1
    /\ training = [f \in {TrainingFiles[i] : i \in DOMAIN TrainingFiles} |-> 0]

(***************************************************************************)
(* DatasetWindowReader.read: four files that are there and whole, among them a    *)
(* window at least, for without any the table has a row that is none.  The windows  *)
(* and the split manifest may be of different builds; a window of an episode that   *)
(* the manifest assigns to another split is refused.                             *)
(***************************************************************************)
InFiles(f) == built[dataset[f].build]
Whole(f) == dataset[f].build > 0 /\ dataset[f].whole

(* Mutant: the windows are not held against the split manifest. *)
NoSplitCheck(windows, splits) == windows # {}

SplitsMatch(windows, splits) ==
    \A w \in windows : w.episode \in DOMAIN splits => splits[w.episode] = w.split

ReadDataset ==
    /\ step = "idle" /\ Len(made) < MaxConversions
    /\ \A f \in {"dataset_manifest", "dataset_summary", "split_manifest", "windows"} : Whole(f)
    /\ InFiles("windows").windows # {}
    /\ SplitsMatch(InFiles("windows").windows, InFiles("split_manifest").splits)
    /\ bundle' = [splits |-> InFiles("split_manifest").splits,
                  windows |-> InFiles("windows").windows]
    /\ strict' \in BOOLEAN
    /\ step' = "sampling" /\ samples' = {}
    /\ UNCHANGED <<made, saving, training>>

(***************************************************************************)
(* EpisodeParquetSource.load_for_window: the files it reads parse; the           *)
(* trajectories have a row for a crane in a frame once, the window's frames, and    *)
(* the window's number of cranes in every frame; the frame the labels are for has   *)
(* pairs, when there are two cranes.                                            *)
(***************************************************************************)
Needed(w) == w.from .. w.from + InputSteps + PredSteps - 1
Anchor(w) == w.from + InputSteps - 1

(* Mutant: a second row of a crane in a frame is let by. *)
AnyRows(t) == FramesIn(t, "trajectories") # {}

RowsOnce(t) ==
    \A f \in FramesIn(t, "trajectories") : RowsIn(t, "trajectories", f) = CranesIn(t, f)

TrajectoriesFit(w, t) ==
    /\ RowsOnce(t)
    /\ Needed(w) \subseteq FramesIn(t, "trajectories")
    /\ \A f \in FramesIn(t, "trajectories") : CranesIn(t, f) = w.cranes

PairsFit(w, t) == w.cranes > 1 => RowsIn(t, "pair_risks", Anchor(w)) > 0

LoadedFiles == {"trajectories", "pair_risks", "graph_edges", "tasks", "summary", "manifest"}

Loads(w) ==
    /\ \A r \in LoadedFiles : ParsesIfThere(w.episode, r)
    /\ TrajectoriesFit(w, TakeIn(w.episode, "trajectories"))
    /\ PairsFit(w, TakeIn(w.episode, "pair_risks"))

(* LabelBuilder.build_risk: no recorder fills the offline labels of a pair. *)
Labelled(w) == w.cranes = 1

Sample(w) == [split |-> w.split, episode |-> w.episode, from |-> w.from,
              rows |-> dirs[w.episode]["trajectories"].take,
              pairs |-> dirs[w.episode]["pair_risks"].take]

(* The reader gives the windows by split, episode and first frame. *)
SplitsInOrder == <<"test", "test_high_risk", "test_unseen_layout", "test_unseen_num_cranes",
                   "train", "val">>
SplitPlace(s) == CHOOSE i \in DOMAIN SplitsInOrder : SplitsInOrder[i] = s

ReadBefore(v, w) == \/ SplitPlace(v.split) < SplitPlace(w.split)
                    \/ v.split = w.split /\ Earlier(v, w)

IsNext(w) == w \in bundle.windows /\ \A v \in bundle.windows \ {w} : ~ReadBefore(v, w)

(* A window that does not load is skipped; one without labels is kept. *)
MakeSample ==
    /\ step = "sampling"
    /\ \E w \in bundle.windows :
        /\ IsNext(w) /\ (strict => Loads(w) /\ Labelled(w))
        /\ samples' = samples \cup (IF Loads(w) THEN {Sample(w)} ELSE {})
        /\ bundle' = [bundle EXCEPT !.windows = @ \ {w}]
    /\ UNCHANGED <<step, strict, made, saving, training>>

(* A strict conversion ends at the first of either, and writes nothing. *)
StrictlyRefused ==
    /\ step = "sampling" /\ strict
    /\ \E w \in bundle.windows : IsNext(w) /\ ~(Loads(w) /\ Labelled(w))
    /\ step' = "idle" /\ bundle' = NoBundle /\ samples' = {}
    /\ UNCHANGED <<strict, made, saving, training>>

SamplesMade ==
    /\ step = "sampling" /\ bundle.windows = {}
    /\ made' = Append(made, [samples |-> samples, splits |-> bundle.splits])
    /\ step' = "saving" /\ saving' = 1 /\ samples' = {} /\ bundle' = NoBundle
    /\ UNCHANGED <<strict, training>>

(* Each file is a finished copy put in the place of the old one. *)
Save ==
    /\ step = "saving"
    /\ training' = [training EXCEPT ![TrainingFiles[saving]] = Len(made)]
    /\ IF saving = Len(TrainingFiles) THEN step' = "idle" /\ saving' = 1
       ELSE saving' = saving + 1 /\ UNCHANGED step
    /\ UNCHANGED <<strict, bundle, samples, made>>

SaveFails ==
    /\ step = "saving" /\ Mishap
    /\ step' = "idle" /\ saving' = 1
    /\ UNCHANGED <<recorder, batchRun, building, strict, bundle, samples, made, training>>

Next ==
    \/ BuildNext /\ UNCHANGED converting
    \/ (ReadDataset \/ MakeSample \/ StrictlyRefused \/ SamplesMade \/ Save)
       /\ UNCHANGED buildVars
    \/ SaveFails

Spec == Init /\ [][Next]_pipelineVars

Index == IF training["samples"] = 0 THEN [samples |-> {}, splits |-> NoRecords]
         ELSE made[training["samples"]]

(***************************************************************************)
(* Whatever was stopped, refused, broken off or recorded again on the way, the     *)
(* recording a sample of the index was made from has every crane exactly once in   *)
(* every frame the sample learns from or predicts, and pairs to label.             *)
(***************************************************************************)
SamplesSound ==
    \A s \in Index.samples :
        LET n == CraneCount[s.episode] IN
        /\ \A f \in Needed(s) : RowsIn(taken[s.rows], "trajectories", f) = n
        /\ n > 1 => RowsIn(taken[s.pairs], "pair_risks", Anchor(s)) > 0

(***************************************************************************)
(* The samples of an episode in the index are of one split, the one the split       *)
(* manifest gave the episode when the dataset was read, also when a rebuild had    *)
(* got no further than the manifest.                                           *)
(***************************************************************************)
SplitsAgree ==
    \A s \in Index.samples :
        /\ s.episode \in DOMAIN Index.splits => s.split = Index.splits[s.episode]
        /\ \A t \in Index.samples : t.episode = s.episode => t.split = s.split
================================================================================
