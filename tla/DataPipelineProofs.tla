--------------------------- MODULE DataPipelineProofs ---------------------------
(***************************************************************************)
(* Proofs about the recorder, the batch runner, the dataset builder and the     *)
(* training converter over the same run directories, for any plan, any number of *)
(* recordings, mishaps, builds and conversions.                                 *)
(***************************************************************************)
EXTENDS TrainingConversion, TLAPS

Takes == [episode : Episodes, last : -1 .. MaxFrame, extra : Int, upto : Nat, held : Nat,
          risky : BOOLEAN]
Artifact == [take : Nat, whole : BOOLEAN]

RunTyped ==
    /\ plan \in Seq(Episodes)
    /\ taken \in Seq(Takes) /\ \A k \in 1 .. Current : taken[k].extra <= taken[k].last + 1
    /\ dirs \in [Episodes -> [Roles -> Artifact]]
    /\ phase \in {"idle", "recording", "flushing"} /\ next \in 1 .. Len(FlushOrder) + 1

(* A recording that has come to its files does not change any more. *)
Closed(k) == k < Current \/ phase # "recording"

(* Every file is of a recording of its directory, and only the configuration and    *)
(* the metadata are there before the recording has ended.                        *)
AtStart == {"config", "metadata"}
FilesInv ==
    \A e \in Episodes, r \in Roles :
        LET k == dirs[e][r].take IN
        /\ k <= Current
        /\ k > 0 => taken[k].episode = e /\ (r \notin AtStart => Closed(k))

(* The files of the recording under way that finalize has come past. *)
Complete(k, r) == r # "frames" \/ taken[k].last >= 0 =>
                      dirs[taken[k].episode][r] = [take |-> k, whole |-> TRUE]
FlushInv ==
    /\ phase # "idle" => /\ Current > 0 /\ dirs[Episode]["metadata"].take = Current
                         /\ dirs[Episode]["config"] = [take |-> Current, whole |-> TRUE]
    /\ phase = "flushing" => \A i \in 1 .. next - 1 : Complete(Current, FlushOrder[i])

(* What a table of takes says of the directories: the batch's own, or its report. *)
Holds(table, takes, files, where) ==
    \A e \in DOMAIN table :
        LET k == table[e] IN
        /\ e \in Episodes /\ k \in 0 .. Len(takes)
        /\ k > 0 /\ where # "idle" => k < Len(takes)
        /\ (k > 0 /\ \A i \in k + 1 .. Len(takes) : takes[i].episode # e) =>
               \A r \in Roles : r # "frames" \/ takes[k].last >= 0 =>
                   files[e][r] = [take |-> k, whole |-> TRUE]
Told(table) == Holds(table, taken, dirs, phase)

RunInv == RunTyped /\ FilesInv /\ FlushInv /\ SummaryIsLast /\ Told(entries) /\ Told(report)

--------------------------------------------------------------------------------
(* An episode that was found with a file keeps one, whatever is recorded again.    *)
FoundInv ==
    /\ DOMAIN found \subseteq Episodes
    /\ \A e \in DOMAIN found : /\ found[e].count \in Nat
                               /\ found[e].files \subseteq Roles
                               /\ \A r \in found[e].files : Exists(e, r)
    /\ stage = "judged" => \A e \in Passed : RequiredFiles \subseteq found[e].files

Placed(w) == /\ w.episode \in Episodes /\ w.from \in Nat
             /\ Exists(w.episode, "trajectories") /\ Exists(w.episode, "pair_risks")

(* The windows of a build are of the split it gave their episode. *)
BuiltInv ==
    /\ Len(built) \in Nat
    /\ \A b \in 1 .. Len(built) : \A w \in built[b].windows :
           Placed(w) /\ w.episode \in DOMAIN built[b].splits
                     /\ w.split = built[b].splits[w.episode]
    /\ DOMAIN dataset = FileNames
    /\ \A f \in FileNames : dataset[f].build \in 0 .. Len(built)

(* What is sampled or has been is of one split, the manifest's. *)
Agree(S, splits) ==
    \A s, t \in S : /\ s.episode \in DOMAIN splits => s.split = splits[s.episode]
                    /\ t.episode = s.episode => t.split = s.split

Sound(s) ==
    /\ s.rows \in 1 .. Current /\ Closed(s.rows) /\ s.pairs \in 1 .. Current /\ Closed(s.pairs)
    /\ \A f \in Needed(s) : RowsIn(taken[s.rows], "trajectories", f) = CraneCount[s.episode]
    /\ CraneCount[s.episode] > 1 => RowsIn(taken[s.pairs], "pair_risks", Anchor(s)) > 0

ConversionInv ==
    /\ \A w \in bundle.windows : Placed(w)
    /\ \A s \in samples : Sound(s)
    /\ Agree(bundle.windows \cup samples, bundle.splits)
    /\ Len(made) \in Nat
    /\ \A m \in 1 .. Len(made) :
           /\ Agree(made[m].samples, made[m].splits)
           /\ \A s \in made[m].samples : Sound(s)
    /\ training["samples"] \in 0 .. Len(made)

PipelineInv == RunInv /\ FoundInv /\ BuiltInv /\ ConversionInv
--------------------------------------------------------------------------------
(* Sequences.                                                                *)
LEMMA Element ==
  ASSUME NEW S, NEW s \in Seq(S), NEW i \in 1 .. Len(s)
  PROVE  s[i] \in S
  OBVIOUS

LEMMA Concatenation ==
  ASSUME NEW S, NEW s \in Seq(S), NEW t \in Seq(S)
  PROVE  /\ s \o t \in Seq(S) /\ Len(s \o t) = Len(s) + Len(t)
         /\ \A i \in 1 .. Len(s) : (s \o t)[i] = s[i]
         /\ \A i \in 1 .. Len(t) : (s \o t)[Len(s) + i] = t[i]
  OBVIOUS

LEMMA Replacement ==
  ASSUME NEW S, NEW s \in Seq(S), NEW i \in 1 .. Len(s), NEW e \in S
  PROVE  /\ [s EXCEPT ![i] = e] \in Seq(S) /\ Len([s EXCEPT ![i] = e]) = Len(s)
         /\ \A j \in 1 .. Len(s) : [s EXCEPT ![i] = e][j] = IF j = i THEN e ELSE s[j]
  OBVIOUS

LEMMA AppendElement ==
  ASSUME NEW S, NEW s \in Seq(S), NEW e \in S
  PROVE  /\ Append(s, e) \in Seq(S) /\ Len(s) \in Nat
         /\ Len(Append(s, e)) = Len(s) + 1
         /\ \A i \in 1 .. Len(s) : Append(s, e)[i] = s[i]
         /\ Append(s, e)[Len(s) + 1] = e
  OBVIOUS

(* The files of finalize, one by one: the summary is the last but one, and the   *)
(* metadata, which are there from the start, the last.                          *)
Names == {"trajectories", "pair_risks", "graph_edges", "tasks", "weather", "observations",
          "decisions", "commands", "interventions", "events", "frames", "manifest",
          "summary", "metadata", "config"}

LEMMA WritersInOrder ==
  /\ Writers \in Seq(Names) /\ Len(Writers) = 10 /\ DOMAIN Writers = 1 .. 10
  /\ Writers[1] = "trajectories" /\ Writers[2] = "pair_risks" /\ Writers[3] = "graph_edges"
  /\ Writers[4] = "tasks" /\ Writers[5] = "weather" /\ Writers[6] = "observations"
  /\ Writers[7] = "decisions" /\ Writers[8] = "commands" /\ Writers[9] = "interventions"
  /\ Writers[10] = "events"
<1>1. /\ Tables \in Seq(Names) /\ Len(Tables) = 5
      /\ Tables[1] = "trajectories" /\ Tables[2] = "pair_risks" /\ Tables[3] = "graph_edges"
      /\ Tables[4] = "tasks" /\ Tables[5] = "weather"
  BY DEF Tables, Names
<1>2. /\ Logs \in Seq(Names) /\ Len(Logs) = 5 /\ Logs[1] = "observations"
      /\ Logs[2] = "decisions" /\ Logs[3] = "commands" /\ Logs[4] = "interventions"
      /\ Logs[5] = "events"
  BY DEF Logs, Names
<1>3. PICK all : all = Tables \o Logs
  OBVIOUS
<1>4. /\ all \in Seq(Names) /\ Len(all) = Len(Tables) + Len(Logs)
      /\ \A i \in 1 .. Len(Tables) : all[i] = Tables[i]
      /\ \A i \in 1 .. Len(Logs) : all[Len(Tables) + i] = Logs[i]
  <2>1. Tables \in Seq(Names) /\ Logs \in Seq(Names)
    BY <1>1, <1>2
  <2> QED
    BY <1>3, <2>1, Concatenation
<1>5. /\ all \in Seq(Names) /\ Len(all) = 10
      /\ \A i \in 1 .. 5 : all[i] = Tables[i]
      /\ \A i \in 1 .. 5 : all[5 + i] = Logs[i]
  <2>1. Len(Tables) = 5 /\ Len(Logs) = 5
    BY <1>1, <1>2
  <2> QED
    BY <1>4, <2>1
<1>6. Writers = all
  BY <1>3 DEF Writers
<1>7. DOMAIN all = 1 .. 10
  BY <1>5
<1>8. /\ all[1] = "trajectories" /\ all[2] = "pair_risks" /\ all[3] = "graph_edges"
      /\ all[4] = "tasks" /\ all[5] = "weather"
  BY <1>1, <1>5
<1>9. /\ all[5 + 1] = "observations" /\ all[5 + 2] = "decisions" /\ all[5 + 3] = "commands"
      /\ all[5 + 4] = "interventions" /\ all[5 + 5] = "events"
  BY <1>2, <1>5
<1> QED
  BY <1>5, <1>6, <1>7, <1>8, <1>9

LEMMA FilesInOrder ==
  /\ Len(FlushOrder) = 14 /\ DOMAIN FlushOrder = 1 .. 14 /\ Roles = Names
  /\ FlushOrder[13] = "summary" /\ FlushOrder[14] = "metadata"
  /\ \A i \in 1 .. 12 : FlushOrder[i] \notin {"summary", "metadata", "config"}
  /\ \A r \in Roles \ {"summary", "metadata", "config"} : \E i \in 1 .. 12 : FlushOrder[i] = r
<1>1. /\ Visuals \in Seq(Names) /\ Len(Visuals) = 2
      /\ Visuals[1] = "frames" /\ Visuals[2] = "manifest"
  BY DEF Visuals, Names
<1>2. /\ Summaries \in Seq(Names) /\ Len(Summaries) = 2
      /\ Summaries[1] = "summary" /\ Summaries[2] = "metadata"
  BY DEF Summaries, Names
<1>3. PICK first : first = Writers \o Visuals
  OBVIOUS
<1>4. PICK all : all = first \o Summaries
  OBVIOUS
<1>5. /\ first \in Seq(Names) /\ Len(first) = 12
      /\ \A i \in 1 .. 10 : first[i] = Writers[i]
      /\ \A i \in 1 .. 2 : first[10 + i] = Visuals[i]
  <2>1. Writers \in Seq(Names) /\ Visuals \in Seq(Names)
    BY <1>1, WritersInOrder
  <2>2. /\ first \in Seq(Names) /\ Len(first) = Len(Writers) + Len(Visuals)
        /\ \A i \in 1 .. Len(Writers) : first[i] = Writers[i]
        /\ \A i \in 1 .. Len(Visuals) : first[Len(Writers) + i] = Visuals[i]
    BY <1>3, <2>1, Concatenation
  <2>3. Len(Writers) = 10 /\ Len(Visuals) = 2
    BY <1>1, WritersInOrder
  <2> QED
    BY <2>2, <2>3
<1>6. /\ all \in Seq(Names) /\ Len(all) = 14 /\ DOMAIN all = 1 .. 14
      /\ \A i \in 1 .. 12 : all[i] = first[i]
      /\ \A i \in 1 .. 2 : all[12 + i] = Summaries[i]
  <2>1. first \in Seq(Names) /\ Summaries \in Seq(Names)
    BY <1>2, <1>5
  <2>2. /\ all \in Seq(Names) /\ Len(all) = Len(first) + Len(Summaries)
        /\ \A i \in 1 .. Len(first) : all[i] = first[i]
        /\ \A i \in 1 .. Len(Summaries) : all[Len(first) + i] = Summaries[i]
    BY <1>4, <2>1, Concatenation
  <2>3. Len(first) = 12 /\ Len(Summaries) = 2
    BY <1>2, <1>5
  <2> QED
    BY <2>2, <2>3
<1>7. /\ all[1] = "trajectories" /\ all[2] = "pair_risks" /\ all[3] = "graph_edges"
      /\ all[4] = "tasks" /\ all[5] = "weather" /\ all[6] = "observations"
      /\ all[7] = "decisions" /\ all[8] = "commands" /\ all[9] = "interventions"
      /\ all[10] = "events"
  BY <1>5, <1>6, WritersInOrder
<1>8. all[11] = "frames" /\ all[12] = "manifest" /\ all[13] = "summary" /\ all[14] = "metadata"
  <2>1. first[10 + 1] = "frames" /\ first[10 + 2] = "manifest"
    BY <1>1, <1>5
  <2>2. all[12 + 1] = "summary" /\ all[12 + 2] = "metadata"
    BY <1>2, <1>6
  <2> QED
    BY <1>6, <2>1, <2>2
<1>9. \A r \in Names \ {"summary", "metadata", "config"} : \E i \in 1 .. 12 : all[i] = r
  BY <1>7, <1>8 DEF Names
<1>10. \A i \in 1 .. 12 : all[i] \notin {"summary", "metadata", "config"}
  BY <1>7, <1>8
<1>11. {all[i] : i \in 1 .. 14} \cup {"config"} = Names
  <2>1. ASSUME NEW i \in 1 .. 14 PROVE all[i] \in Names
    <3>1. all \in Seq(Names) /\ Len(all) = 14
      BY <1>6
    <3>2. i \in 1 .. Len(all)
      BY <3>1
    <3> QED
      BY <3>1, <3>2, Element
  <2>2. \A r \in Names \ {"config"} : \E i \in 1 .. 14 : all[i] = r
    BY <1>8, <1>9
  <2> QED
    BY <2>1, <2>2 DEF Names
<1>12. FlushOrder = all
  <2>1. /\ Writers \in Seq(Names) /\ Visuals \in Seq(Names) /\ Summaries \in Seq(Names)
    BY <1>1, <1>2, WritersInOrder
  <2> QED
    BY <1>3, <1>4, <2>1 DEF FlushOrder
<1>13. Roles = {all[i] : i \in 1 .. 14} \cup {"config"}
  BY <1>6, <1>12 DEF Roles
<1> QED
  BY <1>6, <1>8, <1>9, <1>10, <1>11, <1>12, <1>13

LEMMA Filed ==
  ASSUME NEW f \in [Episodes -> [Roles -> Artifact]], NEW e \in Episodes, NEW r \in Roles,
         NEW a \in Artifact
  PROVE  /\ [f EXCEPT ![e][r] = a] \in [Episodes -> [Roles -> Artifact]]
         /\ \A d \in Episodes, q \in Roles :
                [f EXCEPT ![e][r] = a][d][q] = IF d = e /\ q = r THEN a ELSE f[d][q]
  OBVIOUS

--------------------------------------------------------------------------------
(* What a step of the recorder, the batch runner or the server keeps, for those   *)
(* that read the directories: the recordings that have come to their files, and    *)
(* that a file is there.                                                        *)
RunKept ==
    /\ Current' >= Current
    /\ \A k \in 1 .. Current : Closed(k) => taken'[k] = taken[k] /\ Closed(k)'
    /\ \A e \in Episodes, r \in Roles : Exists(e, r) => Exists(e, r)'

LEMMA Typing ==
  ASSUME RunTyped
  PROVE  /\ Current \in Nat /\ \A k \in 1 .. Current : taken[k] \in Takes
         /\ phase \in {"idle", "recording", "flushing"} /\ next \in 1 .. 15
         /\ \A e \in Episodes, r \in Roles :
                dirs[e][r] \in Artifact /\ dirs[e][r].take \in Nat
  BY FilesInOrder DEF RunTyped, Current, Artifact

(* A failed episode is in the batch's table with no recording.                    *)
LEMMA FailureEntered ==
  ASSUME NEW e \in Episodes, NEW takes, NEW files, NEW where, Len(takes) \in Nat,
         Holds(entries, takes, files, where)
  PROVE  Holds(Entered(e, 0), takes, files, where)
<1> DEFINE table == Entered(e, 0)
<1>1. /\ DOMAIN table = DOMAIN entries \cup {e}
      /\ \A d \in DOMAIN table : table[d] = IF d = e THEN 0 ELSE entries[d]
  BY DEF Entered
<1> HIDE DEF table
<1>2. Holds(table, takes, files, where)
  BY <1>1 DEF Holds
<1> QED
  BY <1>2 DEF table

(* A recording is added that has written over the files of its start at most,      *)
(* whatever else was in the directory.                                          *)
Added(e, t, files) ==
    /\ taken' = Append(taken, t) /\ phase = "idle" /\ phase' \in {"idle", "recording"}
    /\ next' \in 1 .. 15 /\ dirs' \in [Episodes -> [Roles -> Artifact]]
    /\ \A d \in Episodes, q \in Roles :
           IF d = e /\ q \in files THEN dirs'[d][q].take = Current + 1
                                  ELSE dirs'[d][q] = dirs[d][q]
    /\ phase' = "recording" => /\ dirs'[e]["metadata"].take = Current + 1
                               /\ dirs'[e]["config"] = [take |-> Current + 1, whole |-> TRUE]

LEMMA TakeKeeps ==
  ASSUME RunInv, NEW e \in Episodes, NEW t \in Takes, t.episode = e, t.extra <= t.last + 1,
         NEW files \in SUBSET AtStart, Added(e, t, files), plan' \in Seq(Episodes),
         UNCHANGED report, UNCHANGED entries \/ entries' = Entered(e, 0)
  PROVE  RunInv' /\ RunKept
<1> USE Typing DEF RunInv
<1>2. /\ taken' \in Seq(Takes) /\ Current' = Current + 1 /\ taken'[Current + 1] = t
      /\ \A k \in 1 .. Current : taken'[k] = taken[k]
  <2>1. taken \in Seq(Takes)
    BY DEF RunTyped
  <2> QED
    BY <2>1, AppendElement DEF Current, Added
<1>3. AtStart \subseteq Roles /\ "summary" \in Roles /\ "summary" \notin AtStart
  BY FilesInOrder DEF Names, AtStart
<1>4. /\ dirs' \in [Episodes -> [Roles -> Artifact]]
      /\ \A d \in Episodes, q \in Roles :
             IF d = e /\ q \in files THEN dirs'[d][q].take = Current + 1
                                    ELSE dirs'[d][q] = dirs[d][q]
  BY DEF Added
<1>5. phase = "idle" /\ phase' \in {"idle", "recording"} /\ next' \in 1 .. 15
  BY DEF Added
<1>6. RunTyped'
  <2>1. ASSUME NEW k \in 1 .. Current + 1 PROVE taken'[k].extra <= taken'[k].last + 1
    <3>1. CASE k = Current + 1
      BY <1>2, <3>1
    <3>2. CASE k \in 1 .. Current
      BY <1>2, <3>2 DEF RunTyped
    <3> QED
      BY <3>1, <3>2
  <2> QED
    BY <1>2, <1>4, <1>5, <2>1, FilesInOrder DEF RunTyped
<1>7. FilesInv'
  <2>1. ASSUME NEW d \in Episodes, NEW r \in Roles
        PROVE  \A k : k = dirs'[d][r].take =>
               /\ k <= Current + 1
               /\ k > 0 => taken'[k].episode = d /\ (r \notin AtStart => k < Current + 1)
    <3>1. CASE d = e /\ r \in files
      <4>1. dirs'[d][r].take = Current + 1
        BY <1>4, <3>1
      <4>2. Current + 1 > 0 /\ taken'[Current + 1].episode = d
        BY <1>2, <3>1
      <4> QED
        BY <3>1, <4>1, <4>2
    <3>2. CASE ~(d = e /\ r \in files)
      <4>1. dirs'[d][r] = dirs[d][r] /\ dirs[d][r].take \in Nat
        BY <1>4, <3>2
      <4>2. /\ dirs[d][r].take <= Current
            /\ dirs[d][r].take > 0 => taken[dirs[d][r].take].episode = d
        BY DEF FilesInv
      <4> QED
        BY <1>2, <4>1, <4>2
    <3> QED
      BY <3>1, <3>2
  <2> QED
    BY <1>2, <2>1 DEF FilesInv, Closed
<1>8. FlushInv'
  <2>1. ASSUME phase' = "recording"
        PROVE  /\ Current' > 0 /\ dirs'[Episode']["metadata"].take = Current'
               /\ dirs'[Episode']["config"] = [take |-> Current', whole |-> TRUE]
    <3>1. Episode' = e
      BY <1>2 DEF Episode
    <3> QED
      BY <1>2, <2>1, <3>1 DEF Added
  <2> QED
    BY <1>5, <2>1 DEF FlushInv
<1>9. SummaryIsLast'
  <2>1. ASSUME NEW d \in Episodes, NEW r \in Roles \ {"frames"}
        PROVE  dirs'[d][r].take >= dirs'[d]["summary"].take
    <3>1. /\ dirs'[d]["summary"] = dirs[d]["summary"] /\ dirs[d]["summary"].take <= Current
          /\ dirs[d][r].take >= dirs[d]["summary"].take
      BY <1>3, <1>4 DEF FilesInv, SummaryIsLast
    <3>2. dirs'[d][r].take \in {dirs[d][r].take, Current + 1}
      BY <1>4
    <3> QED
      BY <1>3, <3>1, <3>2
  <2> QED
    BY <2>1 DEF SummaryIsLast
<1>10. ASSUME NEW table, Told(table)
       PROVE  Holds(table, taken', dirs', phase')
  <2> SUFFICES ASSUME NEW d \in DOMAIN table, NEW k, k = table[d]
               PROVE  /\ d \in Episodes /\ k \in 0 .. Current + 1
                      /\ k > 0 => k < Current + 1
                      /\ (k > 0 /\ \A i \in k + 1 .. Current + 1 : taken'[i].episode # d) =>
                             \A r \in Roles : r # "frames" \/ taken'[k].last >= 0 =>
                                 dirs'[d][r] = [take |-> k, whole |-> TRUE]
    BY <1>2 DEF Holds, Current
  <2>1. /\ d \in Episodes /\ k \in 0 .. Current
        /\ (k > 0 /\ \A i \in k + 1 .. Current : taken[i].episode # d) =>
               \A r \in Roles : r # "frames" \/ taken[k].last >= 0 =>
                   dirs[d][r] = [take |-> k, whole |-> TRUE]
    BY <1>10 DEF Told, Holds, Current
  <2>2. ASSUME k > 0, \A i \in k + 1 .. Current + 1 : taken'[i].episode # d
        PROVE  \A r \in Roles : r # "frames" \/ taken'[k].last >= 0 =>
                   dirs'[d][r] = [take |-> k, whole |-> TRUE]
    <3>1. d # e
      <4>1. Current + 1 \in k + 1 .. Current + 1
        BY <2>1
      <4> QED
        BY <1>2, <2>2, <4>1
    <3>2. taken'[k] = taken[k] /\ \A i \in k + 1 .. Current : taken[i].episode # d
      <4>1. k \in 1 .. Current
        BY <2>1, <2>2
      <4>2. ASSUME NEW i \in k + 1 .. Current PROVE taken[i].episode # d
        <5>1. i \in 1 .. Current /\ i \in k + 1 .. Current + 1
          BY <4>1
        <5> QED
          BY <1>2, <2>2, <5>1
      <4> QED
        BY <1>2, <4>1, <4>2
    <3> QED
      BY <1>4, <2>1, <2>2, <3>1, <3>2
  <2>3. k \in 0 .. Current + 1 /\ (k > 0 => k < Current + 1)
    BY <2>1
  <2> QED
    BY <2>1, <2>2, <2>3, Zenon
<1>11. Told(entries)' /\ Told(report)'
  <2>1. Holds(entries, taken', dirs', phase') /\ Holds(report, taken', dirs', phase')
    BY <1>10
  <2>2. Holds(Entered(e, 0), taken', dirs', phase')
    BY <1>2, <2>1, FailureEntered DEF Current
  <2> QED
    BY <2>1, <2>2 DEF Told
<1>12. RunKept
  <2>1. ASSUME NEW d \in Episodes, NEW q \in Roles, dirs[d][q].take > 0
        PROVE  dirs'[d][q].take > 0
    BY <1>4, <2>1
  <2> QED
    BY <1>2, <1>5, <2>1 DEF RunKept, Closed, Exists
<1> QED
  BY <1>6, <1>7, <1>8, <1>9, <1>11, <1>12

LEMMA NewTakeTyped ==
  ASSUME NEW e \in Episodes, NEW risky \in BOOLEAN
  PROVE  /\ NewTake(e, risky) \in Takes /\ NewTake(e, risky).episode = e
         /\ NewTake(e, risky).extra <= NewTake(e, risky).last + 1
BY RunAssumption DEF NewTake, Takes

(* A recording starts: its configuration and its metadata are there.               *)
LEMMA StartKeeps ==
  ASSUME RunInv, NEW e \in Episodes, Started(e), plan' \in Seq(Episodes),
         UNCHANGED <<entries, report>>
  PROVE  RunInv' /\ RunKept
<1> USE Typing DEF RunInv
<1>1. PICK risky \in {FALSE, (e \in MayBeRisky)} : taken' = Append(taken, NewTake(e, risky))
  BY DEF Started
<1>2. risky \in BOOLEAN
  <2>1. CASE risky = FALSE
    BY <2>1
  <2>2. CASE risky = (e \in MayBeRisky)
    BY <2>2
  <2> QED
    BY <2>1, <2>2
<1> DEFINE a == [take |-> Current + 1, whole |-> TRUE]
<1>3. "config" \in Roles /\ "metadata" \in Roles /\ a \in Artifact /\ a.take = Current + 1
  BY FilesInOrder DEF Names, Artifact
<1>4. dirs' = [dirs EXCEPT ![e]["config"] = a, ![e]["metadata"] = a]
  BY DEF Started
<1> HIDE DEF a
<1>5. /\ dirs' \in [Episodes -> [Roles -> Artifact]]
      /\ \A d \in Episodes, q \in Roles :
             dirs'[d][q] = IF d = e /\ q \in AtStart THEN a ELSE dirs[d][q]
  BY <1>3, <1>4 DEF RunTyped, AtStart
<1>6. phase = "idle" /\ phase' = "recording" /\ next' \in 1 .. 15
  BY DEF Started
<1>7. a = [take |-> Current + 1, whole |-> TRUE]
  BY DEF a
<1>8. Added(e, NewTake(e, risky), AtStart)
  <2>1. /\ dirs'[e]["metadata"].take = Current + 1
        /\ dirs'[e]["config"] = [take |-> Current + 1, whole |-> TRUE]
    BY <1>3, <1>5, <1>7 DEF AtStart
  <2> QED
    BY <1>1, <1>3, <1>5, <1>6, <2>1 DEF Added
<1> QED
  BY <1>2, <1>8, NewTakeTyped, TakeKeeps

(* A recording that gets no further than a part of its configuration.              *)
LEMMA ConfigTornKeeps ==
  ASSUME RunInv, NEW e \in Episodes, phase = "idle", ConfigTorn(e), plan' \in Seq(Episodes),
         UNCHANGED report, entries' = Entered(e, 0)
  PROVE  RunInv' /\ RunKept
<1> USE Typing DEF RunInv
<1> DEFINE a == [take |-> Current + 1, whole |-> FALSE]
<1>1. "config" \in Roles /\ a \in Artifact /\ a.take = Current + 1
  BY FilesInOrder DEF Names, Artifact
<1>2. dirs' = [dirs EXCEPT ![e]["config"] = a] /\ dirs \in [Episodes -> [Roles -> Artifact]]
  BY DEF ConfigTorn, RunTyped
<1> HIDE DEF a
<1>3. /\ dirs' \in [Episodes -> [Roles -> Artifact]]
      /\ \A d \in Episodes, q \in Roles :
             dirs'[d][q] = IF d = e /\ q = "config" THEN a ELSE dirs[d][q]
  BY <1>1, <1>2, Filed
<1>4. {"config"} \in SUBSET AtStart
  BY DEF AtStart
<1>5. phase' = "idle" /\ next' \in 1 .. 15 /\ taken' = Append(taken, NewTake(e, FALSE))
  BY DEF ConfigTorn
<1>6. Added(e, NewTake(e, FALSE), {"config"})
  BY <1>1, <1>3, <1>5 DEF Added
<1> QED
  BY <1>4, <1>6, NewTakeTyped, TakeKeeps

LEMMA IdleHolds ==
  ASSUME NEW table, NEW takes, NEW files, NEW where, Holds(table, takes, files, where)
  PROVE  Holds(table, takes, files, "idle")
BY DEF Holds

(* Nothing is recorded, and no file is written.                                *)
LEMMA IdleKeeps ==
  ASSUME RunInv, UNCHANGED <<taken, dirs, next>>, phase' = "idle", plan' \in Seq(Episodes),
         \/ UNCHANGED entries
         \/ entries' = NoEntries
         \/ \E e \in Episodes : entries' = Entered(e, 0),
         report' \in {report, entries}
  PROVE  RunInv' /\ RunKept
<1> USE Typing DEF RunInv
<1>1. Current' = Current
  BY DEF Current
<1>2. RunTyped' /\ FlushInv' /\ SummaryIsLast'
  BY <1>1 DEF RunTyped, FlushInv, SummaryIsLast
<1>3. FilesInv'
  BY <1>1 DEF FilesInv, Closed
<1>4. /\ Holds(entries, taken, dirs, "idle") /\ Holds(report, taken, dirs, "idle")
  BY IdleHolds DEF Told
<1>5. Holds(entries', taken, dirs, "idle")
  <2>1. Holds(NoEntries, taken, dirs, "idle")
    BY DEF Holds, NoEntries
  <2> QED
    BY <1>4, <2>1, FailureEntered DEF Current
<1>6. Told(entries)' /\ Told(report)'
  BY <1>4, <1>5 DEF Told
<1>7. RunKept
  BY <1>1 DEF RunKept, Closed, Exists
<1> QED
  BY <1>2, <1>3, <1>6, <1>7

(* The recording under way goes on or comes to its end, in memory.                *)
LEMMA RecordingKeeps ==
  ASSUME RunInv, Recording, UNCHANGED <<dirs, batchRun>>,
         \/ phase' = "recording" /\ next' = next
         \/ phase' = "flushing" /\ next' = 1,
         taken' \in Seq(Takes), Current' = Current,
         \A k \in 1 .. Current : k # Current => taken'[k] = taken[k],
         taken'[Current].episode = Episode,
         taken'[Current].extra <= taken'[Current].last + 1
  PROVE  RunInv' /\ RunKept
<1> USE Typing DEF RunInv, Recording
<1>1. UNCHANGED <<plan, entries, report>>
  BY DEF batchRun
<1>2. Current > 0
  BY DEF FlushInv
<1>3. \A k \in 1 .. Current : taken'[k].episode = taken[k].episode
  BY DEF Episode
<1>4. RunTyped'
  <2>1. \A k \in 1 .. Current : taken'[k].extra <= taken'[k].last + 1
    BY DEF RunTyped
  <2>2. plan' \in Seq(Episodes) /\ dirs' \in [Episodes -> [Roles -> Artifact]]
    BY <1>1 DEF RunTyped
  <2>3. /\ phase' \in {"idle", "recording", "flushing"}
        /\ next' \in 1 .. Len(FlushOrder) + 1
    <3>1. Len(FlushOrder) + 1 = 15 /\ next \in 1 .. Len(FlushOrder) + 1
      BY FilesInOrder DEF RunTyped
    <3> HIDE DEF RunInv
    <3>2. next' \in 1 .. Len(FlushOrder) + 1
      <4>1. 1 \in 1 .. Len(FlushOrder) + 1
        BY <3>1
      <4> QED
        BY ONLY <3>1, <4>1, next' = next \/ next' = 1
    <3>3. phase' \in {"idle", "recording", "flushing"}
      OBVIOUS
    <3> QED
      BY <3>2, <3>3
  <2> QED
    BY <2>1, <2>2, <2>3 DEF RunTyped
<1>5. FilesInv'
  <2>1. ASSUME NEW d \in Episodes, NEW r \in Roles
        PROVE  LET k == dirs[d][r].take IN
               /\ k <= Current
               /\ k > 0 => taken'[k].episode = d /\ (r \notin AtStart => k < Current)
    BY <1>3 DEF FilesInv, Closed
  <2> QED
    BY <2>1 DEF FilesInv, Closed
<1>6. FlushInv'
  <2>1. /\ dirs'[Episode']["metadata"].take = Current'
        /\ dirs'[Episode']["config"] = [take |-> Current', whole |-> TRUE]
    BY <1>2 DEF FlushInv, Episode
  <2>2. phase' = "flushing" => \A i \in 1 .. next' - 1 : FALSE
    OBVIOUS
  <2> QED
    BY <1>2, <2>1, <2>2 DEF FlushInv
<1>7. SummaryIsLast'
  BY DEF SummaryIsLast
<1>8. ASSUME NEW table, Told(table)
      PROVE  Holds(table, taken', dirs', phase')
  BY <1>3, <1>8 DEF Told, Holds, Current
<1>9. Told(entries)' /\ Told(report)'
  BY <1>1, <1>8 DEF Told
<1>10. RunKept
  BY DEF RunKept, Closed, Exists
<1> QED
  BY <1>4, <1>5, <1>6, <1>7, <1>9, <1>10

(* A file of the recording under way is written, whole or not, or left alone.     *)
LEMMA FileKeeps ==
  ASSUME RunInv, Flushing, UNCHANGED <<taken, report>>, plan' \in Seq(Episodes),
         NEW a \in Artifact,
         a.take = Current \/ a = dirs[Episode][FlushOrder[next]],
         dirs' = [dirs EXCEPT ![Episode][FlushOrder[next]] = a],
         \/ /\ phase' = "flushing" /\ next' = next + 1 /\ UNCHANGED entries
            /\ Written(FlushOrder[next]) => a = [take |-> Current, whole |-> TRUE]
         \/ /\ phase' = "idle" /\ next' = next
            /\ UNCHANGED entries \/ entries' = Entered(Episode, 0)
  PROVE  RunInv' /\ RunKept
<1> USE Typing DEF RunInv
<1> DEFINE role == FlushOrder[next]
<1>1. /\ Current > 0 /\ Current \in Nat /\ Current' = Current /\ phase = "flushing"
      /\ next \in 1 .. 14 /\ Episode \in Episodes /\ taken[Current].episode = Episode
      /\ role \in Roles \ {"config"} /\ dirs[Episode]["metadata"].take = Current
      /\ dirs[Episode]["config"] = [take |-> Current, whole |-> TRUE]
  <2>1. phase = "flushing" /\ next \in 1 .. 14
    BY FilesInOrder DEF Flushing
  <2>2. /\ Current > 0 /\ Current' = Current /\ dirs[Episode]["metadata"].take = Current
        /\ dirs[Episode]["config"] = [take |-> Current, whole |-> TRUE]
    BY <2>1 DEF FlushInv, Current
  <2>3. Episode \in Episodes /\ taken[Current].episode = Episode
    BY <2>2 DEF Episode, Takes
  <2>4. role \in Roles \ {"config"}
    <3>1. role \in Roles
      BY <2>1, FilesInOrder DEF Roles
    <3>2. next \in 1 .. 12 \/ next = 13 \/ next = 14
      BY <2>1
    <3> QED
      BY <3>1, <3>2, FilesInOrder
  <2> QED
    BY <2>1, <2>2, <2>3, <2>4
<1>2. /\ dirs' \in [Episodes -> [Roles -> Artifact]]
      /\ \A d \in Episodes, q \in Roles :
             dirs'[d][q] = IF d = Episode /\ q = role THEN a ELSE dirs[d][q]
  <2>1. dirs \in [Episodes -> [Roles -> Artifact]]
    BY DEF RunTyped
  <2> QED
    BY <1>1, <2>1, Filed
<1>3. a.take \in Nat /\ (a.take = Current \/ a = dirs[Episode][role])
  BY DEF Artifact
<1> HIDE DEF role
<1>4. RunTyped'
  <2>1. next' \in 1 .. Len(FlushOrder) + 1 /\ phase' \in {"idle", "recording", "flushing"}
    BY <1>1, FilesInOrder
  <2>2. taken' = taken /\ plan' \in Seq(Episodes)
    OBVIOUS
  <2>3. /\ taken \in Seq(Takes)
        /\ \A k \in 1 .. Current : taken[k].extra <= taken[k].last + 1
    BY DEF RunTyped
  <2> QED
    BY <1>1, <1>2, <2>1, <2>2, <2>3 DEF RunTyped
<1>5. FilesInv'
  <2>1. ASSUME NEW d \in Episodes, NEW r \in Roles, NEW k, k = dirs'[d][r].take
        PROVE  k <= Current /\ (k > 0 => taken[k].episode = d)
    <3>1. CASE k = dirs[d][r].take
      BY <3>1 DEF FilesInv
    <3>2. CASE k # dirs[d][r].take
      <4>1. d = Episode /\ r = role /\ k = a.take /\ a # dirs[d][r]
        BY <1>2, <2>1, <3>2
      <4>2. k = Current
        BY <1>3, <4>1
      <4> QED
        BY <1>1, <4>1, <4>2
    <3> QED
      BY <3>1, <3>2
  <2> QED
    BY <1>1, <2>1 DEF FilesInv, Closed
<1>6. FlushInv'
  <2>1. Current' > 0 /\ Episode' = Episode
    BY <1>1 DEF Episode
  <2>2. /\ dirs'[Episode]["metadata"].take = Current
        /\ dirs'[Episode]["config"] = [take |-> Current, whole |-> TRUE]
    BY <1>1, <1>2, <1>3, FilesInOrder DEF Names
  <2>3. ASSUME phase' = "flushing", NEW i \in 1 .. next' - 1 PROVE Complete(Current, FlushOrder[i])'
    <3>1. /\ next' = next + 1
          /\ Written(role) => a = [take |-> Current, whole |-> TRUE]
      BY <2>3 DEF role
    <3>2. i \in 1 .. 14 /\ FlushOrder[i] \in Roles
      BY <1>1, <3>1, FilesInOrder DEF Roles
    <3>3. CASE i = next
      BY <1>1, <1>2, <3>1, <3>2, <3>3 DEF Complete, Written, role
    <3>4. CASE i # next
      <4>1. Complete(Current, FlushOrder[i])
        BY <1>1, <3>1, <3>4 DEF FlushInv
      <4>2. CASE FlushOrder[i] = role
        BY <1>1, <1>2, <3>1, <3>2, <4>2 DEF Complete, Written
      <4>3. CASE FlushOrder[i] # role
        BY <1>1, <1>2, <3>2, <4>1, <4>3 DEF Complete
      <4> QED
        BY <4>2, <4>3
    <3> QED
      BY <3>3, <3>4
  <2> QED
    BY <1>1, <2>1, <2>2, <2>3 DEF FlushInv
<1>7. SummaryIsLast'
  <2>1. ASSUME NEW d \in Episodes, NEW r \in Roles \ {"frames"}
        PROVE  dirs'[d][r].take >= dirs'[d]["summary"].take
    <3>1. /\ "summary" \in Roles /\ dirs[d][r].take >= dirs[d]["summary"].take
          /\ dirs[d][r].take <= Current /\ dirs[d]["summary"].take <= Current
      BY FilesInOrder DEF SummaryIsLast, FilesInv, Names
    <3>2. CASE d # Episode \/ role # "summary"
      <4>1. dirs'[d]["summary"] = dirs[d]["summary"]
        BY <1>2, <3>1, <3>2
      <4>2. dirs'[d][r].take \in {dirs[d][r].take, Current}
        BY <1>2, <1>3
      <4> QED
        BY <1>1, <3>1, <4>1, <4>2
    <3>3. CASE d = Episode /\ role = "summary" /\ r # "summary"
      <4>1. dirs'[d][r] = dirs[d][r]
        BY <1>2, <3>3
      <4>2. dirs'[d]["summary"].take \in {dirs[d]["summary"].take, Current}
        BY <1>2, <1>3, <3>1, <3>3
      <4>3. dirs[d][r].take = Current
        <5>1. CASE r \in {"metadata", "config"}
          BY <1>1, <3>3, <5>1
        <5>2. CASE r \notin {"metadata", "config"}
          <6>1. PICK i \in 1 .. 12 : FlushOrder[i] = r
            BY <3>3, <5>2, FilesInOrder
          <6>2. next = 13
            BY <1>1, <3>3, FilesInOrder DEF role
          <6>3. Complete(Current, r)
            BY <1>1, <6>1, <6>2 DEF FlushInv
          <6> QED
            BY <1>1, <3>3, <6>3 DEF Complete
        <5> QED
          BY <5>1, <5>2
      <4> QED
        BY <1>1, <3>1, <4>1, <4>2, <4>3
    <3>4. CASE r = "summary"
      BY <1>2, <3>4
    <3> QED
      BY <3>2, <3>3, <3>4
  <2> QED
    BY <2>1 DEF SummaryIsLast
<1>8. ASSUME NEW table, Told(table)
      PROVE  Holds(table, taken, dirs', phase')
  <2> SUFFICES ASSUME NEW d \in DOMAIN table, NEW k, k = table[d]
               PROVE  /\ d \in Episodes /\ k \in 0 .. Current
                      /\ k > 0 => k < Current
                      /\ (k > 0 /\ \A i \in k + 1 .. Current : taken[i].episode # d) =>
                             \A r \in Roles : r # "frames" \/ taken[k].last >= 0 =>
                                 dirs'[d][r] = [take |-> k, whole |-> TRUE]
    BY DEF Holds, Current
  <2>1. /\ d \in Episodes /\ k \in 0 .. Current /\ (k > 0 => k < Current)
        /\ (k > 0 /\ \A i \in k + 1 .. Current : taken[i].episode # d) =>
               \A r \in Roles : r # "frames" \/ taken[k].last >= 0 =>
                   dirs[d][r] = [take |-> k, whole |-> TRUE]
    BY <1>1, <1>8 DEF Told, Holds, Current
  <2>2. ASSUME k > 0, \A i \in k + 1 .. Current : taken[i].episode # d
        PROVE  \A r \in Roles : r # "frames" \/ taken[k].last >= 0 =>
                   dirs'[d][r] = [take |-> k, whole |-> TRUE]
    <3>1. Current \in k + 1 .. Current
      BY <1>1, <2>1, <2>2
    <3>2. d # Episode
      BY <1>1, <2>2, <3>1
    <3> QED
      BY <1>2, <2>1, <2>2, <3>2
  <2> QED
    BY <2>1, <2>2, Zenon
<1>9. Told(entries)' /\ Told(report)'
  <2>1. Holds(entries, taken, dirs', phase') /\ Holds(report, taken, dirs', phase')
    BY <1>8
  <2>2. Holds(Entered(Episode, 0), taken, dirs', phase')
    BY <1>1, <2>1, FailureEntered DEF Current
  <2> QED
    BY <2>1, <2>2 DEF Told
<1>10. RunKept
  <2>1. ASSUME NEW e \in Episodes, NEW r \in Roles, dirs[e][r].take > 0
        PROVE  dirs'[e][r].take > 0
    BY <1>1, <1>2, <1>3, <2>1
  <2> QED
    BY <1>1, <2>1 DEF RunKept, Closed, Exists
<1> QED
  BY <1>4, <1>5, <1>6, <1>7, <1>9, <1>10

(* A recording is completed with the last of its files.                          *)
LEMMA CompletionKeeps ==
  ASSUME RunInv, Finalized
  PROVE  RunInv' /\ RunKept
<1> USE Typing DEF RunInv
<1>1. /\ Current > 0 /\ Current \in Nat /\ Current' = Current /\ phase = "flushing"
      /\ Episode \in Episodes /\ taken[Current].episode = Episode
      /\ next = 15 /\ phase' = "idle" /\ UNCHANGED <<taken, dirs, next, plan, report>>
      /\ entries' = IF InBatch THEN Entered(Episode, Current) ELSE entries
  <2>1. /\ phase = "flushing" /\ next = 15
        /\ phase' = "idle" /\ UNCHANGED <<taken, dirs, next, plan, report>>
        /\ entries' = IF InBatch THEN Entered(Episode, Current) ELSE entries
    BY FilesInOrder DEF Finalized
  <2>2. Current > 0 /\ Current' = Current
    BY <2>1 DEF FlushInv, Current
  <2>3. Episode \in Episodes /\ taken[Current].episode = Episode
    BY <2>2 DEF Episode, Takes
  <2> QED
    BY <2>1, <2>2, <2>3
<1>2. RunTyped' /\ SummaryIsLast' /\ FlushInv'
  BY <1>1 DEF RunTyped, SummaryIsLast, FlushInv
<1>3. FilesInv'
  BY <1>1 DEF FilesInv, Closed
<1>4. Holds(entries, taken, dirs, "idle") /\ Holds(report, taken, dirs, "idle")
  BY IdleHolds DEF Told
<1>5. ASSUME NEW r \in Roles, r # "frames" \/ taken[Current].last >= 0
      PROVE  dirs[Episode][r] = [take |-> Current, whole |-> TRUE]
  <2>1. CASE r = "config"
    BY <1>1, <2>1 DEF FlushInv
  <2>2. CASE r # "config"
    <3>1. PICK i \in 1 .. 14 : FlushOrder[i] = r
      BY <2>2, FilesInOrder DEF Roles
    <3>2. Complete(Current, r)
      BY <1>1, <3>1 DEF FlushInv
    <3> QED
      BY <1>1, <1>5, <3>2 DEF Complete
  <2> QED
    BY <2>1, <2>2
<1>6. Holds(Entered(Episode, Current), taken, dirs, "idle")
  <2> DEFINE table == Entered(Episode, Current)
  <2>1. /\ DOMAIN table = DOMAIN entries \cup {Episode}
        /\ \A d \in DOMAIN table : table[d] = IF d = Episode THEN Current ELSE entries[d]
    BY DEF Entered
  <2> HIDE DEF table
  <2>2. ASSUME NEW d \in DOMAIN table
        PROVE  /\ d \in Episodes /\ table[d] \in 0 .. Len(taken)
               /\ (table[d] > 0 /\ \A i \in table[d] + 1 .. Len(taken) : taken[i].episode # d) =>
                      \A r \in Roles : r # "frames" \/ taken[table[d]].last >= 0 =>
                          dirs[d][r] = [take |-> table[d], whole |-> TRUE]
    <3>1. CASE d = Episode
      <4>1. table[d] = Current /\ Current \in 0 .. Len(taken)
        BY <1>1, <2>1, <3>1 DEF Current
      <4> QED
        BY <1>1, <1>5, <3>1, <4>1
    <3>2. CASE d # Episode
      <4>1. d \in DOMAIN entries /\ table[d] = entries[d]
        BY <2>1, <3>2
      <4> QED
        BY <1>4, <4>1 DEF Holds
    <3> QED
      BY <3>1, <3>2
  <2>3. Holds(table, taken, dirs, "idle")
    BY <2>2 DEF Holds
  <2> QED
    BY <2>3 DEF table
<1>7. Told(entries)' /\ Told(report)'
  BY <1>1, <1>4, <1>6 DEF Told
<1>8. RunKept
  BY <1>1 DEF RunKept, Closed, Exists
<1> QED
  BY <1>2, <1>3, <1>7, <1>8

(* The rows of a frame are counted in natural numbers.                          *)
LEMMA RowsAreNumbers ==
  ASSUME NEW n \in Nat, NEW i \in 1 .. 10
  PROVE  FrameRows(n)[Writers[i]] \in Int
<1>1. Writers[i] \in {Writers[j] : j \in DOMAIN Writers}
  BY WritersInOrder
<1>2. PairRows(n) \in Int
  <2>1. n * (n - 1) \in Int
    OBVIOUS
  <2> QED
    BY <2>1 DEF PairRows
<1>3. EdgeRows(n) \in Int
  BY <1>2 DEF EdgeRows
<1>4. Writers[i] \in {"trajectories", "pair_risks", "graph_edges", "tasks", "weather",
                      "observations", "decisions", "commands", "interventions", "events"}
  BY WritersInOrder
<1> QED
  BY <1>1, <1>2, <1>3, <1>4 DEF FrameRows, CraneRows, StateRows, EntryRows, CommandRows

LEMMA RestOfPlan ==
  ASSUME plan \in Seq(Episodes), plan # <<>>
  PROVE  Head(plan) \in Episodes /\ Tail(plan) \in Seq(Episodes)
OBVIOUS

LEMMA LastChanged ==
  ASSUME NEW t \in Takes, NEW l \in -1 .. MaxFrame
  PROVE  [t EXCEPT !.last = l] \in Takes
BY DEF Takes

LEMMA ExtraChanged ==
  ASSUME NEW t \in Takes, NEW x \in Int, NEW u \in Nat
  PROVE  [t EXCEPT !.extra = x, !.upto = u] \in Takes
BY DEF Takes

LEMMA HeldChanged ==
  ASSUME NEW t \in Takes, NEW x \in Int, NEW u \in Nat, NEW h \in Nat
  PROVE  [t EXCEPT !.extra = x, !.upto = u, !.held = h] \in Takes
BY DEF Takes

LEMMA TornIsFile ==
  ASSUME RunTyped
  PROVE  Torn \in Artifact /\ Torn.take = Current
BY Typing DEF Torn, Artifact

LEMMA RunKeeps ==
  ASSUME RunInv, RunNext \/ UNCHANGED <<recorder, batchRun>>
  PROVE  RunInv' /\ RunKept
<1> USE Typing DEF RunInv, recorder, batchRun
<1>0. plan \in Seq(Episodes) /\ <<>> \in Seq(Episodes) /\ Plan \in Seq(Episodes)
  BY RunAssumption DEF RunTyped
<1>1. CASE UNCHANGED <<recorder, batchRun>>
  <2>1. Current' = Current /\ Episode' = Episode
    BY <1>1 DEF Current, Episode
  <2>2. UNCHANGED <<taken, dirs, phase, next, plan, entries, report>>
    BY <1>1
  <2>3. RunTyped' /\ FilesInv' /\ SummaryIsLast' /\ Told(entries)' /\ Told(report)'
    BY <2>1, <2>2 DEF RunTyped, FilesInv, SummaryIsLast, Told, Closed
  <2>4. FlushInv'
    BY <2>1, <2>2 DEF FlushInv, Complete
  <2>5. RunKept
    BY <2>1, <2>2 DEF RunKept, Closed, Exists
  <2> QED
    BY <2>3, <2>4, <2>5
<1>2. CASE Serve
  <2>1. PICK e \in Served : Started(e) /\ UNCHANGED <<batchRun, mishaps>>
    BY <1>2 DEF Serve
  <2> QED
    BY <1>0, <2>1, StartKeeps DEF Episodes
<1>3. CASE NextEpisode
  <2>1. /\ Head(plan) \in Episodes /\ Started(Head(plan)) /\ Tail(plan) \in Seq(Episodes)
        /\ plan' = Tail(plan) /\ UNCHANGED <<entries, report>>
    BY <1>0, <1>3, RestOfPlan DEF NextEpisode
  <2> QED
    BY <2>1, StartKeeps
<1>4. CASE StartBatch
  <2>1. /\ UNCHANGED <<taken, dirs, next>> /\ phase' = "idle" /\ plan' \in Seq(Episodes)
        /\ entries' = NoEntries /\ report' = report
    BY <1>0, <1>4 DEF StartBatch
  <2> QED
    BY <2>1, IdleKeeps
<1>5. CASE EpisodeNotStarted
  <2>1. Head(plan) \in Episodes /\ Tail(plan) \in Seq(Episodes)
    BY <1>0, <1>5, RestOfPlan DEF EpisodeNotStarted
  <2>2. /\ phase = "idle" /\ plan' \in Seq(Episodes)
        /\ entries' = Entered(Head(plan), 0) /\ report' = report
        /\ UNCHANGED <<taken, dirs, phase, next>> \/ ConfigTorn(Head(plan))
    BY <1>0, <1>5, <2>1 DEF EpisodeNotStarted, EpisodeFails
  <2> QED
    BY <2>1, <2>2, IdleKeeps, ConfigTornKeeps
<1>6. CASE WriteReport
  <2>1. /\ UNCHANGED <<taken, dirs, next>> /\ phase' = "idle" /\ plan' \in Seq(Episodes)
        /\ UNCHANGED entries /\ report' = entries
    BY <1>0, <1>6 DEF WriteReport
  <2> QED
    BY <2>1, IdleKeeps
<1>10. CASE Killed
  <2>1. /\ UNCHANGED <<taken, next, entries, report>> /\ phase' = "idle"
        /\ plan' \in Seq(Episodes) /\ dirs' \in BrokenOff
    BY <1>0, <1>10 DEF Killed
  <2>2. CASE UNCHANGED dirs
    BY <2>1, <2>2, IdleKeeps
  <2>3. CASE ~UNCHANGED dirs
    <3>1. Flushing /\ dirs' = [dirs EXCEPT ![Episode][FlushOrder[next]] = Torn]
      BY <2>1, <2>3 DEF BrokenOff
    <3> QED
      BY <2>1, <3>1, TornIsFile, FileKeeps
  <2> QED
    BY <2>2, <2>3
<1>11. CASE EndEpisode
  <2>1. Current' = Current /\ taken' = taken /\ Recording
    BY <1>11 DEF EndEpisode, Current
  <2>2. Current \in 1 .. Current /\ taken[Current].extra <= taken[Current].last + 1
    BY <2>1 DEF RunTyped, FlushInv, Recording
  <2>3. taken \in Seq(Takes) /\ taken'[Current].episode = Episode
    BY <2>1 DEF RunTyped, Episode
  <2> QED
    BY <1>11, <2>1, <2>2, <2>3, RecordingKeeps DEF EndEpisode, Finalize
<1>12. ASSUME NEW t \in Takes, Recording, Update(t), UNCHANGED <<dirs, batchRun>>,
              t.episode = Episode, t.extra <= t.last + 1,
              \/ phase' = "recording" /\ next' = next
              \/ phase' = "flushing" /\ next' = 1
       PROVE  RunInv' /\ RunKept
  <2>1. taken \in Seq(Takes) /\ Current \in 1 .. Len(taken)
    BY <1>12 DEF RunTyped, FlushInv, Recording, Current
  <2>2. /\ taken' \in Seq(Takes) /\ Len(taken') = Len(taken)
        /\ \A k \in 1 .. Len(taken) : taken'[k] = IF k = Current THEN t ELSE taken[k]
    BY <1>12, <2>1, Replacement DEF Update
  <2>3. /\ Current' = Current /\ taken'[Current] = t
        /\ \A k \in 1 .. Current : k # Current => taken'[k] = taken[k]
    BY <2>1, <2>2 DEF Current
  <2> QED
    BY <1>12, <2>2, <2>3, RecordingKeeps
<1>13. Recording => /\ taken[Current] \in Takes /\ taken[Current].episode = Episode
                    /\ taken[Current].extra <= taken[Current].last + 1
                    /\ Episode \in Episodes
  <2>1. Recording => Current \in 1 .. Current
    BY DEF Recording, FlushInv
  <2> QED
    BY <2>1 DEF RunTyped, Episode, Takes
<1>14. CASE RecordFrame
  <2> DEFINE t == [taken[Current] EXCEPT !.last = @ + 1]
  <2>1. /\ t \in Takes /\ t.episode = Episode /\ t.extra <= t.last + 1
    <3> DEFINE old == taken[Current]
    <3>1. old \in Takes /\ old.episode = Episode /\ old.extra <= old.last + 1 /\ old.last < MaxFrame
      BY <1>13, <1>14 DEF RecordFrame
    <3> HIDE DEF old
    <3>2. old.last \in -1 .. MaxFrame /\ old.extra \in Int
      BY <3>1, RunAssumption DEF Takes
    <3>3. old.last + 1 \in -1 .. MaxFrame
      BY <3>1, <3>2, RunAssumption
    <3>4. [old EXCEPT !.last = old.last + 1] \in Takes
      BY <3>1, <3>3, LastChanged
    <3>5. /\ [old EXCEPT !.last = old.last + 1].episode = Episode
          /\ [old EXCEPT !.last = old.last + 1].extra <= [old EXCEPT !.last = old.last + 1].last + 1
      BY <3>1, <3>2 DEF Takes
    <3> QED
      BY <3>4, <3>5 DEF old
  <2>2. /\ Recording /\ Update(t) /\ UNCHANGED <<dirs, batchRun>>
        /\ phase' = "recording" /\ next' = next
    BY <1>14 DEF RecordFrame, Recording
  <2> HIDE DEF t
  <2> QED
    BY <1>12, <2>1, <2>2
<1>15. CASE FrameRefused
  <2>6. PICK i \in DOMAIN Writers :
            \E held \in 0 .. FrameRows(CraneCount[Episode])[Writers[i]] - 1 :
                Update([taken[Current] EXCEPT !.extra = taken[Current].last + 1,
                                              !.upto = i - 1, !.held = held])
    BY <1>15 DEF FrameRefused
  <2>1. PICK held \in 0 .. FrameRows(CraneCount[Episode])[Writers[i]] - 1 :
            Update([taken[Current] EXCEPT !.extra = taken[Current].last + 1,
                                          !.upto = i - 1, !.held = held])
    BY <2>6
  <2> DEFINE t == [taken[Current] EXCEPT !.extra = taken[Current].last + 1,
                                         !.upto = i - 1, !.held = held]
  <2>2. Recording /\ UNCHANGED <<dirs, batchRun>> /\ phase' = "flushing" /\ next' = 1
    BY <1>15 DEF FrameRefused, Finalize
  <2>3. i - 1 \in Nat /\ held \in Nat
    <3>1. i \in 1 .. 10
      BY WritersInOrder
    <3>2. FrameRows(CraneCount[Episode])[Writers[i]] \in Int
      BY <1>13, <2>2, <3>1, RowsAreNumbers, RunAssumption
    <3> QED
      BY <3>1, <3>2
  <2>4. /\ t \in Takes /\ t.episode = Episode /\ t.extra <= t.last + 1
    <3> DEFINE old == taken[Current]
    <3>1. old \in Takes /\ old.episode = Episode
      BY <1>13, <2>2
    <3> HIDE DEF old
    <3>2. old.last \in Int
      BY <3>1, RunAssumption DEF Takes
    <3> DEFINE new == [old EXCEPT !.extra = old.last + 1, !.upto = i - 1, !.held = held]
    <3>3. new \in Takes
      <4>1. old.last \in -1 .. MaxFrame /\ old.last + 1 \in Int
        BY <3>1, <3>2, RunAssumption DEF Takes
      <4> QED
        BY <2>3, <3>1, <4>1, HeldChanged
    <3>4. new.episode = Episode /\ new.extra <= new.last + 1
      BY <3>1, <3>2 DEF Takes
    <3> QED
      BY <3>3, <3>4 DEF old
  <2>5. Update(t)
    BY <2>1
  <2> HIDE DEF t
  <2> QED
    BY <1>12, <2>2, <2>4, <2>5
<1>16. CASE Stopped
  <2> DEFINE t == IF taken[Current].last < 0 THEN [taken[Current] EXCEPT !.last = 0]
                  ELSE [taken[Current] EXCEPT !.extra = taken[Current].last,
                                              !.upto = Len(Writers)]
  <2>1. /\ t \in Takes /\ t.episode = Episode /\ t.extra <= t.last + 1
    <3> DEFINE old == taken[Current]
    <3>1. old \in Takes /\ old.episode = Episode /\ old.extra <= old.last + 1
      BY <1>13, <1>16 DEF Stopped
    <3> HIDE DEF old
    <3>2. old.last \in -1 .. MaxFrame /\ old.last \in Int /\ old.extra \in Int
      BY <3>1, RunAssumption DEF Takes
    <3>3. CASE old.last < 0
      <4>1. old.last = -1 /\ 0 \in -1 .. MaxFrame /\ old.extra <= 1
        BY <3>1, <3>2, <3>3, RunAssumption
      <4>2. [old EXCEPT !.last = 0] \in Takes
        BY <3>1, <4>1, LastChanged
      <4>3. [old EXCEPT !.last = 0].episode = Episode /\ [old EXCEPT !.last = 0].extra <= 1
            /\ [old EXCEPT !.last = 0].last = 0
        BY <3>1, <4>1 DEF Takes
      <4> QED
        BY <3>3, <4>2, <4>3 DEF old
    <3>4. CASE ~(old.last < 0)
      <4> DEFINE new == [old EXCEPT !.extra = old.last, !.upto = Len(Writers)]
      <4>1. Len(Writers) \in Nat
        BY WritersInOrder
      <4>2. new \in Takes
        BY <3>1, <3>2, <4>1, ExtraChanged
      <4>3. new.episode = Episode /\ new.extra <= new.last + 1
        BY <3>1, <3>2 DEF Takes
      <4> QED
        BY <3>4, <4>2, <4>3 DEF old
    <3> QED
      BY <3>3, <3>4
  <2>2. /\ Recording /\ Update(t) /\ UNCHANGED <<dirs, batchRun>>
        /\ phase' = "flushing" /\ next' = 1
    BY <1>16 DEF Stopped, Finalize
  <2> HIDE DEF t
  <2> QED
    BY <1>12, <2>1, <2>2
<1>7. CASE Flush
  <2> DEFINE role == FlushOrder[next]
             a == IF Written(role) THEN [take |-> Current, whole |-> TRUE]
                  ELSE dirs[Episode][role]
  <2>1. Flushing /\ Current \in Nat /\ Episode \in Episodes /\ role \in Roles
    BY <1>7, FilesInOrder DEF Flush, Flushing, FlushInv, Episode, Takes, Roles
  <2>2. a \in Artifact
    BY <2>1 DEF Artifact
  <2>3. dirs' = [dirs EXCEPT ![Episode][role] = a]
    BY <1>7 DEF Flush
  <2>4. /\ UNCHANGED <<taken, report, entries>> /\ plan' \in Seq(Episodes)
        /\ phase' = "flushing" /\ next' = next + 1
        /\ a.take = Current \/ a = dirs[Episode][role]
        /\ Written(role) => a = [take |-> Current, whole |-> TRUE]
    BY <1>0, <1>7 DEF Flush, Flushing
  <2> HIDE DEF a
  <2> QED
    BY <2>1, <2>2, <2>3, <2>4, FileKeeps
<1>8. CASE Finalized
  BY <1>8, CompletionKeeps
<1>9. CASE FlushFails
  <2>1. /\ UNCHANGED <<taken, report>> /\ plan' \in Seq(Episodes)
        /\ phase' = "idle" /\ next' = next /\ Flushing /\ dirs' \in BrokenOff
        /\ UNCHANGED entries \/ entries' = Entered(Episode, 0)
    BY <1>0, <1>9 DEF FlushFails, EpisodeFails
  <2>2. CASE UNCHANGED dirs
    <3>1. Episode \in Episodes
      BY <2>1 DEF Flushing, FlushInv, Episode, Takes
    <3> QED
      BY <2>1, <2>2, <3>1, IdleKeeps
  <2>3. CASE ~UNCHANGED dirs
    <3>1. dirs' = [dirs EXCEPT ![Episode][FlushOrder[next]] = Torn]
      BY <2>1, <2>3 DEF BrokenOff
    <3> QED
      BY <2>1, <3>1, TornIsFile, FileKeeps
  <2> QED
    BY <2>2, <2>3
<1> QED
  BY <1>1, <1>2, <1>3, <1>4, <1>5, <1>6, <1>7, <1>8, <1>9, <1>10, <1>11, <1>14, <1>15, <1>16
     DEF RunNext

--------------------------------------------------------------------------------
(* The dataset.  A file that was found is there for good.                        *)
LEMMA DatasetNames ==
  /\ "windows" \in FileNames /\ "split_manifest" \in FileNames
  /\ \A r \in {"trajectories", "pair_risks"} : r \in RequiredFiles /\ r \in Roles
<1>1. /\ Len(DatasetFiles) = 9 /\ DatasetFiles[4] = "split_manifest"
      /\ DatasetFiles[6] = "windows" /\ DOMAIN DatasetFiles = 1 .. 9
  BY DEF DatasetFiles
<1>2. DOMAIN Tables = 1 .. 5 /\ Tables[1] = "trajectories" /\ Tables[2] = "pair_risks"
  BY DEF Tables
<1>3. "windows" \in FileNames /\ "split_manifest" \in FileNames
  <2>1. 4 \in DOMAIN DatasetFiles /\ 6 \in DOMAIN DatasetFiles
    BY <1>1
  <2> QED
    BY <1>1, <2>1 DEF FileNames
<1>4. "trajectories" \in RequiredFiles /\ "pair_risks" \in RequiredFiles
  <2>1. 1 \in DOMAIN Tables /\ 2 \in DOMAIN Tables
    BY <1>2
  <2> QED
    BY <1>2, <2>1 DEF RequiredFiles
<1> QED
  BY <1>3, <1>4, FilesInOrder DEF Names

LEMMA CountsAreNumbers ==
  ASSUME NEW t \in Takes
  PROVE  FrameCount(t) \in Nat
BY RunAssumption DEF FrameCount, Takes

LEMMA FoundKeeps ==
  ASSUME RunInv, RunKept, FoundInv,
         \/ UNCHANGED <<stage, found, verdict>>
         \/ UNCHANGED <<found, verdict>> /\ stage' # "judged"
         \/ (Discover \/ Judge) /\ UNCHANGED dirs
  PROVE  FoundInv'
<1> USE Typing DEF RunInv
<1>1. \A e \in Episodes, r \in Roles : Exists(e, r) => Exists(e, r)'
  BY DEF RunKept
<1>2. CASE UNCHANGED <<found, verdict>> /\ (stage' = stage \/ stage' # "judged")
  BY <1>1, <1>2 DEF FoundInv, Passed
<1>3. CASE Discover /\ UNCHANGED dirs
  <2>1. stage' = "found" /\ found' = [e \in Listed |-> Record(e)]
    BY <1>3 DEF Discover
  <2>2. ASSUME NEW e \in Listed
        PROVE  /\ e \in Episodes /\ Record(e).count \in Nat
               /\ Record(e).files = {r \in Roles : Exists(e, r)}
    <3>1. e \in Episodes
      BY DEF Listed
    <3>2. Exists(e, "manifest") => TakeIn(e, "manifest") \in Takes
      BY <3>1, FilesInOrder DEF Exists, TakeIn, FilesInv, Names
    <3> QED
      BY <3>1, <3>2, CountsAreNumbers DEF Record
  <2>3. DOMAIN found' = Listed /\ \A e \in Listed : found'[e] = Record(e)
    BY <2>1
  <2>4. \A e \in Listed : \A r \in found'[e].files : r \in Roles /\ Exists(e, r)'
    BY <1>1, <2>2, <2>3
  <2> QED
    BY <2>1, <2>2, <2>3, <2>4 DEF FoundInv
<1>4. CASE Judge /\ UNCHANGED dirs
  <2>1. /\ found' = found
        /\ verdict' = [e \in Episodes |-> IF e \notin DOMAIN found THEN verdict[e]
                           ELSE IF Passes(e, found[e]) THEN "passed" ELSE "failed"]
    BY <1>4 DEF Judge
  <2>2. ASSUME NEW e \in Passed' PROVE RequiredFiles \subseteq found[e].files
    <3>1. e \in DOMAIN found /\ verdict'[e] = "passed" /\ e \in Episodes
      BY <2>1 DEF Passed, FoundInv
    <3>2. Passes(e, found[e])
      BY <2>1, <3>1
    <3> QED
      BY <3>2 DEF Passes
  <2>3. \A e \in DOMAIN found : \A r \in found[e].files : Exists(e, r)'
    BY <1>1 DEF FoundInv
  <2> QED
    BY <2>1, <2>2, <2>3 DEF FoundInv
<1> QED
  BY <1>2, <1>3, <1>4

(* What a build has cut is of episodes whose tables are there.                    *)
LEMMA CutWindows ==
  ASSUME FoundInv, stage = "judged", NEW splits,
         NEW w \in Sampled(UNION {WindowsOf(e, splits[e]) : e \in Passed})
  PROVE  Placed(w) /\ w.episode \in Passed /\ w.split = splits[w.episode]
<1>1. PICK e \in Passed : w \in WindowsOf(e, splits[e])
  BY DEF Sampled
<1>2. e \in DOMAIN found /\ e \in Episodes /\ found[e].count \in Nat
  BY DEF Passed, FoundInv
<1>3. PICK f \in {n \in 0 .. found[e].count - (InputSteps + PredSteps) : n % Stride = 0} :
          w = [episode |-> e, split |-> splits[e], from |-> f,
               cranes |-> Max({found[e].cranes, 1}), positive |-> Positive(e, f)]
  BY <1>1 DEF WindowsOf
<1>4. f \in Nat
  BY <1>2, BuildAssumption
<1>5. Exists(e, "trajectories") /\ Exists(e, "pair_risks")
  BY <1>1, <1>2, DatasetNames DEF FoundInv
<1> QED
  BY <1>1, <1>2, <1>3, <1>4, <1>5 DEF Placed

LEMMA BuiltKeeps ==
  ASSUME RunKept, FoundInv, BuiltInv,
         \/ UNCHANGED <<built, dataset>>
         \/ Lay /\ UNCHANGED dirs
         \/ Write \/ WriteFails
  PROVE  BuiltInv'
<1>1. \A w : Placed(w) => Placed(w)'
  BY DatasetNames DEF Placed, RunKept
<1>2. CASE UNCHANGED <<built, dataset>>
  BY <1>1, <1>2 DEF BuiltInv
<1>3. CASE Write \/ WriteFails
  <2>1. PICK file : dataset' = [dataset EXCEPT ![File] = file]
                    /\ (file = dataset[File] \/ file.build = Len(built))
    BY <1>3 DEF Write, WriteFails
  <2>2. built' = built /\ Len(built) \in Nat
    BY <1>3 DEF Write, WriteFails, BuiltInv
  <2>3. DOMAIN dataset' = FileNames
    BY <2>1 DEF BuiltInv
  <2>4. ASSUME NEW f \in FileNames PROVE dataset'[f].build \in 0 .. Len(built)
    BY <2>1, <2>2 DEF BuiltInv
  <2> QED
    BY <1>1, <2>2, <2>3, <2>4 DEF BuiltInv
<1>4. CASE Lay /\ built' # built
  <2> DEFINE splits == Assigned(Passed)
             new == [splits |-> splits, quarantined |-> DOMAIN found \ Passed,
                     windows |-> Sampled(UNION {WindowsOf(e, splits[e]) : e \in Passed})]
  <2>1. stage = "judged" /\ built' = Append(built, new) /\ UNCHANGED dataset
    BY <1>4 DEF Lay
  <2>2. DOMAIN splits = Passed
    BY DEF Assigned
  <2>3. new.splits = splits
        /\ new.windows = Sampled(UNION {WindowsOf(e, splits[e]) : e \in Passed})
    OBVIOUS
  <2> HIDE DEF splits
  <2>4. \A w \in new.windows : Placed(w) /\ w.episode \in DOMAIN new.splits
                               /\ w.split = new.splits[w.episode]
    BY <2>1, <2>2, <2>3, CutWindows
  <2> HIDE DEF new
  <2> QED
    BY <1>1, <2>1, <2>4 DEF BuiltInv
<1>5. CASE Lay /\ built' = built
  BY <1>2, <1>5 DEF Lay
<1> QED
  BY <1>2, <1>3, <1>4, <1>5

--------------------------------------------------------------------------------
(* The conversion.                                                           *)
LEMMA SmallestOfTwo ==
  ASSUME NEW a \in Int, NEW b \in Int
  PROVE  Min({a, b}) = IF a <= b THEN a ELSE b
BY DEF Min

(* A frame of a take up to its last one is whole, and may have been recorded once   *)
(* more; the rows of a later frame are those of the extra one.                    *)
LEMMA TrajectoryRows ==
  ASSUME NEW t \in Takes, NEW f \in Nat
  PROVE  /\ RowsIn(t, "trajectories", f) \in Nat
         /\ f <= t.last => RowsIn(t, "trajectories", f) >= CraneCount[t.episode]
         /\ f > t.last /\ f # t.extra => RowsIn(t, "trajectories", f) = 0
<1> DEFINE n == CraneCount[t.episode]
           place == CHOOSE i \in DOMAIN Writers : Writers[i] = "trajectories"
           again == IF f # t.extra THEN 0
                    ELSE IF place <= t.upto THEN n ELSE IF place = t.upto + 1 THEN t.held ELSE 0
<1>1. n \in Nat /\ t.last \in Int /\ t.held \in Nat /\ t.episode \in Episodes
  BY RunAssumption DEF Takes
<1>2. "trajectories" \in {Writers[i] : i \in DOMAIN Writers}
  BY WritersInOrder
<1>3. /\ FrameRows(n)["trajectories"] = n
      /\ StopRows(n)["trajectories"] = n
  BY <1>2 DEF FrameRows, StopRows, CraneRows
<1>4. RowsIn(t, "trajectories", f) = (IF f \in 0 .. t.last THEN n ELSE 0) + again
  BY <1>3 DEF RowsIn
<1>5. again \in Nat /\ (f # t.extra => again = 0)
  BY <1>1
<1> HIDE DEF again, n
<1> QED
  BY <1>1, <1>4, <1>5 DEF n

(* Two frames in a row are more than what a refused frame can leave: the first is  *)
(* whole, so the window's number of cranes is the configuration's.                *)
LEMMA FitIsComplete ==
  ASSUME NEW w, w.from \in Nat, NEW t \in Takes, t.extra <= t.last + 1, TrajectoriesFit(w, t)
  PROVE  /\ w.cranes = CraneCount[t.episode]
         /\ \A f \in Needed(w) : RowsIn(t, "trajectories", f) = CraneCount[t.episode]
<1> DEFINE n == CraneCount[t.episode]
           Rows(f) == RowsIn(t, "trajectories", f)
<1>1. n \in Nat /\ t.last \in Int /\ t.extra \in Int
  BY RunAssumption DEF Takes
<1>2. w.from \in Needed(w) /\ w.from + 1 \in Needed(w)
  BY BuildAssumption DEF Needed
<1>3. \A f \in Needed(w) : f \in Nat /\ Rows(f) > 0 /\ Rows(f) = CranesIn(t, f)
                           /\ CranesIn(t, f) = w.cranes
  BY RunAssumption DEF TrajectoriesFit, RowsOnce, FramesIn
<1>4. w.from <= t.last
  <2>1. Rows(w.from) > 0 /\ Rows(w.from + 1) > 0 /\ w.from + 1 \in Nat
    BY <1>2, <1>3
  <2>2. w.from <= t.last \/ w.from = t.extra
    BY <1>1, <2>1, TrajectoryRows
  <2>3. w.from + 1 <= t.last \/ w.from + 1 = t.extra
    BY <1>1, <2>1, TrajectoryRows
  <2> QED
    BY <1>1, <2>2, <2>3
<1>5. Rows(w.from) \in Nat /\ Rows(w.from) >= n
  BY <1>4, TrajectoryRows
<1>6. CranesIn(t, w.from) = n
  BY <1>1, <1>5, SmallestOfTwo DEF CranesIn
<1> QED
  BY <1>2, <1>3, <1>6

LEMMA SampleSound ==
  ASSUME RunInv, NEW w, Placed(w), Loads(w)
  PROVE  Sound(Sample(w))
<1> USE Typing DEF RunInv
<1> DEFINE rows == dirs[w.episode]["trajectories"].take
           pairs == dirs[w.episode]["pair_risks"].take
<1>1. /\ rows \in 1 .. Current /\ Closed(rows) /\ taken[rows].episode = w.episode
      /\ pairs \in 1 .. Current /\ Closed(pairs) /\ taken[pairs].episode = w.episode
  BY DatasetNames DEF Placed, Exists, FilesInv, AtStart
<1>2. /\ taken[rows] \in Takes /\ taken[rows].extra <= taken[rows].last + 1
      /\ w.from \in Nat /\ TrajectoriesFit(w, taken[rows]) /\ PairsFit(w, taken[pairs])
  BY <1>1 DEF RunTyped, Placed, Loads, TakeIn
<1>3. /\ w.cranes = CraneCount[w.episode]
      /\ \A f \in Needed(w) : RowsIn(taken[rows], "trajectories", f) = CraneCount[w.episode]
  BY <1>1, <1>2, FitIsComplete
<1>4. w.cranes > 1 => RowsIn(taken[pairs], "pair_risks", Anchor(w)) > 0
  BY <1>2 DEF PairsFit
<1>5. /\ Sample(w).episode = w.episode /\ Sample(w).from = w.from
      /\ Sample(w).rows = rows /\ Sample(w).pairs = pairs
  BY DEF Sample
<1>6. Needed(Sample(w)) = Needed(w) /\ Anchor(Sample(w)) = Anchor(w)
  BY <1>5 DEF Needed, Anchor
<1> QED
  BY <1>1, <1>3, <1>4, <1>5, <1>6 DEF Sound

LEMMA SoundKeeps ==
  ASSUME RunInv, RunKept, Current' \in Nat, NEW s, Sound(s)
  PROVE  Sound(s)'
<1>1. /\ s.rows \in 1 .. Current' /\ Closed(s.rows)' /\ taken'[s.rows] = taken[s.rows]
      /\ s.pairs \in 1 .. Current' /\ Closed(s.pairs)' /\ taken'[s.pairs] = taken[s.pairs]
  <2>1. Current \in Nat /\ Current' >= Current
    BY Typing DEF RunInv, RunKept
  <2> QED
    BY <2>1 DEF Sound, RunKept
<1> QED
  BY <1>1 DEF Sound

LEMMA TrainingNames == "samples" \in {TrainingFiles[i] : i \in DOMAIN TrainingFiles}
<1>1. Len(TrainingFiles) = 4 /\ TrainingFiles[4] = "samples" /\ DOMAIN TrainingFiles = 1 .. 4
  BY DEF TrainingFiles
<1>2. 4 \in DOMAIN TrainingFiles
  BY <1>1
<1> QED
  BY <1>1, <1>2

(* The windows that match a split manifest are of one split each episode.          *)
LEMMA ReadAgrees ==
  ASSUME BuiltInv, ReadDataset
  PROVE  /\ \A w \in bundle'.windows : Placed(w)
         /\ Agree(bundle'.windows, bundle'.splits)
<1>1. PICK b \in 1 .. Len(built) : b = dataset["windows"].build
  BY DatasetNames DEF ReadDataset, Whole, BuiltInv
<1>2. /\ bundle'.windows = built[b].windows
      /\ SplitsMatch(bundle'.windows, bundle'.splits)
  BY <1>1 DEF ReadDataset, InFiles
<1>3. \A w \in bundle'.windows : Placed(w) /\ w.split = built[b].splits[w.episode]
  BY <1>1, <1>2 DEF BuiltInv
<1> QED
  BY <1>2, <1>3 DEF Agree, SplitsMatch

LEMMA ConversionKeeps ==
  ASSUME RunInv, RunKept, Current' \in Nat, BuiltInv, ConversionInv,
         \/ UNCHANGED converting
         \/ ReadDataset \/ StrictlyRefused \/ SamplesMade \/ Save \/ SaveFails
         \/ MakeSample /\ UNCHANGED <<taken, dirs, phase>>
  PROVE  ConversionInv'
<1>1. \A w : Placed(w) => Placed(w)'
  BY DatasetNames DEF Placed, RunKept
<1>2. \A s : Sound(s) => Sound(s)'
  BY SoundKeeps
<1>3. ASSUME UNCHANGED <<bundle, samples, made>>, training'["samples"] \in 0 .. Len(made)
      PROVE  ConversionInv'
  BY <1>1, <1>2, <1>3 DEF ConversionInv
<1>4. CASE UNCHANGED converting
  BY <1>3, <1>4 DEF converting, ConversionInv
<1>5. CASE SaveFails
  BY <1>3, <1>5 DEF SaveFails, ConversionInv
<1>6. CASE Save
  <2>1. UNCHANGED <<bundle, samples, made>>
        /\ training' = [training EXCEPT ![TrainingFiles[saving]] = Len(made)]
    BY <1>6 DEF Save
  <2>2. training'["samples"] \in {training["samples"], Len(made)}
    BY <2>1
  <2> QED
    BY <1>3, <2>1, <2>2 DEF ConversionInv
<1>7. CASE ReadDataset
  <2>1. samples' = {} /\ UNCHANGED <<made, training>>
    BY <1>7 DEF ReadDataset
  <2>2. /\ \A w \in bundle'.windows : Placed(w)'
        /\ Agree(bundle'.windows \cup samples', bundle'.splits)
    BY <1>1, <1>7, <2>1, ReadAgrees
  <2> QED
    BY <1>2, <2>1, <2>2 DEF ConversionInv
<1>8. CASE StrictlyRefused
  <2>1. samples' = {} /\ bundle' = NoBundle /\ UNCHANGED <<made, training>>
    BY <1>8 DEF StrictlyRefused
  <2>2. bundle'.windows = {} /\ Agree(bundle'.windows \cup samples', bundle'.splits)
    BY <2>1 DEF NoBundle, Agree
  <2> QED
    BY <1>2, <2>1, <2>2 DEF ConversionInv
<1>9. CASE SamplesMade
  <2> DEFINE new == [samples |-> samples, splits |-> bundle.splits]
  <2>1. /\ samples' = {} /\ bundle' = NoBundle /\ UNCHANGED training /\ bundle.windows = {}
        /\ made' = Append(made, new)
    BY <1>9 DEF SamplesMade
  <2>2. bundle'.windows = {} /\ Agree(bundle'.windows \cup samples', bundle'.splits)
    BY <2>1 DEF NoBundle, Agree
  <2>3. /\ Agree(new.samples, new.splits) /\ \A s \in new.samples : Sound(s)'
    BY <1>2, <2>1 DEF ConversionInv, Agree
  <2> HIDE DEF new
  <2>4. Len(made) \in Nat /\ training["samples"] \in 0 .. Len(made)
    BY DEF ConversionInv
  <2>5. /\ Len(made') = Len(made) + 1 /\ made'[Len(made) + 1] = new
        /\ \A m \in 1 .. Len(made) : made'[m] = made[m]
    BY <2>1, <2>4
  <2>6. ASSUME NEW m \in 1 .. Len(made')
        PROVE  Agree(made'[m].samples, made'[m].splits) /\ \A s \in made'[m].samples : Sound(s)'
    <3>1. CASE m = Len(made) + 1
      BY <2>3, <2>5, <3>1
    <3>2. CASE m # Len(made) + 1
      <4>1. m \in 1 .. Len(made)
        BY <2>4, <2>5, <3>2
      <4> QED
        BY <1>2, <2>5, <4>1 DEF ConversionInv
    <3> QED
      BY <3>1, <3>2
  <2>7. Len(made') \in Nat /\ training'["samples"] \in 0 .. Len(made')
    BY <2>1, <2>4, <2>5
  <2>8. (\A w \in bundle'.windows : Placed(w)') /\ (\A s \in samples' : Sound(s)')
    BY <2>1, <2>2
  <2> QED
    BY <2>2, <2>6, <2>7, <2>8 DEF ConversionInv
<1>10. CASE MakeSample /\ UNCHANGED <<taken, dirs, phase>>
  <2>1. PICK w \in bundle.windows :
            /\ samples' = samples \cup (IF Loads(w) THEN {Sample(w)} ELSE {})
            /\ bundle' = [bundle EXCEPT !.windows = @ \ {w}]
    BY <1>10 DEF MakeSample
  <2>2. UNCHANGED <<made, training>>
    BY <1>10 DEF MakeSample
  <2>3. Placed(w) /\ Agree(bundle.windows \cup samples, bundle.splits)
    BY DEF ConversionInv
  <2>4. bundle'.windows \subseteq bundle.windows /\ bundle'.splits = bundle.splits
    BY <2>1
  <2>5. \A s \in samples' : Sound(s)'
    BY <1>2, <2>1, <2>3, SampleSound DEF ConversionInv
  <2>6. Sample(w).split = w.split /\ Sample(w).episode = w.episode
    BY DEF Sample
  <2>7. ASSUME NEW s \in bundle'.windows \cup samples'
        PROVE  \E v \in bundle.windows \cup samples : v.split = s.split /\ v.episode = s.episode
    BY <2>1, <2>4, <2>6
  <2>8. Agree(bundle'.windows \cup samples', bundle'.splits)
    BY <2>3, <2>4, <2>7 DEF Agree
  <2>9. \A v \in bundle'.windows : Placed(v)'
    BY <1>1, <2>4 DEF ConversionInv
  <2>10. /\ Len(made') \in Nat /\ training'["samples"] \in 0 .. Len(made')
         /\ \A m \in 1 .. Len(made') : /\ Agree(made'[m].samples, made'[m].splits)
                                       /\ \A s \in made'[m].samples : Sound(s)'
    BY <1>2, <2>2 DEF ConversionInv
  <2> QED
    BY <2>5, <2>8, <2>9, <2>10 DEF ConversionInv
<1> QED
  BY <1>4, <1>5, <1>6, <1>7, <1>8, <1>9, <1>10

--------------------------------------------------------------------------------
LEMMA Initially == Init => PipelineInv
<1> SUFFICES ASSUME Init PROVE PipelineInv
  OBVIOUS
<1> USE DEF Init, BuildInit, RunInit
<1>1. Current = 0
  BY DEF Current
<1>2. \A e \in Episodes, r \in Roles : dirs[e][r] = Absent
  OBVIOUS
<1>3. RunTyped
  BY <1>1, FilesInOrder DEF RunTyped, Absent, Artifact
<1>4. FilesInv /\ FlushInv /\ SummaryIsLast
  BY <1>1, <1>2, FilesInOrder DEF FilesInv, FlushInv, SummaryIsLast, Absent, Names
<1>5. Told(entries) /\ Told(report)
  BY DEF Told, Holds, NoEntries
<1>6. FoundInv
  BY DEF FoundInv, NoRecords
<1>7. BuiltInv
  BY DEF BuiltInv, NoFile
<1>8. ConversionInv
  BY TrainingNames DEF ConversionInv, NoBundle, Agree
<1> QED
  BY <1>3, <1>4, <1>5, <1>6, <1>7, <1>8 DEF PipelineInv, RunInv

LEMMA StepKeeps ==
  ASSUME PipelineInv, [Next]_pipelineVars
  PROVE  PipelineInv'
<1> USE DEF PipelineInv, pipelineVars, buildVars, runVars, building, recorder
<1>1. RunNext \/ UNCHANGED <<recorder, batchRun>>
  BY DEF Next, BuildNext, WriteFails, SaveFails
<1>2. RunInv' /\ RunKept
  BY <1>1, RunKeeps
<1>3. Current' \in Nat
  BY <1>2 DEF RunInv, RunTyped, Current
<1>4. FoundInv'
  <2>1. \/ UNCHANGED <<stage, found, verdict>>
        \/ UNCHANGED <<found, verdict>> /\ stage' # "judged"
        \/ (Discover \/ Judge) /\ UNCHANGED dirs
    BY DEF Next, BuildNext, SaveFails, WriteFails, Lay, Write
  <2> QED
    BY <1>2, <2>1, FoundKeeps
<1>5. BuiltInv'
  <2>1. \/ UNCHANGED <<built, dataset>>
        \/ Lay /\ UNCHANGED dirs
        \/ Write \/ WriteFails
    BY DEF Next, BuildNext, SaveFails, Discover, Judge
  <2> QED
    BY <1>2, <2>1, BuiltKeeps
<1>6. ConversionInv'
  <2>1. \/ UNCHANGED converting
        \/ ReadDataset \/ StrictlyRefused \/ SamplesMade \/ Save \/ SaveFails
        \/ MakeSample /\ UNCHANGED <<taken, dirs, phase>>
    BY DEF Next
  <2> QED
    BY <1>2, <1>3, <2>1, ConversionKeeps
<1> QED
  BY <1>2, <1>4, <1>5, <1>6

(***************************************************************************)
(* Every reachable state of the recorder, the batch runner, the builder and the   *)
(* converter satisfies the invariant: each file is of a recording of its           *)
(* directory, the catalog's, the builds' and the samples' references are to files   *)
(* and recordings that do not change any more.                                  *)
(***************************************************************************)
THEOREM PipelineInvariant == Spec => []PipelineInv
<1>1. PipelineInv /\ [Next]_pipelineVars => PipelineInv'
  BY StepKeeps
<1> QED
  BY Initially, <1>1, PTL DEF Spec

(* finalize (recorder.py): a directory with a summary has every other file of the   *)
(* summary's recording or of a later one, whatever failed or was killed when.       *)
THEOREM SummaryComesLast == Spec => []SummaryIsLast
<1>1. PipelineInv => SummaryIsLast
  BY DEF PipelineInv, RunInv
<1> QED
  BY PipelineInvariant, <1>1, PTL

(* generation_report.json (batch_runner.py) calls an episode completed only when     *)
(* the whole of that recording is in its directory.                             *)
THEOREM ReportIsTrue == Spec => []ReportTrue
<1>1. PipelineInv => ReportTrue
  <2> SUFFICES ASSUME PipelineInv PROVE ReportTrue
    OBVIOUS
  <2>1. Holds(report, taken, dirs, phase)
    BY DEF PipelineInv, RunInv, Told
  <2> QED
    BY <2>1 DEF ReportTrue, Holds, Current
<1> QED
  BY PipelineInvariant, <1>1, PTL

(* EpisodeParquetSource.load_for_window: a sample in the index was made from a      *)
(* recording with every crane once in every frame of the sample, and pairs to label. *)
THEOREM SamplesAreSound == Spec => []SamplesSound
<1>1. PipelineInv => SamplesSound
  <2> SUFFICES ASSUME PipelineInv, NEW s \in Index.samples PROVE Sound(s)
    BY DEF SamplesSound, Sound
  <2>1. training["samples"] \in 1 .. Len(made) /\ s \in made[training["samples"]].samples
    BY DEF Index, PipelineInv, ConversionInv
  <2> QED
    BY <2>1 DEF PipelineInv, ConversionInv
<1> QED
  BY PipelineInvariant, <1>1, PTL

(* DatasetWindowReader.read: the samples of an episode are of the one split that     *)
(* the split manifest gave it.                                                 *)
THEOREM SampleSplitsAgree == Spec => []SplitsAgree
<1>1. PipelineInv => SplitsAgree
  <2> SUFFICES ASSUME PipelineInv PROVE Agree(Index.samples, Index.splits)
    BY DEF SplitsAgree, Agree
  <2>1. CASE training["samples"] = 0
    BY <2>1 DEF Index, Agree
  <2>2. CASE training["samples"] # 0
    <3>1. training["samples"] \in 1 .. Len(made) /\ Index = made[training["samples"]]
      BY <2>2 DEF Index, PipelineInv, ConversionInv
    <3> QED
      BY <3>1 DEF PipelineInv, ConversionInv
  <2> QED
    BY <2>1, <2>2
<1> QED
  BY PipelineInvariant, <1>1, PTL
================================================================================
