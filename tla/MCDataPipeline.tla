------------------------------ MODULE MCDataPipeline ------------------------------
(***************************************************************************)
(* A batch of one episode, which may run again, and an episode recorded by the    *)
(* server, of one layout with two cranes; windows of one frame to learn from and   *)
(* one to predict.                                                             *)
(***************************************************************************)
EXTENDS TrainingConversion

MCPlan == <<"e1">>
MCServed == {"e2"}
MCOrder == <<"e1", "e2">>
MCCraneCount == [e \in {"e1", "e2"} |-> 2]
MCLayout == [e \in {"e1", "e2"} |-> "L1"]
MCSampling == -1

(***************************************************************************)
(* Only one order of steps that touch nothing of each other's: a recorder in       *)
(* memory or at a file nobody else reads, a batch between two episodes, a converter  *)
(* at its files and a builder at its files go on before any other does, except      *)
(* that the dataset may be read between two of its files.                       *)
(***************************************************************************)
ReadFiles == {"trajectories", "pair_risks", "graph_edges", "tasks", "weather", "observations",
              "events", "frames", "manifest", "summary"}

RecorderFirst ==
    CASE phase = "recording" -> TRUE
      [] phase = "flushing" -> next = Len(FlushOrder) + 1 \/ FlushOrder[next] \notin ReadFiles
      [] phase = "idle" -> batch /\ (plan = <<>> \/ Current < MaxTakes)

OneOrder ==
    CASE RecorderFirst -> <<taken, phase, next, batch, plan>>' # <<taken, phase, next, batch, plan>>
      [] ~RecorderFirst /\ step = "saving" -> <<step, saving>>' # <<step, saving>>
      [] ~RecorderFirst /\ step # "saving" /\ stage = "writing" ->
            <<stage, writing, step>>' # <<stage, writing, step>>
      [] OTHER -> TRUE

(* Bound: recordings and builds together. *)
Few == Len(taken) + Len(built) <= 4
================================================================================
