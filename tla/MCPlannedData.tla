----------------------------- MODULE MCPlannedData -----------------------------
(* The two ends of an episode in one run: its setup, from the configuration to     *)
(* the checked plan, and what becomes of its recordings, from the recorder to the   *)
(* samples to train on.  They share no variable, so no interleaving of them shows   *)
(* more than each shows while the other rests: a behaviour is of one of them,       *)
(* beside a setup nobody asked for or a data directory that is empty.              *)
EXTENDS MCEpisodeSetup, MCDataPipeline

NoSetup == SetupInit /\ site = Auto("medium", "balanced", "mixed")
NoData == Init

PlannedDataInit == SetupInit /\ Init

PlannedDataNext ==
    \/ NoData /\ SetupNext /\ UNCHANGED pipelineVars
    \/ NoSetup /\ Next /\ UNCHANGED setupVars

PlannedDataSpec == PlannedDataInit /\ [][PlannedDataNext]_<<setupVars, pipelineVars>>
================================================================================
