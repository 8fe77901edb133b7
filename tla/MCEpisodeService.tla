---------------------------- MODULE MCEpisodeService ---------------------------
(* Three request threads: one may start, one stop and one pause the episode. *)
EXTENDS EpisodeService

CONSTANTS k1, k2, k3

MCClients == {k1, k2, k3}
MCEnds    == {"completed", "failed_invalid_state"}
================================================================================
