------------------------------ MODULE MCLiveStream -----------------------------
(* A log of four frames, a buffer of two, and links that fail often enough to   *)
(* use up the attempts.                                                         *)
EXTENDS LiveStream
================================================================================
