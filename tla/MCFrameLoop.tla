------------------------------ MODULE MCFrameLoop ------------------------------
(* Frames of two ticks, so that neither the decision interval nor a command's  *)
(* end need fall on a frame.                                                    *)
EXTENDS FrameLoop

CONSTANTS c1, c2

MCCranes    == {c1, c2}
MCDurations == {2, 5}
================================================================================
