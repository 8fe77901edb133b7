--------------------------- MODULE MCOperatorDecision --------------------------
(* Three cranes on a pool of two threads, so that one waits while two ask.         *)
EXTENDS OperatorDecision
MCOrder == <<"C1", "C2", "C3">>
MCDueSets == {Crane, {"C1"}}
================================================================================
