---------------------------- MODULE MCTaskLifecycle ----------------------------
(* Two ordinary tasks.  The second has no planned start and a dropoff that no  *)
(* recovery may use.  Timeouts of two to six frames make every one expire.    *)
EXTENDS TaskLifecycle

MCPlannedStart  == <<1, NoTime>>
MCDeadline      == <<8, NoTime>>
MCUnrecoverable == {2}
================================================================================
