---------------------------- MODULE DecisionRounds -----------------------------
(* What the frame loop relies on when it asks the operators: a round gives       *)
(* every crane it was asked for exactly one command, all in one step or none at   *)
(* all, and the episode fails for its operators exactly when one of them had to   *)
(* be replaced by a neutral stop MaxFailures times in a row.                      *)
EXTENDS Naturals, Sequences

CONSTANTS Crane, MaxFailures

VARIABLES
  given,      \* per crane, the commands delivered so far: "own" or "fallback"
  standing    \* "running", "llm_failed" or "raised"

vars == <<given, standing>>

Init == /\ given = [c \in Crane |-> <<>>]
        /\ standing = "running"

\* The last MaxFailures commands of a crane were all neutral stops.
GaveUp(s) == /\ Len(s) >= MaxFailures
             /\ \A i \in (Len(s) - MaxFailures + 1)..Len(s) : s[i] = "fallback"

Round(asked, answer) ==
  /\ standing = "running"
  /\ given' = [c \in Crane |-> IF c \in asked THEN Append(given[c], answer[c]) ELSE given[c]]
  /\ standing' = IF \E c \in asked : GaveUp(given'[c]) THEN "llm_failed" ELSE "running"

\* A round that raises delivers nothing and is the last one.  The documentation of
\* the operators knows no such round for an answer that cannot be used; the code
\* does (UnusableIsReplaced of OperatorDecision).
Lost == /\ standing = "running"
        /\ standing' = "raised"
        /\ UNCHANGED given

Next == \/ \E asked \in (SUBSET Crane) \ {{}} :
             \E answer \in [asked -> {"own", "fallback"}] : Round(asked, answer)
        \/ Lost

Spec == Init /\ [][Next]_vars
================================================================================
