------------------------------- MODULE OnlineRisk -------------------------------
(***************************************************************************)
(* Where the cranes are and how near they come: compute_hook_position and     *)
(* the jib (physics.py), evaluate_pair_risk (risk.py) and detect_collisions   *)
(* (collision.py).                                                           *)
(*                                                                          *)
(* Points are on an integer grid; Cos and Sin round the directions of the     *)
(* slew to it.  A jib is sampled at a few points where the code takes 20.     *)
(* Distances are compared as squares of the distance between centres; every   *)
(* object has the same envelope, so that a level is a bound on that square.   *)
(***************************************************************************)
EXTENDS CraneMotion, FiniteSets, FiniteSetsExt, Sequences

CONSTANTS
    Base, RootHeight,      \* base and root of each crane
    JibSamples,            \* the distances from the root at which a jib is sampled
    Cos, Sin,              \* of each step of the slew
    Bound,                 \* by level, the square of its threshold plus the envelopes
    WindBound,             \* by wind, the square of d_safe_effective plus the envelopes
    SampleFrames, Samples  \* frames between two samples, and samples in the horizon

Levels == <<"safe", "low", "medium", "high", "near_miss", "collision">>
Rank(level) == CHOOSE i \in DOMAIN Levels : Levels[i] = level
Risky == {"high", "near_miss", "collision"}

ASSUME GeometryAssumption ==
    /\ Base \in [Cranes -> Int \X Int] /\ RootHeight \in [Cranes -> Int]
    /\ JibSamples # {} /\ JibSamples \subseteq Nat
    /\ Cos \in [0..(Turn - 1) -> Int] /\ Sin \in [0..(Turn - 1) -> Int]
    /\ SampleFrames \in Nat \ {0} /\ Samples \in Nat

(* A point at distance r from the mast of c, under the jib's angle. *)
Along(c, angle, r, z) ==
    <<Base[c][1] + r * Cos[angle], Base[c][2] + r * Sin[angle], z>>

Hook(c, state) == Along(c, state.pos["slew"], state.pos["trolley"], state.pos["hoist"])

SquaredDistance(p, q) ==
    (p[1] - q[1]) * (p[1] - q[1]) + (p[2] - q[2]) * (p[2] - q[2])
        + (p[3] - q[3]) * (p[3] - q[3])

(* The jib of a crane at each step of the slew, and how near two jibs come.     *)
Jib == [c \in Cranes |-> [angle \in 0..(Turn - 1) |->
          {Along(c, angle, r, RootHeight[c]) : r \in JibSamples}]]
JibGap == [a \in Cranes, b \in Cranes, i \in 0..(Turn - 1), j \in 0..(Turn - 1) |->
             Min({SquaredDistance(p, q) : p \in Jib[a][i], q \in Jib[b][j]})]

(* distance_between_cranes, of _risk_objects: the jib, the hook and, at the      *)
(* same place, the load of each.                                             *)
Nearest(a, s, b, t) ==
    LET i == s.pos["slew"]
        j == t.pos["slew"]
        p == Hook(a, s)
        q == Hook(b, t)
    IN  Min({JibGap[a, b, i, j], SquaredDistance(p, q)}
                \cup {SquaredDistance(p, o) : o \in Jib[b][j]}
                \cup {SquaredDistance(q, o) : o \in Jib[a][i]})

(* extrapolate_state_short_horizon: the estimated velocities of the levers for *)
(* n frames; the velocity the crane has is not asked.                         *)
Projected(c, state, levers, n) ==
    LET moved(x) == state.pos[x] + (Estimated(x, levers[x]) * n) \div levers[x].slow
    IN  [state EXCEPT !.pos =
            [x \in Axes |-> IF x = "slew" THEN moved(x) % Turn
                            ELSE Clip(moved(x), Low[c][x], High[c][x])]]

(* classify_risk_level, of the nearest distance now and ahead: the safe        *)
(* distance, which grows with the wind, counts only if it is reached ahead.    *)
Classified(now, ahead, wind) ==
    LET nearest == Min({now} \cup ahead)
    IN  CASE nearest <= Bound["collision"] -> "collision"
          [] nearest > Bound["collision"] /\ nearest <= Bound["near_miss"] -> "near_miss"
          [] /\ nearest > Bound["near_miss"]
             /\ \/ nearest <= Bound["high"]
                \/ \E d \in ahead : d <= WindBound[wind] /\ nearest <= WindBound[wind] -> "high"
          [] OTHER -> IF nearest <= Bound["medium"] THEN "medium"
                      ELSE IF nearest <= Bound["low"] THEN "low" ELSE "safe"

(* evaluate_pair_risk, of the states under the given commands.                 *)
PairRisk(a, b, states, commands, wind) ==
    Classified(Nearest(a, states[a], b, states[b]),
               {LET n == k * SampleFrames
                IN  Nearest(a, Projected(a, states[a], commands[a].levers, n),
                            b, Projected(b, states[b], commands[b].levers, n))
                   : k \in 1..Samples},
               wind)

Pairs == {p \in SUBSET Cranes : Cardinality(p) = 2}

(* evaluate_online_risk: the level of every pair, and the highest one of those   *)
(* c is in.                                                                 *)
OnlineRisks(states, commands, wind) ==
    [p \in Pairs |-> LET a == CHOOSE c \in p : TRUE
                         b == CHOOSE c \in p : c # a
                     IN  PairRisk(a, b, states, commands, wind)]
LevelOf(c, risks) ==
    Levels[Max({Rank(risks[p]) : p \in {q \in Pairs : c \in q}} \cup {1})]

(* detect_collisions: what the envelopes do now, whatever the commands say.      *)
Collided(states) ==
    \E p \in Pairs : LET a == CHOOSE c \in p : TRUE
                         b == CHOOSE c \in p : c # a
                     IN  Nearest(a, states[a], b, states[b]) <= Bound["collision"]
================================================================================
