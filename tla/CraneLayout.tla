------------------------------- MODULE CraneLayout -------------------------------
(***************************************************************************)
(* The cranes of a scenario: what layout.py accepts of them and makes of them,   *)
(* where auto_layout.py puts them, and how it scores what it has put.            *)
(*                                                                          *)
(* On the street of TaskPlanning the ring of auto_layout.py is its two ends, so   *)
(* that a generated layout has one crane or two, and what two cranes share of     *)
(* their reach is a length.  Shares and scores are in percent.                   *)
(***************************************************************************)
EXTENDS TaskPlanning

CONSTANTS
    Mast,                  \* mast_height_range_m
    CableMin, CableMax,
    MinDistance,           \* MIN_BASE_DISTANCE_M
    Margin,                \* from the boundary to a generated base
    Spacing,               \* min_radius_for_base_spacing
    Ring,                  \* the radius by overlap level and coverage target
    OverlapShare,                 \* the overlap each level asks for, <<low, high>>
    SmallestSpan,          \* of a site that takes a generated layout
    Step, Apart, Level     \* of mast heights: 3.0 and 6.0 and 3.0 metres

Clamp(v, low, high) == Min({Max({v, low}), high})
Root(input) == Boundary.z[1] + input.mast

(* create_crane_config, of an input [base, mast, slew].                          *)
Configured(input) ==
    [base |-> input.base, mast |-> input.mast,
     hook |-> <<Max({Boundary.z[1], Root(input) - CableMax}), Root(input) - CableMin>>]

(* validate_manual_layout raises when there is a fault.                          *)
Sound(input) ==
    /\ InBoundary(input.base, Boundary.z[1])
    /\ \A f \in Forbidden : ~InZone(input.base, Boundary.z[1], f)
    /\ Within(input.mast, Mast)
    /\ Root(input) <= Boundary.z[2]
    /\ input.slew = "continuous"
LayoutValid(inputs, count) ==
    /\ Len(inputs) = count
    /\ \A i \in DOMAIN inputs : Sound(inputs[i])
    /\ \A i, j \in DOMAIN inputs : i < j => Radius(inputs[i], inputs[j].base) >= MinDistance

(* _layout_anchor: the mean of the middles of a material and a work zone.         *)
Mean(zones) == MapThenSumSet(LAMBDA n : Middle(Zones[n].x), zones) \div Cardinality(zones)
LayoutAnchor(site) ==
    IF site.materials = {} /\ site.works = {} THEN Middle(Boundary.x)
    ELSE Clamp(IF site.materials = {} \/ site.works = {} THEN Mean(site.materials \cup site.works)
               ELSE (Mean(site.materials) + Mean(site.works)) \div 2,
               Boundary.x[1] + Margin, Boundary.x[2] - Margin)

(* _placement_radius: a radius for each attempt, in turn.                        *)
PlacementRadius(site, attempt) ==
    LET base  == Max({Ring[site.overlap, site.coverage], Spacing})
        radii == <<base, (base * 3) \div 4, base \div 2, Spacing, (Spacing * 5) \div 4,
                   (base * 5) \div 4, Max({1, (base * 3) \div 2})>>
        most  == Max({1, (Boundary.x[2] - Boundary.x[1]) \div 2 - 8})
    IN  Min({Max({1, radii[((attempt - 1) % 7) + 1]}), most})

(* _height_sequence, over the lowest a pickup may be.                            *)
PickupFloor(site) ==
    Max({0, Min({FallbackPickup} \cup {Zones[n].z[1] : n \in site.materials}
                \cup {Zones[n].surface : n \in {m \in site.materials : Zones[m].surface # None}})})
MastOf(site, i) ==
    LET high == Max({Mast[1], Min({Mast[2], PickupFloor(site) + CableMax})})
        base == Middle(<<Mast[1], high>>)
    IN  CASE site.heights = "staggered"  -> Min({high, base + (i - 1) * Step})
          [] site.heights = "same_level" -> base
          [] OTHER -> Min({high, base + (IF i % 2 = 1 THEN 0 ELSE Step) + (i - 1) \div 2})

(* _candidate_inputs, the first crane on one side of the anchor or the other.      *)
CandidateInputs(site, attempt, side) ==
    [i \in 1..site.count |->
        [base |-> Clamp(LayoutAnchor(site) + (IF i % 2 = 1 THEN side ELSE -side) * PlacementRadius(site, attempt),
                        Boundary.x[1] + Margin, Boundary.x[2] - Margin),
         mast |-> MastOf(site, i), slew |-> "continuous"]]

(* build_layout_diagnostics and _score_layout.                                   *)
Pairs(cranes) == {pair \in (DOMAIN cranes) \X (DOMAIN cranes) : pair[1] < pair[2]}
Delta(cranes, pair) ==
    LET a == cranes[pair[1]].mast
        b == cranes[pair[2]].mast
    IN  Max({a - b, b - a})
Ratio(cranes, pair) ==
    LET d == Radius(cranes[pair[1]], cranes[pair[2]].base)
    IN  Max({0, ((2 * TrolleyMax - d) * 100) \div (2 * TrolleyMax)})
AverageRatio(cranes) ==
    IF Pairs(cranes) = {} THEN 0
    ELSE MapThenSumSet(LAMBDA p : Ratio(cranes, p), Pairs(cranes)) \div Cardinality(Pairs(cranes))
Percent(part, S) == (Cardinality(part) * 100) \div Cardinality(S)

OverlapScore(site, cranes) ==
    LET average == AverageRatio(cranes)
        off(v)  == Max({v - average, average - v})
        asked   == OverlapShare[site.overlap]
    IN  IF Within(average, asked) THEN 100 ELSE Max({0, 100 - Min({off(asked[1]), off(asked[2])})})
CoverageScore(cranes) ==
    LET bases == {cranes[i].base : i \in DOMAIN cranes}
    IN  Min({100, ((Max(bases) - Min(bases)) * 50) \div (Boundary.x[2] - Boundary.x[1])})
HeightScore(site, cranes) ==
    LET met    == {p \in Pairs(cranes) : Ratio(cranes, p) > 0}
        far    == {p \in met : Delta(cranes, p) >= Apart}
        close  == {p \in met : Delta(cranes, p) <= Level}
    IN  IF met = {} THEN 100
        ELSE CASE site.heights = "staggered"  -> Percent(far, met)
               [] site.heights = "same_level" -> Percent(close, met)
               [] OTHER -> IF far # {} /\ far # met THEN 100 ELSE 50
MarginScore(cranes) ==
    Min({100, Min({Min({cranes[i].base - Boundary.x[1], Boundary.x[2] - cranes[i].base}) :
                     i \in DOMAIN cranes}) * 5})
Quality(site, cranes) ==
    (OverlapScore(site, cranes) * 40 + CoverageScore(cranes) * 30
       + HeightScore(site, cranes) * 20 + MarginScore(cranes) * 10) \div 100

MeetsTargets(site, cranes) ==
    OverlapScore(site, cranes) >= 50 /\ HeightScore(site, cranes) >= 50
=============================================================================
