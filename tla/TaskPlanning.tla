------------------------------ MODULE TaskPlanning ------------------------------
(***************************************************************************)
(* What task_generation.py may draw for a crane, what                          *)
(* manual_task_validation.py says of a template, and what task_feasibility.py  *)
(* says of a task.  The three ask the same things of a pickup and a dropoff in   *)
(* their own words.                                                         *)
(*                                                                          *)
(* The site is a street: a point has one horizontal coordinate and a height,     *)
(* whole numbers of what points are rounded to, and configured bounds are whole   *)
(* too.  A weight is a number of a finer unit, for it is cut at a capacity that is *)
(* interpolated, and only then rounded.                                        *)
(***************************************************************************)
EXTENDS Integers, Sequences, FiniteSetsExt

CONSTANTS
    Zones,          \* the zones by name: records of zone_id's fields
    Forbidden,      \* site.forbidden_zones
    Boundary,       \* site.boundary: [x, z], each <<low, high>>
    LoadTypes,      \* load_types: name -> [size, min, max]
    Capacity,       \* capacity_at_radius_t: radius -> weight
    TrolleyMin, TrolleyMax,
    FallbackPickup, FallbackDropoff,   \* heights: one, and <<low, high>>
    SafeTransport,  \* safe_transport_height_m
    Unit            \* what a weight is rounded to, in the finer unit

\* No number lies halfway between two multiples of an odd unit.
ASSUME UnitAssumption == Unit \in Nat /\ Unit % 2 = 1
\* A capacity is interpolated wherever the trolley may be.
ASSUME CapacityAssumption ==
    /\ TrolleyMin \in Int /\ TrolleyMax \in Int
    /\ \A r \in TrolleyMin..TrolleyMax : Capacity[r] \in Int
    /\ \A l \in DOMAIN LoadTypes : LoadTypes[l].min \in Int /\ LoadTypes[l].max \in Int

None == -1            \* a height the configuration leaves out
AnyLoad == {"any"}    \* load_types or accepted_load_types left out

Within(v, range) == v \in range[1]..range[2]
Radius(crane, x) == IF x >= crane.base THEN x - crane.base ELSE crane.base - x
InBoundary(x, z) == Within(x, Boundary.x) /\ Within(z, Boundary.z)

(* Only boxes and polygons contain anything; a polygon without z_range_m is      *)
(* as high as one likes.                                                    *)
InZone(x, z, zone) ==
    /\ zone.shape \in {"box", "polygon"} /\ Within(x, zone.x)
    /\ zone.ranged \/ zone.shape = "box" => Within(z, zone.z)

(* The surface and the hook's target, once a height is drawn for a zone without *)
(* a construction surface.  The centre of a load is half way up, unless the zone  *)
(* says otherwise; half a unit is left out.                                    *)
Vertical(zone, load, drawn) ==
    LET size   == LoadTypes[load].size
        centre == IF zone.centreOffset = None THEN size \div 2 ELSE zone.centreOffset
    IN  IF zone.surface = None THEN [surface |-> drawn, hook |-> drawn]
        ELSE [surface |-> zone.surface,
              hook |-> zone.surface + Max({size + zone.offset, centre})]

(* The heights rng may draw for a zone.                                       *)
Heights(zone, fallback) ==
    IF zone.surface # None THEN {zone.surface}
    ELSE IF zone.ranged THEN zone.z[1]..zone.z[2] ELSE {fallback}

Point(x, v) == [x |-> x, hook |-> v.hook, surface |-> v.surface]

(* One sample of _sample_point, kept or not.                                  *)
Samples(zone, load, fallback) ==
    {Point(x, Vertical(zone, load, z)) : x \in zone.x[1]..zone.x[2], z \in Heights(zone, fallback)}
Kept(zone, p) == InZone(p.x, p.surface, zone) /\ InBoundary(p.x, p.hook)

ReachableAt(crane, x, z) ==
    Within(Radius(crane, x), <<TrolleyMin, TrolleyMax>>) /\ Within(z, crane.hook)

(* What random.Random(0) draws of a range: always the same.                    *)
Fixed(range) == range[1] + (84 * (range[2] - range[1])) \div 100
Middle(range) == (range[1] + range[2]) \div 2

(* derive_task_overlap_regions: the zones whose centre both cranes of some pair   *)
(* reach, by kind; a pair whose circles do not meet has none.                  *)
CentreHeight(zone) == IF zone.ranged THEN Fixed(zone.z) ELSE Middle(zone.z)
Overlaps(site, cranes, kind) ==
    {n \in site[kind] : \E i, j \in DOMAIN cranes :
        /\ i < j /\ Radius(cranes[i], cranes[j].base) < 2 * TrolleyMax
        /\ \A c \in {cranes[i], cranes[j]} :
              ReachableAt(c, Middle(Zones[n].x), CentreHeight(Zones[n]))}
HasRegions(site, cranes) == \E kind \in {"materials", "works"} : Overlaps(site, cranes, kind) # {}

(* _select_zone: what it chooses from for a task of a type.                       *)
Candidates(site, cranes, kind, type) ==
    LET shared == Overlaps(site, cranes, kind)
    IN  IF type # "easy_task" /\ shared # {} THEN shared ELSE site[kind]

(* _sample_load_type takes an empty list for every type, and                     *)
(* _validate_load_zone_support takes it for none.                             *)
LoadsOf(zone) ==
    IF zone.loads \in {AnyLoad, {}} THEN DOMAIN LoadTypes ELSE zone.loads \cap DOMAIN LoadTypes
Supports(zone, load) == zone.loads = AnyLoad \/ load \in zone.loads

(* Mutant: the forbidden zones are asked about the hook.                       *)
PointFaultAtHook(crane, p) ==
    IF ~Within(Radius(crane, p.x), <<TrolleyMin, TrolleyMax>>) THEN "point_outside_radius"
    ELSE IF ~Within(p.hook, crane.hook) THEN "point_height_unreachable"
    ELSE IF \E f \in Forbidden : InZone(p.x, p.hook, f) THEN "point_inside_forbidden_zone"
    ELSE ""

(* _validate_point_for_generation: what a kept point raises, "" when nothing.     *)
(* The forbidden zones are asked about the surface under the load.               *)
PointFault(crane, p) ==
    IF ~Within(Radius(crane, p.x), <<TrolleyMin, TrolleyMax>>) THEN "point_outside_radius"
    ELSE IF ~Within(p.hook, crane.hook) THEN "point_height_unreachable"
    ELSE IF \E f \in Forbidden : InZone(p.x, p.surface, f) THEN "point_inside_forbidden_zone"
    ELSE ""

(* The heaviest load of a type both ends of a task allow.                       *)
AllowedMax(crane, load, p, q) ==
    Min({LoadTypes[load].max, Capacity[Radius(crane, p.x)], Capacity[Radius(crane, q.x)]})

(* round(weight, 3).                                                         *)
Rounded(w) == ((w + Unit \div 2) \div Unit) * Unit

(* A draw that came to nothing, for a reason; or a task, without its times and    *)
(* priority.                                                                *)
Refused(reason) == [ok |-> FALSE, reason |-> reason]
Drawn(task) == [ok |-> TRUE, task |-> task]

(* The checks of _build_task_candidate once both points are drawn.               *)
Checked(crane, from, to, load, p, q) ==
    LET fault == IF PointFault(crane, p) # "" THEN PointFault(crane, p) ELSE PointFault(crane, q)
        most  == AllowedMax(crane, load, p, q)
    IN  IF fault # "" THEN {Refused(fault)}
        ELSE IF ~Supports(Zones[from], load) THEN {Refused("pickup_zone_rejects_load_type")}
        ELSE IF ~Supports(Zones[to], load) THEN {Refused("dropoff_zone_rejects_load_type")}
        ELSE IF most < LoadTypes[load].min THEN {Refused("over_capacity")}
        ELSE {Drawn([crane |-> crane, from |-> from, to |-> to, load |-> load,
                     pickup |-> p, dropoff |-> q, weight |-> Rounded(w)]) :
                w \in LoadTypes[load].min..most}

(* The points _sample_point may return, the loop failing where every sample may. *)
Sampling(zone, load, fallbacks) ==
    LET all  == UNION {Samples(zone, load, h) : h \in fallbacks}
    IN  [points |-> {p \in all : Kept(zone, p)}, fails |-> \E p \in all : ~Kept(zone, p)]

(* _build_task_candidate between two zones, with a load it was given or, when that *)
(* is "", one that is sampled.                                                *)
WithLoad(crane, from, to, load) ==
    LET s == Sampling(Zones[from], load, {FallbackPickup})
        t == Sampling(Zones[to], load, FallbackDropoff[1]..FallbackDropoff[2])
    IN  (UNION {Checked(crane, from, to, load, ends[1], ends[2]) : ends \in s.points \X t.points})
          \cup (IF s.fails \/ t.fails THEN {Refused("point_sampling_failed")} ELSE {})
LoadChoices(from, to, given) ==
    IF given # "" THEN {given} ELSE LoadsOf(Zones[from]) \cap LoadsOf(Zones[to])
Between(crane, from, to, given) ==
    IF LoadChoices(from, to, given) = {} THEN {Refused("no_supported_load_type")}
    ELSE UNION {WithLoad(crane, from, to, load) : load \in LoadChoices(from, to, given)}

(* A draw of _generate_auto_task and one of _generate_manual_task: the size of a   *)
(* load is looked up before anybody asks whether there is such a load.           *)
AutoDraws(site, cranes, crane, type) ==
    UNION {Between(crane, zones[1], zones[2], "") :
             zones \in Candidates(site, cranes, "materials", type)
                         \X Candidates(site, cranes, "works", type)}
TemplateDraws(site, crane, template) ==
    IF template.pickup \notin site.materials \/ template.dropoff \notin site.works
    THEN {Refused("unknown_zone")}
    ELSE IF template.load \notin DOMAIN LoadTypes \cup {""} THEN {Refused("KeyError")}
    ELSE Between(crane, template.pickup, template.dropoff, template.load)

(* The reasons after which a template is not tried again on the same crane.      *)
Blocking == {"point_height_unreachable", "over_capacity", "pickup_zone_rejects_load_type",
             "dropoff_zone_rejects_load_type", "no_supported_load_type", "unknown_zone"}

(* validate_manual_task_plan looks at the middle of each zone, the heaviest load   *)
(* of the type and the height of the transport.                               *)
Representative(zone, load, fallback) ==
    LET v == Vertical(zone, load, IF zone.ranged THEN Fixed(zone.z) ELSE fallback)
    IN  Point(Middle(zone.x), v)
TemplateValid(site, cranes, t) ==
    /\ t.crane \in DOMAIN cranes
    /\ t.pickup \in site.materials /\ t.dropoff \in site.works
    /\ t.load \in DOMAIN LoadTypes
    /\ Supports(Zones[t.pickup], t.load) /\ Supports(Zones[t.dropoff], t.load)
    /\ LET c == cranes[t.crane]
           p == Representative(Zones[t.pickup], t.load, FallbackPickup)
           q == Representative(Zones[t.dropoff], t.load, Middle(FallbackDropoff))
       IN  /\ ReachableAt(c, p.x, p.hook) /\ ReachableAt(c, q.x, q.hook)
           /\ Within(Max({p.hook + Zones[t.pickup].clearance, q.hook + Zones[t.dropoff].clearance,
                          SafeTransport}), c.hook)
           /\ LoadTypes[t.load].max <= Min({Capacity[Radius(c, p.x)], Capacity[Radius(c, q.x)]})

(* validate_task_feasibility: its blocking_reasons, where the forbidden zones are  *)
(* asked about the hook and the capacity about the rounded weight.               *)
Infeasible(site, task) ==
    LET c == task.crane
        ends == {task.pickup, task.dropoff}
        reason(r, holds) == IF holds THEN {r} ELSE {}
    IN  reason("unreachable", \E p \in ends : ~ReachableAt(c, p.x, p.hook))
          \cup reason("outside_site_boundary", \E p \in ends : ~InBoundary(p.x, p.hook))
          \cup reason("inside_forbidden_zone",
                      \E p \in ends, f \in Forbidden : InZone(p.x, p.hook, f))
          \cup reason("load_type", \/ task.from \notin site.materials \/ task.to \notin site.works
                                   \/ ~Supports(Zones[task.from], task.load)
                                   \/ ~Supports(Zones[task.to], task.load))
          \cup reason("over_capacity", \E p \in ends : task.weight > Capacity[Radius(c, p.x)])
=============================================================================
