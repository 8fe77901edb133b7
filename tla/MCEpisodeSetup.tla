----------------------------- MODULE MCEpisodeSetup -----------------------------
(* A street of 60 metres with a yard, a truck and two slabs, one of them partly   *)
(* forbidden, and configurations for each way a layout and its tasks are found.    *)
EXTENDS EpisodeSetup
Zone(x, z, ranged, surface, loads) ==
    [shape |-> "box", x |-> x, z |-> z, ranged |-> ranged, surface |-> surface,
     offset |-> 1, centreOffset |-> None, clearance |-> 3, loads |-> loads]
MCZones == [n \in {"yard", "truck", "slab", "roof", "tank"} |->
    CASE n = "yard"  -> Zone(<<12, 13>>, <<1, 2>>, TRUE, None, AnyLoad)
      [] n = "truck" -> [Zone(<<24, 24>>, <<0, 2>>, FALSE, 1, {"beam"}) EXCEPT !.centreOffset = 3]
      [] n = "slab"  -> Zone(<<36, 38>>, <<8, 12>>, FALSE, 10, AnyLoad)
      [] n = "roof"  -> Zone(<<30, 30>>, <<14, 14>>, TRUE, 14, {})
      [] OTHER       -> [Zone(<<30, 30>>, <<8, 12>>, FALSE, 10, AnyLoad) EXCEPT !.shape = "cylinder"]]
MCForbidden == {Zone(<<38, 39>>, <<9, 11>>, TRUE, None, AnyLoad),
                Zone(<<36, 36>>, <<12, 14>>, TRUE, None, AnyLoad)}
MCBoundary == [x |-> <<0, 60>>, z |-> <<0, 36>>]
MCLoads == [n \in {"beam", "panel"} |-> IF n = "beam" THEN [size |-> 1, min |-> 4, max |-> 8]
                                          ELSE [size |-> 2, min |-> 3, max |-> 3]]
MCCapacity == [r \in 0..60 |-> IF r <= 14 THEN 9 ELSE IF r <= 20 THEN 5 ELSE IF r <= 26 THEN 3 ELSE 0]
MCFallback == <<9, 10>>
MCMast == <<20, 30>>
MCRing == [l \in {"low", "medium", "high"}, c \in {"balanced", "wide_coverage", "dense_overlap"} |->
    (CASE l = "high" -> 14 [] l = "medium" -> 12 [] OTHER -> 28)
      + (CASE c = "wide_coverage" -> 10 [] c = "dense_overlap" -> -4 [] OTHER -> 0)]
MCShare == [l \in {"low", "medium", "high"} |->
    CASE l = "low" -> <<5, 20>> [] l = "medium" -> <<15, 45>> [] OTHER -> <<35, 75>>]

Auto(overlap, coverage, heights) ==
    [auto |-> TRUE, cranes |-> <<>>, count |-> 2, overlap |-> overlap, coverage |-> coverage,
     heights |-> heights, materials |-> {"yard", "truck"}, works |-> {"slab"},
     types |-> {"easy_task", "overlap_task"}, manual |-> FALSE, templates |-> <<>>, perCrane |-> 1]
Crane(base) == [base |-> base, mast |-> 24, slew |-> "continuous"]
Given(inputs) == [Auto("low", "balanced", "mixed") EXCEPT
                    !.auto = FALSE, !.cranes = inputs, !.count = Len(inputs)]
Task(crane, from, to, load) == [crane |-> crane, pickup |-> from, dropoff |-> to, load |-> load]
With(s, templates) == [s EXCEPT !.manual = TRUE, !.templates = templates, !.works = {"slab", "roof"}]
MCSites ==
    {Auto("medium", "balanced", "mixed"), Auto("medium", "balanced", "staggered"), Auto("low", "wide_coverage", "mixed"),
     [Auto("high", "dense_overlap", "same_level") EXCEPT !.types = {"stress_task"}],
     [Auto("low", "balanced", "mixed") EXCEPT !.types = {"overlap_task"}, !.count = 1],
     [Auto("low", "balanced", "mixed") EXCEPT !.works = {"tank"}],
     Given(<<Crane(26)>>), Given(<<Crane(20), Crane(28)>>), Given(<<Crane(50)>>),
     Given(<<Crane(20), Crane(24)>>), Given(<<[Crane(20) EXCEPT !.slew = "limited"]>>),
     [Given(<<Crane(26)>>) EXCEPT !.materials = {}],
     With(Given(<<Crane(26)>>), <<Task(1, "truck", "slab", "beam")>>),
     With(Given(<<Crane(20), Crane(28)>>), <<Task(0, "yard", "slab", "panel")>>),
     With(Given(<<Crane(20), Crane(28)>>), <<Task(2, "yard", "slab", "panel"), Task(1, "truck", "slab", "beam")>>),
     With(Given(<<Crane(26)>>), <<Task(2, "yard", "slab", "panel")>>),
     With(Given(<<Crane(26)>>), <<Task(1, "yard", "roof", "panel")>>),
     With(Given(<<Crane(26)>>), <<Task(1, "yard", "nowhere", "panel")>>),
     With(Given(<<Crane(26)>>), <<>>),
     With(Given(<<Crane(26)>>), <<Task(1, "yard", "slab", "crate")>>),
     With(Auto("low", "balanced", "mixed"), <<Task(0, "yard", "slab", "crate")>>),
     With(Auto("medium", "balanced", "mixed"), <<Task(1, "yard", "slab", "panel")>>)}
=============================================================================
