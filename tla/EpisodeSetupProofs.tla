--------------------------- MODULE EpisodeSetupProofs ---------------------------
(***************************************************************************)
(* What EpisodeSetup promises, for every site, layout and number of requests:  *)
(* a task that was drawn can be done, and a configuration that was checked      *)
(* starts.  The first is a fact about one draw (DrawIsSound) that the queues     *)
(* keep; the second is about what memory repeats: a run of the generation is a  *)
(* function of the cranes and the seed it is made with.                       *)
(***************************************************************************)
EXTENDS EpisodeSetup, SequenceTheorems, TLAPS

(* Every reason a draw may give, and everything a generation may come to.         *)
Reasons == {"point_outside_radius", "point_height_unreachable", "point_inside_forbidden_zone",
            "pickup_zone_rejects_load_type", "dropoff_zone_rejects_load_type", "over_capacity",
            "point_sampling_failed", "no_supported_load_type", "unknown_zone", "KeyError"}
Ends == Reasons \cup {"ok", "no_tasks_generated", "missing_material_or_work_zones",
                      "no_task_overlap_region", "unknown_crane", "manual_task_unassignable"}

(* What is true of a task where it is taken or set down.                         *)
PointFits(crane, p, weight) ==
    /\ ReachableAt(crane, p.x, p.hook) /\ InBoundary(p.x, p.hook)
    /\ \A f \in Forbidden : ~InZone(p.x, p.surface, f)
    /\ 2 * (weight - Capacity[Radius(crane, p.x)]) < Unit

TaskFits(t) ==
    /\ t.from \in site.materials /\ t.to \in site.works
    /\ Supports(Zones[t.from], t.load) /\ Supports(Zones[t.to], t.load)
    /\ PointFits(t.crane, t.pickup, t.weight) /\ PointFits(t.crane, t.dropoff, t.weight)

DrawSound(d) == \/ d.ok = TRUE /\ TaskFits(d.task)
                \/ d.ok = FALSE /\ d.reason \in Reasons

---------------------------------------------------------------------------
(* The least of three numbers is none above any of them. *)
LEMMA LeastOfThree ==
    ASSUME NEW a \in Int, NEW b \in Int, NEW c \in Int
    PROVE  Min({a, b, c}) \in Int /\ Min({a, b, c}) <= b /\ Min({a, b, c}) <= c
<1>1. \E x \in {a, b, c} : \A y \in {a, b, c} : x =< y
  <2>1. CASE a <= b /\ a <= c  BY <2>1
  <2>2. CASE b <= a /\ b <= c  BY <2>2
  <2>3. CASE c <= a /\ c <= b  BY <2>3
  <2> QED  BY <2>1, <2>2, <2>3
<1>2. Min({a, b, c}) \in {a, b, c} /\ \A y \in {a, b, c} : Min({a, b, c}) =< y
  BY <1>1 DEF Min
<1> QED  BY <1>2

(* A weight within the capacity exceeds it, once rounded, by less than half of    *)
(* the unit (_build_task_candidate rounds after it has cut).                   *)
LEMMA RoundingIsSmall ==
    ASSUME NEW w \in Int, NEW most \in Int, w <= most
    PROVE  2 * (Rounded(w) - most) < Unit
<1> DEFINE a == w + Unit \div 2
           q == a \div Unit
<1>1. /\ Unit \in Nat /\ Unit > 0
      /\ Unit \div 2 \in Int /\ 2 * (Unit \div 2) = Unit - 1
  BY UnitAssumption
<1>2. a \in Int  BY <1>1
<1>3. q \in Int /\ q * Unit <= a
  BY <1>1, <1>2
<1>4. Rounded(w) = q * Unit  BY DEF Rounded
<1>5. q * Unit \in Int  BY <1>1, <1>3
<1> HIDE DEF q
<1> QED  BY <1>1, <1>3, <1>4, <1>5

(* What _validate_point_for_generation raises. *)
LEMMA FaultIsAReason ==
    ASSUME NEW crane, NEW p
    PROVE  /\ PointFault(crane, p) # "" => PointFault(crane, p) \in Reasons
           /\ PointFault(crane, p) = "" =>
                /\ ReachableAt(crane, p.x, p.hook)
                /\ \A f \in Forbidden : ~InZone(p.x, p.surface, f)
  BY DEF PointFault, Reasons, ReachableAt

(* The two ways a draw ends. *)
LEMMA RefusalIsSound ==
    ASSUME NEW r \in Reasons
    PROVE  DrawSound(Refused(r))
  BY DEF DrawSound, Refused

LEMMA TaskIsSound ==
    ASSUME NEW t, TaskFits(t)
    PROVE  DrawSound(Drawn(t))
<1>1. Drawn(t).ok = TRUE /\ Drawn(t).task = t
  BY DEF Drawn
<1> QED  BY <1>1, Zenon DEF DrawSound

(* The checks after two points were kept: a task that fits, or a reason. *)
LEMMA CheckIsSound ==
    ASSUME NEW crane, NEW from \in site.materials, NEW to \in site.works,
           NEW load \in DOMAIN LoadTypes, NEW p, NEW q,
           InBoundary(p.x, p.hook), InBoundary(q.x, q.hook),
           NEW d \in Checked(crane, from, to, load, p, q)
    PROVE  DrawSound(d)
<1> DEFINE most == AllowedMax(crane, load, p, q)
           fault == IF PointFault(crane, p) # "" THEN PointFault(crane, p)
                    ELSE PointFault(crane, q)
           task(w) == [crane |-> crane, from |-> from, to |-> to, load |-> load,
                       pickup |-> p, dropoff |-> q, weight |-> Rounded(w)]
<1>1. CASE fault # ""
  <2>1. d = Refused(fault)
    BY <1>1 DEF Checked
  <2>2. fault \in Reasons
    BY <1>1, FaultIsAReason
  <2> HIDE DEF fault
  <2> QED  BY <2>1, <2>2, RefusalIsSound
<1>2. CASE fault = "" /\ ~Supports(Zones[from], load)
  <2>1. d = Refused("pickup_zone_rejects_load_type")
    BY <1>2 DEF Checked
  <2> QED  BY <2>1, RefusalIsSound DEF Reasons
<1>3. CASE fault = "" /\ Supports(Zones[from], load) /\ ~Supports(Zones[to], load)
  <2>1. d = Refused("dropoff_zone_rejects_load_type")
    BY <1>3 DEF Checked
  <2> QED  BY <2>1, RefusalIsSound DEF Reasons
<1>4. CASE /\ fault = "" /\ Supports(Zones[from], load) /\ Supports(Zones[to], load)
           /\ most < LoadTypes[load].min
  <2>1. d = Refused("over_capacity")
    BY <1>4 DEF Checked
  <2> QED  BY <2>1, RefusalIsSound DEF Reasons
<1>5. CASE /\ fault = "" /\ Supports(Zones[from], load) /\ Supports(Zones[to], load)
           /\ ~(most < LoadTypes[load].min)
  <2>1. PICK w \in LoadTypes[load].min..most : d = Drawn(task(w))
    BY <1>5 DEF Checked
  <2>2. PointFault(crane, p) = "" /\ PointFault(crane, q) = ""
    BY <1>5
  <2>3. /\ Radius(crane, p.x) \in TrolleyMin..TrolleyMax
        /\ Radius(crane, q.x) \in TrolleyMin..TrolleyMax
    BY <2>2 DEF PointFault, Within
  <2>4. /\ LoadTypes[load].min \in Int /\ LoadTypes[load].max \in Int
        /\ Capacity[Radius(crane, p.x)] \in Int /\ Capacity[Radius(crane, q.x)] \in Int
    BY <2>3, CapacityAssumption
  <2>5. /\ most \in Int /\ most <= Capacity[Radius(crane, p.x)]
        /\ most <= Capacity[Radius(crane, q.x)]
    BY <2>4, LeastOfThree DEF AllowedMax
  <2>6. /\ w \in Int /\ w <= Capacity[Radius(crane, p.x)] /\ w <= Capacity[Radius(crane, q.x)]
    BY <2>4, <2>5
  <2>7. /\ PointFits(crane, p, Rounded(w)) /\ PointFits(crane, q, Rounded(w))
    BY <2>2, <2>4, <2>6, RoundingIsSmall, FaultIsAReason DEF PointFits
  <2>8. TaskFits(task(w))
    BY <1>5, <2>7 DEF TaskFits
  <2> HIDE DEF task
  <2> QED  BY <2>1, <2>8, TaskIsSound
<1> QED  BY <1>1, <1>2, <1>3, <1>4, <1>5

(* A draw between two zones of the site: the points kept are in the boundary. *)
LEMMA LoadIsSound ==
    ASSUME NEW crane, NEW from \in site.materials, NEW to \in site.works,
           NEW load \in DOMAIN LoadTypes, NEW d \in WithLoad(crane, from, to, load)
    PROVE  DrawSound(d)
<1> DEFINE s == Sampling(Zones[from], load, {FallbackPickup})
           t == Sampling(Zones[to], load, FallbackDropoff[1]..FallbackDropoff[2])
<1>1. \/ \E ends \in s.points \X t.points : d \in Checked(crane, from, to, load, ends[1], ends[2])
      \/ d = Refused("point_sampling_failed")
  <2> DEFINE checks == UNION {Checked(crane, from, to, load, ends[1], ends[2]) :
                                ends \in s.points \X t.points}
             fails == IF s.fails \/ t.fails THEN {Refused("point_sampling_failed")} ELSE {}
  <2>1. d \in checks \cup fails
    BY Zenon DEF WithLoad
  <2> HIDE DEF s, t
  <2>2. ASSUME d \in checks
        PROVE  \E ends \in s.points \X t.points :
                   d \in Checked(crane, from, to, load, ends[1], ends[2])
    BY <2>2
  <2>3. ASSUME d \in fails
        PROVE  d = Refused("point_sampling_failed")
    BY <2>3, Zenon
  <2> HIDE DEF checks, fails
  <2>4. d \in checks \/ d \in fails
    BY <2>1
  <2> QED  BY <2>2, <2>3, <2>4, Zenon
<1>2. CASE d = Refused("point_sampling_failed")
  BY <1>2, RefusalIsSound DEF Reasons
<1>3. ASSUME NEW ends \in s.points \X t.points,
             d \in Checked(crane, from, to, load, ends[1], ends[2])
      PROVE  DrawSound(d)
  <2>1. ends[1] \in s.points /\ ends[2] \in t.points
    <3> HIDE DEF s, t
    <3> QED  OBVIOUS
  <2>2. InBoundary(ends[1].x, ends[1].hook) /\ InBoundary(ends[2].x, ends[2].hook)
    BY <2>1 DEF Sampling, Kept
  <2> QED  BY <1>3, <2>2, CheckIsSound
<1> HIDE DEF s, t
<1> QED  BY <1>1, <1>2, <1>3

LEMMA BetweenIsSound ==
    ASSUME NEW crane, NEW from \in site.materials, NEW to \in site.works,
           NEW given \in DOMAIN LoadTypes \cup {""},
           NEW d \in Between(crane, from, to, given)
    PROVE  DrawSound(d)
<1>1. CASE LoadChoices(from, to, given) = {}
  <2>1. d = Refused("no_supported_load_type")
    BY <1>1 DEF Between
  <2> QED  BY <2>1, RefusalIsSound DEF Reasons
<1>2. CASE LoadChoices(from, to, given) # {}
  <2>1. PICK load \in LoadChoices(from, to, given) : d \in WithLoad(crane, from, to, load)
    BY <1>2 DEF Between
  <2>2. load \in DOMAIN LoadTypes
    BY DEF LoadChoices, LoadsOf
  <2> QED  BY <2>1, <2>2, LoadIsSound
<1> QED  BY <1>1, <1>2

(* The draws of both kinds. *)
LEMMA AutoDrawIsSound ==
    ASSUME NEW layout, NEW crane, NEW type, NEW d \in AutoDraws(site, layout, crane, type)
    PROVE  DrawSound(d)
<1>1. PICK zones \in Candidates(site, layout, "materials", type)
                        \X Candidates(site, layout, "works", type) :
           d \in Between(crane, zones[1], zones[2], "")
  BY DEF AutoDraws
<1>2. zones[1] \in site.materials /\ zones[2] \in site.works
  BY DEF Candidates, Overlaps
<1> QED  BY <1>1, <1>2, BetweenIsSound

LEMMA TemplateDrawIsSound ==
    ASSUME NEW crane, NEW template, NEW d \in TemplateDraws(site, crane, template)
    PROVE  DrawSound(d)
<1>1. CASE template.pickup \notin site.materials \/ template.dropoff \notin site.works
  <2>1. d = Refused("unknown_zone")
    BY <1>1 DEF TemplateDraws
  <2> QED  BY <2>1, RefusalIsSound DEF Reasons
<1>2. CASE /\ template.pickup \in site.materials /\ template.dropoff \in site.works
           /\ template.load \notin DOMAIN LoadTypes \cup {""}
  <2>1. d = Refused("KeyError")
    BY <1>2 DEF TemplateDraws
  <2> QED  BY <2>1, RefusalIsSound DEF Reasons
<1>3. CASE /\ template.pickup \in site.materials /\ template.dropoff \in site.works
           /\ template.load \in DOMAIN LoadTypes \cup {""}
  BY <1>3, BetweenIsSound DEF TemplateDraws
<1> QED  BY <1>1, <1>2, <1>3

---------------------------------------------------------------------------
(* The inductive invariant.                                                  *)

Fields == {"cranes", "seed", "item", "type", "crane", "tries", "feasible", "blocked", "tasks",
           "out"}
UnderWay == doing \in {"precheck", "plan"}

(* Which run is under way: of the layout tried, or of the one that was resolved.   *)
ShapeInv ==
    /\ site \in Sites
    /\ doing \in {"idle", "resolve", "precheck", "plan"}
    /\ request \in IF doing = "idle" THEN {"none"} ELSE {"validate", "start"}
    /\ IF UnderWay THEN DOMAIN gen = Fields /\ gen.cranes = cranes /\ gen.seed = "task"
       ELSE gen = Idle
    /\ DOMAIN memory = {"resolved", "plans"}
    /\ memory.resolved \in {Idle, NoneFound} \/ memory.resolved.out = "ok"
    /\ doing = "precheck" => site.auto /\ memory.resolved = Idle
    /\ doing = "plan" => memory.resolved.out = "ok" /\ cranes = memory.resolved.cranes

(* What the run has drawn so far.                                              *)
AreTasks(s) == s \in Seq({s[i] : i \in DOMAIN s}) /\ \A i \in DOMAIN s : TaskFits(s[i])
DrawnInv ==
    UnderWay => /\ AreTasks(gen.tasks)
                /\ \A t \in gen.feasible : TaskFits(t)
                /\ gen.blocked \in Reasons \cup {""}
                /\ gen.out \in Ends \cup {""}

(* A run is a function of cranes and seed, and the one under way comes to what an   *)
(* equal one came to before.                                                  *)
SamePlan(p, q) == p.cranes = q.cranes /\ p.seed = q.seed
OkPlan(layout) == \E p \in memory.plans : p.cranes = layout /\ p.seed = "task" /\ p.out = "ok"
MemoryInv ==
    /\ \A p \in memory.plans : p.out \in Ends
    /\ \A p, q \in memory.plans : SamePlan(p, q) => p.out = q.out
    /\ UnderWay => \A p \in memory.plans : SamePlan(p, gen) => gen.out = p.out
    /\ best = Unsearched \/ OkPlan(best.cranes)
    /\ site.auto /\ memory.resolved.out = "ok" => OkPlan(memory.resolved.cranes)

(* An accepted validation leaves a layout behind and, of manual tasks, a run that   *)
(* ended well.                                                               *)
Accepted(a) == a.kind = "validate" /\ a.ok
FailedStart(a) == a.kind = "start" /\ ~a.ok
AnswersInv ==
    /\ answers \in Seq({answers[i] : i \in DOMAIN answers})
    /\ \A i \in DOMAIN answers : Accepted(answers[i]) =>
          /\ memory.resolved.out = "ok"
          /\ site.manual => OkPlan(memory.resolved.cranes)

IInv == ShapeInv /\ DrawnInv /\ MemoryInv /\ AnswersInv /\ CheckedConfigStarts

---------------------------------------------------------------------------
(* A sequence and one more element. *)
LEMMA OneMore ==
    ASSUME NEW s, s \in Seq({s[i] : i \in DOMAIN s}), NEW e
    PROVE  LET t == Append(s, e) IN
           /\ t \in Seq({t[i] : i \in DOMAIN t})
           /\ Len(s) \in Nat /\ DOMAIN s = 1..Len(s) /\ DOMAIN t = 1..(Len(s) + 1)
           /\ \A i \in 1..Len(s) : t[i] = s[i]
           /\ t[Len(s) + 1] = e
<1> DEFINE S == {s[i] : i \in DOMAIN s} \cup {e}
           t == Append(s, e)
<1>1. s \in Seq(S) /\ e \in S
  <2>1. Len(s) \in Nat /\ DOMAIN s = 1..Len(s) /\ s \in [1..Len(s) -> {s[i] : i \in DOMAIN s}]
    BY LenProperties
  <2>2. s \in [1..Len(s) -> S]
    BY <2>1
  <2> QED  BY <2>1, <2>2, IsASeq
<1> HIDE DEF S
<1>2. /\ t \in Seq(S) /\ Len(t) = Len(s) + 1
      /\ \A i \in 1..Len(s) : t[i] = s[i]
      /\ t[Len(s) + 1] = e
  BY <1>1, AppendProperties
<1>3. Len(s) \in Nat /\ DOMAIN s = 1..Len(s) /\ DOMAIN t = 1..(Len(s) + 1)
  BY <1>1, <1>2, LenProperties
<1>5. t \in Seq({t[i] : i \in DOMAIN t})
  <2> DEFINE T == {t[i] : i \in DOMAIN t}
  <2>1. t \in [1..Len(t) -> T]
    <3> HIDE DEF t
    <3> QED  BY <1>2, <1>3, LenProperties
  <2>2. Len(t) \in Nat
    BY <1>2, <1>3
  <2> HIDE DEF T
  <2>3. t \in Seq(T)
    <3> HIDE DEF t
    <3> QED  BY <2>1, <2>2, IsASeq
  <2> QED  BY <2>3 DEF T
<1> QED  BY <1>2, <1>3, <1>5

LEMMA OneMoreTask ==
    ASSUME NEW s, AreTasks(s), NEW e, TaskFits(e)
    PROVE  AreTasks(Append(s, e))
<1> DEFINE t == Append(s, e)
<1>1. /\ t \in Seq({t[i] : i \in DOMAIN t})
      /\ Len(s) \in Nat /\ DOMAIN s = 1..Len(s) /\ DOMAIN t = 1..(Len(s) + 1)
      /\ \A i \in 1..Len(s) : t[i] = s[i]
      /\ t[Len(s) + 1] = e
  BY OneMore DEF AreTasks
<1>2. ASSUME NEW i \in DOMAIN t
      PROVE  TaskFits(t[i])
  <2> HIDE DEF t
  <2>1. CASE i = Len(s) + 1
    BY <1>1, <2>1
  <2>2. CASE i \in 1..Len(s)
    BY <1>1, <2>2 DEF AreTasks
  <2> QED  BY <1>1, <2>1, <2>2
<1> QED  BY <1>1, <1>2 DEF AreTasks

(* The first state, with nothing asked or drawn. *)
LEMMA InitHolds == SetupInit => IInv
<1> SUFFICES ASSUME SetupInit PROVE IInv
  OBVIOUS
<1>1. ShapeInv
  BY DEF SetupInit, ShapeInv, UnderWay
<1>2. DrawnInv
  BY DEF SetupInit, DrawnInv, UnderWay
<1>3. MemoryInv
  BY DEF SetupInit, MemoryInv, UnderWay, Idle
<1>4. AnswersInv
  BY EmptySeq DEF SetupInit, AnswersInv
<1>5. CheckedConfigStarts
  BY DEF SetupInit, CheckedConfigStarts
<1> QED  BY <1>1, <1>2, <1>3, <1>4, <1>5 DEF IInv

---------------------------------------------------------------------------
(* The run of the generation: a step of it changes gen alone, and gen.out was "".   *)

(* What a run that is new comes to is nobody's concern but its own. *)
LEMMA RunStep ==
    ASSUME IInv, Setting, UnderWay, gen.out = "",
           DOMAIN gen' = Fields, gen'.cranes = gen.cranes, gen'.seed = gen.seed,
           AreTasks(gen'.tasks), \A t \in gen'.feasible : TaskFits(t),
           gen'.blocked \in Reasons \cup {""}, gen'.out \in Ends \cup {""}
    PROVE  IInv'
<1>1. UNCHANGED <<site, request, doing, attempt, best, cranes, memory, answers>>
  BY DEF Setting, search
<1>2. ShapeInv'
  BY <1>1 DEF IInv, ShapeInv, UnderWay
<1>3. DrawnInv'
  BY <1>1 DEF DrawnInv, AreTasks, TaskFits
<1>4. MemoryInv'
  <2>1. \A p \in memory.plans : ~SamePlan(p, gen)
    BY DEF IInv, MemoryInv, Ends, Reasons
  <2>2. \A p \in memory.plans : ~SamePlan(p, gen')
    BY <2>1 DEF SamePlan
  <2> QED  BY <1>1, <2>2 DEF IInv, MemoryInv, OkPlan, UnderWay
<1>5. AnswersInv' /\ CheckedConfigStarts'
  BY <1>1 DEF IInv, AnswersInv, CheckedConfigStarts, OkPlan, Accepted
<1> QED  BY <1>2, <1>3, <1>4, <1>5 DEF IInv

(* What such a step may start from. *)
LEMMA RunBefore ==
    ASSUME IInv, UnderWay
    PROVE  /\ DOMAIN gen = Fields /\ AreTasks(gen.tasks)
           /\ \A t \in gen.feasible : TaskFits(t)
           /\ gen.blocked \in Reasons \cup {""}
           /\ gen.out \in Ends \cup {""}
  BY DEF IInv, ShapeInv, DrawnInv

LEMMA SampleTypeKeeps == ASSUME IInv, SampleType PROVE IInv'
<1>1. PICK type : gen' = [gen EXCEPT !.type = type]
  BY DEF SampleType
<1>2. UnderWay /\ gen.out = "" /\ Setting
  BY DEF SampleType, Generating, UnderWay
<1>3. /\ DOMAIN gen' = Fields /\ gen'.cranes = gen.cranes /\ gen'.seed = gen.seed
      /\ gen'.tasks = gen.tasks /\ gen'.feasible = gen.feasible
      /\ gen'.blocked = gen.blocked /\ gen'.out = gen.out
  BY <1>1, <1>2, RunBefore DEF Fields
<1> QED  BY <1>2, <1>3, RunBefore, RunStep

(* The step that ends a run, and the one that takes a task. *)
LEMMA RaiseKeeps ==
    ASSUME IInv, UnderWay, gen.out = "", Setting, NEW reason \in Ends, Raise(reason)
    PROVE  IInv'
<1>1. /\ DOMAIN gen' = Fields /\ gen'.cranes = gen.cranes /\ gen'.seed = gen.seed
      /\ gen'.tasks = gen.tasks /\ gen'.feasible = gen.feasible
      /\ gen'.blocked = gen.blocked /\ gen'.out = reason
  BY RunBefore DEF Fields, Raise
<1> QED  BY <1>1, RunBefore, RunStep

LEMMA AcceptKeeps ==
    ASSUME IInv, UnderWay, gen.out = "", Setting, NEW task, TaskFits(task), Accept(task)
    PROVE  IInv'
<1>1. /\ DOMAIN gen' = Fields /\ gen'.cranes = gen.cranes /\ gen'.seed = gen.seed
      /\ gen'.tasks = Append(gen.tasks, task) /\ gen'.feasible = {}
      /\ gen'.blocked = "" /\ gen'.out = gen.out
  BY RunBefore DEF Fields, Accept
<1>2. AreTasks(gen'.tasks)
  <2>1. AreTasks(Append(gen.tasks, task))
    BY RunBefore, OneMoreTask
  <2> QED  BY <1>1, <2>1 DEF AreTasks
<1> QED  BY <1>1, <1>2, RunStep

LEMMA DrawAutoKeeps == ASSUME IInv, DrawAuto PROVE IInv'
<1>1. UnderWay /\ gen.out = "" /\ Setting
  BY DEF DrawAuto, Generating, UnderWay
<1>2. PICK d \in AutoDraws(site, gen.cranes, CraneOf(gen.item), gen.type) :
         IF d.ok THEN Accept(d.task)
         ELSE IF gen.tries + 1 < MaxAttempts THEN gen' = [gen EXCEPT !.tries = @ + 1]
         ELSE Raise(d.reason)
  BY DEF DrawAuto
<1>3. DrawSound(d)
  BY <1>2, AutoDrawIsSound
<1>4. CASE d.ok = TRUE /\ TaskFits(d.task)
  <2>1. Accept(d.task)
    BY <1>2, <1>4
  <2> QED  BY <1>1, <1>4, <2>1, AcceptKeeps
<1>5. CASE d.ok = FALSE /\ d.reason \in Reasons
  <2>1. CASE gen' = [gen EXCEPT !.tries = @ + 1]
    <3>1. /\ DOMAIN gen' = Fields /\ gen'.cranes = gen.cranes /\ gen'.seed = gen.seed
          /\ gen'.tasks = gen.tasks /\ gen'.feasible = gen.feasible
          /\ gen'.blocked = gen.blocked /\ gen'.out = gen.out
      BY <1>1, <2>1, RunBefore DEF Fields
    <3> QED  BY <1>1, <3>1, RunBefore, RunStep
  <2>2. CASE Raise(d.reason)
    <3>1. d.reason \in Ends
      BY <1>5 DEF Ends
    <3> QED  BY <1>1, <2>2, <3>1, RaiseKeeps
  <2> QED  BY <1>2, <1>5, <2>1, <2>2
<1> QED  BY <1>3, <1>4, <1>5 DEF DrawSound

LEMMA DrawTemplateKeeps == ASSUME IInv, DrawTemplate PROVE IInv'
<1>1. UnderWay /\ gen.out = "" /\ Setting
  BY DEF DrawTemplate, Generating, UnderWay
<1>2. PICK d \in TemplateDraws(site, gen.cranes[TriedCranes[gen.crane]], Template) :
         gen' = IF d.ok THEN NextCrane([gen EXCEPT !.feasible = @ \cup {d.task}])
                ELSE IF d.reason = "KeyError" THEN [gen EXCEPT !.out = "KeyError"]
                ELSE IF d.reason \in Blocking
                  THEN NextCrane([gen EXCEPT !.blocked = IF @ = "" THEN d.reason ELSE @])
                ELSE IF gen.tries + 1 < MaxAttempts THEN [gen EXCEPT !.tries = @ + 1]
                ELSE NextCrane(gen)
  BY DEF DrawTemplate
<1>3. DrawSound(d)
  BY <1>2, TemplateDrawIsSound
<1>4. /\ DOMAIN gen' = Fields /\ gen'.cranes = gen.cranes /\ gen'.seed = gen.seed
      /\ gen'.tasks = gen.tasks
  BY <1>1, <1>2, RunBefore DEF Fields, NextCrane
<1>5. CASE d.ok = TRUE /\ TaskFits(d.task)
  <2>1. gen' = NextCrane([gen EXCEPT !.feasible = @ \cup {d.task}])
    BY <1>2, <1>5
  <2>2. /\ gen'.feasible = gen.feasible \cup {d.task}
        /\ gen'.blocked = gen.blocked /\ gen'.out = gen.out
    BY <1>1, <2>1, RunBefore DEF Fields, NextCrane
  <2> QED  BY <1>1, <1>4, <1>5, <2>2, RunBefore, RunStep
<1>6. CASE d.ok = FALSE /\ d.reason \in Reasons
  <2>1. /\ gen'.feasible = gen.feasible
        /\ gen'.blocked \in {gen.blocked, d.reason}
        /\ gen'.out \in {gen.out, "KeyError"}
    BY <1>1, <1>2, <1>6, RunBefore DEF Fields, NextCrane
  <2>2. gen'.blocked \in Reasons \cup {""} /\ gen'.out \in Ends \cup {""}
    BY <1>1, <1>6, <2>1, RunBefore DEF Ends, Reasons
  <2> QED  BY <1>1, <1>4, <2>1, <2>2, RunBefore, RunStep
<1> QED  BY <1>3, <1>5, <1>6 DEF DrawSound

LEMMA AssignTemplateKeeps == ASSUME IInv, AssignTemplate PROVE IInv'
<1>1. UnderWay /\ gen.out = "" /\ Setting
  BY DEF AssignTemplate, Generating, UnderWay
<1>2. CASE \E task \in gen.feasible : Accept(task)
  <2>1. PICK task \in gen.feasible : Accept(task)
    BY <1>2
  <2> QED  BY <1>1, <2>1, RunBefore, AcceptKeeps
<1>3. CASE Raise(IF TriedCranes = <<>> THEN "unknown_crane"
                 ELSE IF gen.blocked # "" THEN gen.blocked ELSE "manual_task_unassignable")
  <2> DEFINE reason == IF TriedCranes = <<>> THEN "unknown_crane"
                       ELSE IF gen.blocked # "" THEN gen.blocked ELSE "manual_task_unassignable"
  <2>1. reason \in Ends
    BY <1>1, RunBefore DEF Ends
  <2>2. Raise(reason)
    BY <1>3
  <2> HIDE DEF reason
  <2> QED  BY <1>1, <2>1, <2>2, RaiseKeeps
<1> QED  BY <1>2, <1>3 DEF AssignTemplate

LEMMA CompleteKeeps == ASSUME IInv, Complete PROVE IInv'
<1>1. UnderWay /\ gen.out = "" /\ Setting
  BY DEF Complete, UnderWay
<1>2. CASE Raise("no_tasks_generated")
  BY <1>1, <1>2, RaiseKeeps DEF Ends
<1>3. CASE Raise("ok")
  BY <1>1, <1>3, RaiseKeeps DEF Ends
<1> QED  BY <1>2, <1>3 DEF Complete

---------------------------------------------------------------------------
(* The requests: what they are answered, and what memory has then.               *)

(* What a generation starts from: the end of an equal one, where there was one. *)
LEMMA GenerationStarts ==
    ASSUME MemoryInv, gen' = Generation(cranes', "task")
    PROVE  /\ DOMAIN gen' = Fields /\ gen'.cranes = cranes' /\ gen'.seed = "task"
           /\ gen'.tasks = <<>> /\ gen'.feasible = {} /\ gen'.blocked = ""
           /\ gen'.out \in Ends \cup {""}
           /\ \A p \in memory.plans : SamePlan(p, gen') => gen'.out = p.out
<1> DEFINE known == Known(cranes', "task")
<1>1. /\ DOMAIN gen' = Fields /\ gen'.cranes = cranes' /\ gen'.seed = "task"
      /\ gen'.tasks = <<>> /\ gen'.feasible = {} /\ gen'.blocked = ""
      /\ gen'.out = IF known = {} THEN EarlyFault(cranes') ELSE (CHOOSE p \in known : TRUE).out
  BY DEF Generation, Fields
<1>2. \A p \in memory.plans : SamePlan(p, gen') <=> p \in known
  BY <1>1 DEF Known, SamePlan
<1>3. known \subseteq memory.plans /\ \A p, q \in known : p.out = q.out /\ p.out \in Ends
  BY DEF Known, MemoryInv, SamePlan
<1>4. EarlyFault(cranes') \in Ends \cup {""}
  BY DEF EarlyFault, Ends
<1> HIDE DEF known
<1>5. CASE known = {}
  BY <1>1, <1>2, <1>4, <1>5
<1>6. CASE known # {}
  <2>1. (CHOOSE p \in known : TRUE) \in known
    BY <1>6
  <2> QED  BY <1>1, <1>2, <1>3, <1>6, <2>1
<1> QED  BY <1>5, <1>6

(* A new run, with memory as it is. *)
LEMMA RunStarts ==
    ASSUME IInv, gen' = Generation(cranes', "task"), doing' \in {"precheck", "plan"},
           UNCHANGED <<site, request, attempt, best, memory, answers>>,
           request \in {"validate", "start"},
           doing' = "precheck" => site.auto /\ memory.resolved = Idle,
           doing' = "plan" => memory.resolved.out = "ok" /\ cranes' = memory.resolved.cranes
    PROVE  IInv'
<1>2. /\ DOMAIN gen' = Fields /\ gen'.cranes = cranes' /\ gen'.seed = "task"
      /\ gen'.tasks = <<>> /\ gen'.feasible = {} /\ gen'.blocked = ""
      /\ gen'.out \in Ends \cup {""}
      /\ \A p \in memory.plans : SamePlan(p, gen') => gen'.out = p.out
  BY GenerationStarts DEF IInv
<1>3. ShapeInv'
  BY <1>2 DEF IInv, ShapeInv, UnderWay
<1>4. DrawnInv'
  <2>1. ASSUME NEW s, s = <<>>
        PROVE  s \in Seq({s[i] : i \in DOMAIN s}) /\ DOMAIN s = {}
    BY <2>1, EmptySeq
  <2>2. AreTasks(gen.tasks)'
    BY <1>2, <2>1 DEF AreTasks
  <2> QED  BY <1>2, <2>2 DEF DrawnInv, AreTasks
<1>5. MemoryInv'
  BY <1>2 DEF IInv, MemoryInv, OkPlan, UnderWay, SamePlan
<1>6. AnswersInv' /\ CheckedConfigStarts'
  BY DEF IInv, AnswersInv, CheckedConfigStarts, OkPlan, Accepted
<1> QED  BY <1>3, <1>4, <1>5, <1>6 DEF IInv

LEMMA OneMoreAnswer ==
    ASSUME IInv, NEW a, answers' = Append(answers, a), UNCHANGED site,
           memory'.resolved = memory.resolved, memory.plans \subseteq memory'.plans,
           Accepted(a) => /\ memory.resolved.out = "ok"
                          /\ site.manual => OkPlan(memory.resolved.cranes)',
           FailedStart(a) =>
               /\ site.auto => a.why \in {"layout_error", "KeyError"}
               /\ memory.resolved.out = "ok" =>
                     /\ ~(site.manual /\ OkPlan(memory.resolved.cranes))
                     /\ a.why # "layout_error"
    PROVE  AnswersInv' /\ CheckedConfigStarts'
<1>1. /\ answers' \in Seq({answers'[i] : i \in DOMAIN answers'})
      /\ Len(answers) \in Nat /\ DOMAIN answers = 1..Len(answers)
      /\ DOMAIN answers' = 1..(Len(answers) + 1)
      /\ \A i \in 1..Len(answers) : answers'[i] = answers[i]
      /\ answers'[Len(answers) + 1] = a
  BY OneMore DEF IInv, AnswersInv
<1>2. OkPlan(memory.resolved.cranes) => OkPlan(memory.resolved.cranes)'
  BY DEF OkPlan
<1>3. ASSUME NEW i \in 1..Len(answers), Accepted(answers'[i])
      PROVE  /\ memory.resolved.out = "ok"
             /\ site.manual => OkPlan(memory.resolved.cranes)
  BY <1>1, <1>3 DEF IInv, AnswersInv, Accepted
<1>4. AnswersInv'
  <2>1. ASSUME NEW i \in DOMAIN answers', Accepted(answers'[i])
        PROVE  /\ memory'.resolved.out = "ok"
               /\ site'.manual => OkPlan(memory.resolved.cranes)'
    <3>1. CASE i = Len(answers) + 1
      BY <1>1, <2>1, <3>1 DEF Accepted
    <3>2. CASE i \in 1..Len(answers)
      BY <1>2, <1>3, <2>1, <3>2
    <3> QED  BY <1>1, <3>1, <3>2
  <2> QED  BY <1>1, <2>1 DEF AnswersInv, Accepted
<1>5. CheckedConfigStarts'
  <2> SUFFICES ASSUME NEW j \in DOMAIN answers', FailedStart(answers'[j])
               PROVE  /\ site.auto => answers'[j].why \in {"layout_error", "KeyError"}
                      /\ \A i \in 1..(j - 1) : Accepted(answers'[i]) =>
                             ~site.manual /\ answers'[j].why # "layout_error"
    BY DEF CheckedConfigStarts, Accepted, FailedStart
  <2>1. CASE j = Len(answers) + 1
    <3>1. FailedStart(a) /\ answers'[j] = a
      BY <1>1, <2>1 DEF FailedStart
    <3>2. \A i \in 1..(j - 1) : i \in 1..Len(answers)
      BY <1>1, <2>1
    <3> QED  BY <1>3, <3>1, <3>2
  <2>2. CASE j \in 1..Len(answers)
    <3>1. j \in DOMAIN answers /\ FailedStart(answers[j]) /\ answers'[j] = answers[j]
      BY <1>1, <2>2 DEF FailedStart
    <3>2. \A i \in 1..(j - 1) : answers'[i] = answers[i]
      BY <1>1, <2>2
    <3> QED  BY <3>1, <3>2 DEF IInv, CheckedConfigStarts, Accepted, FailedStart
  <2> QED  BY <1>1, <2>1, <2>2
<1> QED  BY <1>4, <1>5

(* An answer ends its request; what a run taught stays. *)
LEMMA RequestEnds ==
    ASSUME IInv, NEW ok, NEW why, Answer(ok, why), UNCHANGED site, gen' = Idle,
           DOMAIN memory' = {"resolved", "plans"}, MemoryInv',
           memory'.resolved = memory.resolved, memory.plans \subseteq memory'.plans,
           request = "validate" /\ ok =>
               /\ memory.resolved.out = "ok"
               /\ site.manual => OkPlan(memory.resolved.cranes)',
           request = "start" /\ ~ok =>
               /\ site.auto => why \in {"layout_error", "KeyError"}
               /\ memory.resolved.out = "ok" =>
                     /\ ~(site.manual /\ OkPlan(memory.resolved.cranes))
                     /\ why # "layout_error"
    PROVE  IInv'
<1> DEFINE a == [kind |-> request, ok |-> ok, why |-> why]
<1>1. answers' = Append(answers, a) /\ doing' = "idle" /\ request' = "none"
  BY DEF Answer
<1>2. a.kind = request /\ (a.ok <=> ok) /\ a.why = why
  OBVIOUS
<1> HIDE DEF a
<1>3. AnswersInv' /\ CheckedConfigStarts'
  BY <1>1, <1>2, OneMoreAnswer DEF Accepted, FailedStart
<1>4. ShapeInv'
  BY <1>1 DEF IInv, ShapeInv, UnderWay
<1>5. DrawnInv'
  BY <1>1 DEF DrawnInv, UnderWay
<1> QED  BY <1>3, <1>4, <1>5 DEF IInv

(* A run that has ended says what any equal one says. *)
LEMMA RunIsLearnt ==
    ASSUME IInv, Ended
    PROVE  /\ \A p \in Learnt : p.out \in Ends
           /\ \A p, q \in Learnt : SamePlan(p, q) => p.out = q.out
           /\ \E p \in Learnt : p.cranes = cranes /\ p.seed = "task" /\ p.out = gen.out
           /\ memory.plans \subseteq Learnt
<1> DEFINE new == [cranes |-> gen.cranes, seed |-> gen.seed, out |-> gen.out]
<1>1. new.cranes = gen.cranes /\ new.seed = gen.seed /\ new.out = gen.out
  OBVIOUS
<1>2. UnderWay /\ gen.out \in Ends /\ gen.cranes = cranes /\ gen.seed = "task"
  BY DEF Ended, UnderWay, IInv, ShapeInv, DrawnInv
<1>3. \A p \in memory.plans : SamePlan(p, new) => p.out = new.out
  BY <1>1, <1>2 DEF IInv, MemoryInv, SamePlan
<1>4. Learnt = memory.plans \cup {new}
  BY DEF Learnt
<1> HIDE DEF new
<1>5. \A p, q \in Learnt : SamePlan(p, q) => p.out = q.out
  BY <1>3, <1>4 DEF IInv, MemoryInv, SamePlan
<1> QED  BY <1>1, <1>2, <1>4, <1>5 DEF IInv, MemoryInv

---------------------------------------------------------------------------
(* The steps of a request.                                                   *)

(* A step between the runs: no generation before or after it. *)
LEMMA QuietStep ==
    ASSUME IInv, doing = "resolve", UNCHANGED <<site, request, doing, gen, answers>>,
           DOMAIN memory' = {"resolved", "plans"}, memory'.plans = memory.plans,
           \/ memory'.resolved = memory.resolved
           \/ /\ memory.resolved = Idle
              /\ memory'.resolved = NoneFound \/ memory'.resolved.out = "ok",
           best' = best \/ best' = Unsearched,
           site.auto /\ memory'.resolved # memory.resolved /\ memory'.resolved.out = "ok"
               => OkPlan(memory'.resolved.cranes)
    PROVE  IInv'
<1>1. ShapeInv'
  BY DEF IInv, ShapeInv, UnderWay
<1>2. DrawnInv'
  BY DEF DrawnInv, UnderWay
<1>3. MemoryInv'
  BY DEF IInv, MemoryInv, OkPlan, UnderWay, SamePlan
<1>4. AnswersInv'
  <2>1. ASSUME NEW i \in DOMAIN answers, Accepted(answers[i])
        PROVE  memory'.resolved = memory.resolved
    BY <2>1 DEF IInv, AnswersInv, Idle
  <2> QED  BY <2>1 DEF IInv, AnswersInv, OkPlan, Accepted
<1>5. CheckedConfigStarts'
  BY DEF IInv, CheckedConfigStarts
<1> QED  BY <1>1, <1>2, <1>3, <1>4, <1>5 DEF IInv

LEMMA AskKeeps == ASSUME IInv, Ask PROVE IInv'
<1>1. UNCHANGED <<site, attempt, best, cranes, gen, memory, answers>>
  BY DEF Ask, search
<1>2. ShapeInv'
  BY <1>1 DEF Ask, IInv, ShapeInv, UnderWay
<1>3. DrawnInv'
  BY DEF Ask, DrawnInv, UnderWay
<1>4. MemoryInv'
  BY <1>1 DEF Ask, IInv, MemoryInv, OkPlan, UnderWay
<1>5. AnswersInv' /\ CheckedConfigStarts'
  BY <1>1 DEF IInv, AnswersInv, CheckedConfigStarts, OkPlan, Accepted
<1> QED  BY <1>2, <1>3, <1>4, <1>5 DEF IInv

LEMMA ResolveManualKeeps == ASSUME IInv, ResolveManual PROVE IInv'
<1>1. /\ doing = "resolve" /\ memory.resolved = Idle /\ ~site.auto
      /\ UNCHANGED <<site, request, doing, gen, answers, best>>
  BY DEF ResolveManual, search
<1> DEFINE layout == [i \in DOMAIN site.cranes |-> Configured(site.cranes[i])]
           r == IF LayoutValid(site.cranes, site.count) THEN Found(layout) ELSE NoneFound
<1>2. memory' = [memory EXCEPT !.resolved = r] /\ (r = NoneFound \/ r.out = "ok")
  <2>1. memory' = [memory EXCEPT !.resolved = r]
    BY DEF ResolveManual
  <2>2. Found(layout).out = "ok"
    BY DEF Found
  <2> HIDE DEF layout
  <2> QED  BY <2>1, <2>2
<1> HIDE DEF r
<1>3. /\ DOMAIN memory' = {"resolved", "plans"}
      /\ memory'.resolved = r /\ memory'.plans = memory.plans
  BY <1>2 DEF IInv, ShapeInv
<1> QED  BY <1>1, <1>2, <1>3, QuietStep

LEMMA TryKeeps == ASSUME IInv, Try PROVE IInv'
<1>1. /\ doing = "resolve" /\ memory.resolved = Idle /\ site.auto
      /\ UNCHANGED <<site, request, memory, answers>>
  BY DEF Try, Searching
<1>2. CASE Misplaced
  <2>1. UNCHANGED <<doing, cranes, best, gen>>
    BY <1>2 DEF Misplaced
  <2>2. DOMAIN memory' = {"resolved", "plans"}
    BY <1>1 DEF IInv, ShapeInv
  <2> QED  BY <1>1, <2>1, <2>2, QuietStep
<1>3. ASSUME NEW inputs, Placed(inputs)
      PROVE  IInv'
  <2>1. gen' = Generation(cranes', "task") /\ doing' = "precheck" /\ UNCHANGED <<attempt, best>>
    BY <1>3 DEF Placed, search
  <2>2. request \in {"validate", "start"}
    BY <1>1 DEF IInv, ShapeInv
  <2> QED  BY <1>1, <2>1, <2>2, RunStarts
<1>4. Misplaced \/ \E inputs : Placed(inputs)
  BY DEF Try
<1> QED  BY <1>2, <1>3, <1>4

LEMMA PrecheckedKeeps == ASSUME IInv, Prechecked PROVE IInv'
<1>1. /\ Ended /\ doing = "precheck" /\ doing' = "resolve" /\ gen' = Idle
      /\ UNCHANGED <<site, request, answers>>
  BY DEF Prechecked
<1>2. PICK r : /\ memory' = [plans |-> Learnt, resolved |-> r]
               /\ r = Idle \/ (r = Found(cranes) /\ gen.out = "ok")
  BY DEF Prechecked
<1>3. /\ DOMAIN memory' = {"resolved", "plans"}
      /\ memory'.resolved = r /\ memory'.plans = Learnt
  BY <1>2
<1>4. /\ r = Idle \/ (r.out = "ok" /\ r.cranes = cranes /\ gen.out = "ok")
      /\ r.out = "ok" => r.cranes = cranes /\ gen.out = "ok"
  BY <1>2 DEF Found, Idle
<1>5. memory.resolved = Idle /\ site.auto /\ request \in {"validate", "start"}
  BY <1>1 DEF IInv, ShapeInv
<1>6. ShapeInv'
  BY <1>1, <1>3, <1>4, <1>5 DEF IInv, ShapeInv, UnderWay
<1>7. DrawnInv'
  BY <1>1 DEF DrawnInv, UnderWay
<1>8. MemoryInv'
  <2>1. gen.out = "ok" => \E p \in memory'.plans : /\ p.cranes = cranes /\ p.seed = "task"
                                                   /\ p.out = "ok"
    BY <1>1, <1>3, RunIsLearnt
  <2>2. best' = best \/ (best'.cranes = cranes /\ gen.out = "ok")
    BY DEF Prechecked
  <2>3. /\ \A p \in memory'.plans : p.out \in Ends
        /\ \A p, q \in memory'.plans : SamePlan(p, q) => p.out = q.out
        /\ memory.plans \subseteq memory'.plans
    BY <1>1, <1>3, RunIsLearnt
  <2>4. best' = Unsearched \/ \E p \in memory'.plans : /\ p.cranes = best'.cranes
                                                       /\ p.seed = "task" /\ p.out = "ok"
    BY <2>1, <2>2, <2>3 DEF IInv, MemoryInv, OkPlan
  <2>5. memory'.resolved.out = "ok" =>
           \E p \in memory'.plans : /\ p.cranes = memory'.resolved.cranes
                                     /\ p.seed = "task" /\ p.out = "ok"
    BY <1>3, <1>4, <2>1
  <2> QED  BY <1>1, <2>3, <2>4, <2>5 DEF MemoryInv, OkPlan, UnderWay, SamePlan
<1>9. AnswersInv'
  <2>1. \A i \in DOMAIN answers : ~Accepted(answers[i])
    BY <1>5 DEF IInv, AnswersInv, Idle
  <2> QED  BY <1>1, <2>1 DEF IInv, AnswersInv, Accepted
<1>10. CheckedConfigStarts'
  BY <1>1 DEF IInv, CheckedConfigStarts
<1> QED  BY <1>6, <1>7, <1>8, <1>9, <1>10 DEF IInv

LEMMA SearchRaisesKeeps == ASSUME IInv, SearchRaises PROVE IInv'
<1>1. /\ Ended /\ doing = "precheck" /\ gen.out = "KeyError" /\ gen' = Idle
      /\ UNCHANGED site /\ Answer(FALSE, gen.out) /\ best' = Unsearched
      /\ memory' = [memory EXCEPT !.plans = Learnt]
  BY DEF SearchRaises
<1>2. /\ DOMAIN memory' = {"resolved", "plans"}
      /\ memory'.resolved = memory.resolved /\ memory'.plans = Learnt
  BY <1>1 DEF IInv, ShapeInv
<1>3. memory.resolved = Idle
  BY <1>1 DEF IInv, ShapeInv
<1>4. MemoryInv'
  <2>1. doing' = "idle"
    BY <1>1 DEF Answer
  <2>2. /\ \A p \in memory'.plans : p.out \in Ends
        /\ \A p, q \in memory'.plans : SamePlan(p, q) => p.out = q.out
    BY <1>1, <1>2, RunIsLearnt
  <2> QED  BY <1>1, <1>2, <1>3, <2>1, <2>2 DEF MemoryInv, UnderWay, Idle, SamePlan
<1>5. memory.plans \subseteq memory'.plans /\ memory.resolved.out # "ok"
  BY <1>1, <1>2, <1>3, RunIsLearnt DEF Idle
<1> QED  BY <1>1, <1>2, <1>4, <1>5, RequestEnds

LEMMA GiveUpKeeps == ASSUME IInv, GiveUp PROVE IInv'
<1>1. /\ doing = "resolve" /\ memory.resolved = Idle /\ site.auto
      /\ UNCHANGED <<site, request, doing, gen, answers, best>>
  BY DEF GiveUp, Searching, search
<1>2. /\ DOMAIN memory' = {"resolved", "plans"} /\ memory'.plans = memory.plans
      /\ memory'.resolved = IF best = Unsearched THEN NoneFound ELSE Found(best.cranes)
  BY DEF GiveUp, IInv, ShapeInv
<1>3. CASE best = Unsearched
  BY <1>1, <1>2, <1>3, QuietStep DEF NoneFound
<1>4. CASE best # Unsearched
  <2>1. memory'.resolved.out = "ok" /\ memory'.resolved.cranes = best.cranes
    BY <1>2, <1>4 DEF Found
  <2>2. OkPlan(best.cranes)
    BY <1>4 DEF IInv, MemoryInv
  <2>3. OkPlan(memory'.resolved.cranes)
    BY <2>1, <2>2 DEF OkPlan
  <2> QED  BY <1>1, <1>2, <2>1, <2>3, QuietStep
<1> QED  BY <1>3, <1>4

(* A request that is answered at once: nothing was learnt. *)
LEMMA NothingLearnt ==
    ASSUME IInv, doing' = "idle", UNCHANGED <<site, best, memory>>
    PROVE  MemoryInv'
  BY DEF IInv, MemoryInv, OkPlan, UnderWay

LEMMA NotResolvedKeeps == ASSUME IInv, NotResolved PROVE IInv'
<1>1. /\ doing = "resolve" /\ memory.resolved = NoneFound /\ Answer(FALSE, "layout_error")
      /\ UNCHANGED <<site, best, gen, memory>>
  BY DEF NotResolved, Resolved, search
<1>2. gen' = Idle /\ DOMAIN memory' = {"resolved", "plans"} /\ memory.resolved.out # "ok"
  BY <1>1 DEF IInv, ShapeInv, UnderWay, NoneFound
<1>3. MemoryInv'
  BY <1>1, NothingLearnt DEF Answer
<1> QED  BY <1>1, <1>2, <1>3, RequestEnds

LEMMA ValidatedKeeps == ASSUME IInv, Validated PROVE IInv'
<1>1. /\ doing = "resolve" /\ memory.resolved # Idle /\ memory.resolved # NoneFound
      /\ request = "validate" /\ UNCHANGED <<site, best, gen, memory>>
      /\ Answer(~site.manual, IF site.manual THEN "invalid_manual_tasks" ELSE "ok")
  BY DEF Validated, Resolved, search
<1>2. /\ gen' = Idle /\ DOMAIN memory' = {"resolved", "plans"}
      /\ memory.resolved.out = "ok"
  BY <1>1 DEF IInv, ShapeInv, UnderWay
<1>3. MemoryInv'
  BY <1>1, NothingLearnt DEF Answer
<1> QED  BY <1>1, <1>2, <1>3, RequestEnds

LEMMA PlanKeeps == ASSUME IInv, PlanTasks PROVE IInv'
<1>1. /\ doing = "resolve" /\ memory.resolved # Idle /\ memory.resolved # NoneFound
      /\ gen' = Generation(cranes', "task") /\ doing' = "plan"
      /\ cranes' = memory.resolved.cranes
      /\ UNCHANGED <<site, request, attempt, best, memory, answers>>
  BY DEF PlanTasks, Resolved, search
<1>2. memory.resolved.out = "ok" /\ request \in {"validate", "start"}
  BY <1>1 DEF IInv, ShapeInv
<1> QED  BY <1>1, <1>2, RunStarts

(* A run of the resolved layout is the one the search made, or the route. *)
LEMMA PlannedKeeps == ASSUME IInv, Planned PROVE IInv'
<1>1. /\ Ended /\ doing = "plan" /\ gen' = Idle /\ UNCHANGED <<site, best>>
      /\ Answer(gen.out = "ok", gen.out) /\ memory' = [memory EXCEPT !.plans = Learnt]
  BY DEF Planned, search
<1>2. /\ DOMAIN memory' = {"resolved", "plans"}
      /\ memory'.resolved = memory.resolved /\ memory'.plans = Learnt
  BY <1>1 DEF IInv, ShapeInv
<1>3. /\ memory.resolved.out = "ok" /\ cranes = memory.resolved.cranes
      /\ gen.cranes = cranes /\ gen.seed = "task" /\ gen.out \in Ends
  BY <1>1 DEF Ended, IInv, ShapeInv, DrawnInv, UnderWay
<1>4. OkPlan(memory.resolved.cranes) => gen.out = "ok"
  BY <1>1, <1>3 DEF OkPlan, IInv, MemoryInv, SamePlan, UnderWay
<1>5. MemoryInv'
  <2>1. doing' = "idle"
    BY <1>1 DEF Answer
  <2>2. /\ \A p \in memory'.plans : p.out \in Ends
        /\ \A p, q \in memory'.plans : SamePlan(p, q) => p.out = q.out
        /\ memory.plans \subseteq memory'.plans
    BY <1>1, <1>2, RunIsLearnt
  <2> QED  BY <1>1, <1>2, <2>1, <2>2 DEF IInv, MemoryInv, OkPlan, UnderWay, SamePlan
<1>6. /\ memory.plans \subseteq memory'.plans
      /\ gen.out = "ok" => \E p \in Learnt : /\ p.cranes = memory.resolved.cranes
                                             /\ p.seed = "task" /\ p.out = "ok"
  BY <1>1, <1>2, <1>3, RunIsLearnt
<1>7. gen.out = "ok" => OkPlan(memory.resolved.cranes)'
  BY <1>2, <1>6 DEF OkPlan
<1>8. gen.out # "layout_error"
  BY <1>3 DEF Ends, Reasons
<1>9. site.auto => gen.out = "ok"
  BY <1>3, <1>4 DEF IInv, MemoryInv
<1> QED  BY <1>1, <1>2, <1>3, <1>4, <1>5, <1>6, <1>7, <1>8, <1>9, RequestEnds

---------------------------------------------------------------------------
(* The theorems.                                                             *)

(* Every step keeps the inductive invariant. *)
LEMMA StepKeeps == ASSUME IInv, [SetupNext]_setupVars PROVE IInv'
<1>1. CASE UNCHANGED setupVars
  <2>1. UNCHANGED <<site, request, doing, attempt, best, cranes, gen, memory, answers>>
    BY <1>1 DEF setupVars, search
  <2>2. ShapeInv'
    BY <2>1 DEF IInv, ShapeInv, UnderWay
  <2>3. DrawnInv'
    BY <2>1 DEF IInv, DrawnInv, UnderWay, AreTasks, TaskFits
  <2>4. MemoryInv'
    BY <2>1 DEF IInv, MemoryInv, UnderWay, OkPlan
  <2>5. AnswersInv' /\ CheckedConfigStarts'
    BY <2>1 DEF IInv, AnswersInv, CheckedConfigStarts, OkPlan
  <2> QED  BY <2>2, <2>3, <2>4, <2>5 DEF IInv
<1>2. CASE SetupNext
  <2>1. CASE Ask  BY <2>1, AskKeeps
  <2>2. CASE ResolveManual  BY <2>2, ResolveManualKeeps
  <2>3. CASE Try  BY <2>3, TryKeeps
  <2>4. CASE Prechecked  BY <2>4, PrecheckedKeeps
  <2>5. CASE SearchRaises  BY <2>5, SearchRaisesKeeps
  <2>6. CASE GiveUp  BY <2>6, GiveUpKeeps
  <2>7. CASE NotResolved  BY <2>7, NotResolvedKeeps
  <2>8. CASE Validated  BY <2>8, ValidatedKeeps
  <2>9. CASE PlanTasks  BY <2>9, PlanKeeps
  <2>10. CASE Planned  BY <2>10, PlannedKeeps
  <2>11. CASE SampleType  BY <2>11, SampleTypeKeeps
  <2>12. CASE DrawAuto  BY <2>12, DrawAutoKeeps
  <2>13. CASE DrawTemplate  BY <2>13, DrawTemplateKeeps
  <2>14. CASE AssignTemplate  BY <2>14, AssignTemplateKeeps
  <2>15. CASE Complete  BY <2>15, CompleteKeeps
  <2>16. CASE Finished  BY <1>1, <2>16 DEF Finished
  <2> QED  BY <1>2, <2>1, <2>2, <2>3, <2>4, <2>5, <2>6, <2>7, <2>8, <2>9, <2>10, <2>11, <2>12,
              <2>13, <2>14, <2>15, <2>16 DEF SetupNext
<1> QED  BY <1>1, <1>2

(* A run of the generation is a function of the cranes and the seed, all through    *)
(* searches, validations and starts, and what it has drawn fits its cranes.      *)
THEOREM SetupInvariant == SetupSpec => []IInv
<1>1. SetupInit => IInv
  BY InitHolds
<1>2. IInv /\ [SetupNext]_setupVars => IInv'
  BY StepKeeps
<1> QED  BY <1>1, <1>2, PTL DEF SetupSpec

(* A task that fits where it is taken and set down passes the feasibility check,    *)
(* but for the two exceptions PlannedIsFeasible names.                        *)
LEMMA FittingIsFeasible ==
    ASSUME NEW t, TaskFits(t)
    PROVE  /\ Infeasible(site, t) \subseteq {"over_capacity", "inside_forbidden_zone"}
           /\ \A p \in {t.pickup, t.dropoff} : PointFits(t.crane, p, t.weight)
<1>1. \A p \in {t.pickup, t.dropoff} : PointFits(t.crane, p, t.weight)
  BY DEF TaskFits
<1>2. /\ \A p \in {t.pickup, t.dropoff} : ReachableAt(t.crane, p.x, p.hook)
      /\ \A p \in {t.pickup, t.dropoff} : InBoundary(p.x, p.hook)
  BY <1>1 DEF PointFits
<1>3. /\ t.from \in site.materials /\ t.to \in site.works
      /\ Supports(Zones[t.from], t.load) /\ Supports(Zones[t.to], t.load)
  BY DEF TaskFits
<1>4. Infeasible(site, t) \subseteq {"over_capacity", "inside_forbidden_zone"}
  BY <1>2, <1>3 DEF Infeasible
<1> QED  BY <1>1, <1>4

(* Tasks that are drawn can be done (_build_task_candidate implies                 *)
(* validate_task_feasibility, but for rounding and hooks above a surface).        *)
THEOREM DrawnTasksFit == SetupSpec => []PlannedIsFeasible
<1>1. IInv => PlannedIsFeasible
  <2> SUFFICES ASSUME IInv, gen # Idle, NEW i \in DOMAIN gen.tasks
               PROVE  LET t == gen.tasks[i] IN
                        /\ Infeasible(site, t) \subseteq {"over_capacity", "inside_forbidden_zone"}
                        /\ \A p \in {t.pickup, t.dropoff} :
                              /\ 2 * (t.weight - Capacity[Radius(t.crane, p.x)]) < Unit
                              /\ \A f \in Forbidden : ~InZone(p.x, p.surface, f)
    BY DEF PlannedIsFeasible
  <2>1. PICK t : t = gen.tasks[i]
    OBVIOUS
  <2>2. UnderWay
    BY DEF IInv, ShapeInv
  <2>3. TaskFits(gen.tasks[i])
    BY <2>2 DEF IInv, DrawnInv, AreTasks
  <2>4. TaskFits(t)
    BY <2>1, <2>3 DEF TaskFits
  <2>5. /\ Infeasible(site, t) \subseteq {"over_capacity", "inside_forbidden_zone"}
        /\ \A p \in {t.pickup, t.dropoff} : PointFits(t.crane, p, t.weight)
    BY <2>4, FittingIsFeasible
  <2> QED  BY <2>1, <2>5 DEF PointFits
<1> QED  BY <1>1, SetupInvariant, PTL

(* What the search or the validate route has checked starts (generate_auto_layout,  *)
(* validate_scenario and build_production_episode_runner generate alike).        *)
THEOREM CheckedStarts == SetupSpec => []CheckedConfigStarts
<1>1. IInv => CheckedConfigStarts
  BY DEF IInv
<1> QED  BY <1>1, SetupInvariant, PTL
================================================================================
