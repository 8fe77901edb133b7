------------------------------ MODULE EpisodeSetup ------------------------------
(***************************************************************************)
(* From a configuration to an episode with tasks: config_resolver.py finds a     *)
(* layout, by auto_layout.py's search or from the cranes given; the validate      *)
(* route looks at manual tasks; and a start generates the tasks the episode runs. *)
(* The search, the route and the start each run task_generation.py over again.    *)
(*                                                                          *)
(* A run of random.Random is a function of its seed: what it draws first is       *)
(* chosen, and memory repeats it to whoever asks with the same cranes and seed.   *)
(* Zones, cranes and seeds do not change between requests, so that resolving     *)
(* the configuration again finds the same layout.                              *)
(***************************************************************************)
EXTENDS CraneLayout

CONSTANTS
    Sites,          \* the configurations
    MaxAttempts,    \* layout.max_sampling_attempts
    MaxRequests

ASSUME SetupBounds == MaxAttempts \in Nat \ {0} /\ MaxRequests \in Nat \ {0}
ASSUME SiteAssumption == \A s \in Sites : s.auto \in BOOLEAN /\ s.manual \in BOOLEAN

VARIABLES
    site,       \* the configuration
    request,    \* "validate", "start", or "none" under way
    doing,      \* what is under way for it
    attempt,    \* of the search
    cranes,     \* the layout tried, then the one resolved
    best,       \* of the search: [score, cranes], the score None before any
    gen,        \* generate_task_queues
    memory,     \* what a resolution and each generation came to
    answers     \* [kind, ok, why] of the requests answered

search == <<attempt, best>>
setupVars == <<site, request, doing, search, cranes, gen, memory, answers>>

NoLayout == <<>>
Unsearched == [score |-> None, cranes |-> NoLayout]
Idle == [out |-> "idle"]

SetupInit ==
    /\ site \in Sites
    /\ request = "none" /\ doing = "idle"
    /\ attempt = 0 /\ best = Unsearched /\ cranes = NoLayout
    /\ gen = Idle
    /\ memory = [resolved |-> Idle, plans |-> {}]
    /\ answers = <<>>

---------------------------------------------------------------------------
(* generate_task_queues                                                     *)

RequiresOverlap == "easy_task" \notin site.types

(* What it raises before a draw.                                             *)
EarlyFault(layout) ==
    IF site.materials = {} \/ site.works = {} THEN "missing_material_or_work_zones"
    ELSE IF RequiresOverlap /\ ~HasRegions(site, layout) THEN "no_task_overlap_region"
    ELSE ""

(* A run for a layout and a seed, out being "" until it ends.                  *)
Known(layout, seed) == {p \in memory.plans : p.cranes = layout /\ p.seed = seed}
Generation(layout, seed) ==
    [cranes |-> layout, seed |-> seed, item |-> 1, type |-> "", crane |-> 1, tries |-> 0,
     feasible |-> {}, blocked |-> "", tasks |-> <<>>,
     out |-> IF Known(layout, seed) = {} THEN EarlyFault(layout)
             ELSE (CHOOSE p \in Known(layout, seed) : TRUE).out]

(* The tasks to generate: the templates, or so many for each crane in turn.      *)
Items == IF site.manual THEN Len(site.templates) ELSE Len(gen.cranes) * site.perCrane
CraneOf(item) == gen.cranes[((item - 1) \div site.perCrane) + 1]
Template == site.templates[gen.item]
TriedCranes ==
    SelectSeq([i \in DOMAIN gen.cranes |-> i], LAMBDA i : Template.crane \in {0, i})

Generating == doing \in {"precheck", "plan"} /\ gen.out = "" /\ gen.item <= Items
Setting == UNCHANGED <<site, request, doing, search, cranes, memory, answers>>

Raise(reason) == gen' = [gen EXCEPT !.out = reason]
Accept(task) ==
    gen' = [gen EXCEPT !.tasks = Append(@, task), !.item = @ + 1, !.type = "", !.crane = 1,
                       !.tries = 0, !.feasible = {}, !.blocked = ""]

(* _generate_auto_task: a type that needs regions there are none of is "easy_task". *)
SampleType ==
    /\ Generating /\ ~site.manual /\ gen.type = ""
    /\ \E t \in site.types :
          gen' = [gen EXCEPT !.type = IF t # "easy_task" /\ ~HasRegions(site, gen.cranes)
                                        THEN "easy_task" ELSE t]
    /\ Setting

DrawAuto ==
    /\ Generating /\ ~site.manual /\ gen.type # ""
    /\ \E d \in AutoDraws(site, gen.cranes, CraneOf(gen.item), gen.type) :
          IF d.ok THEN Accept(d.task)
          ELSE IF gen.tries + 1 < MaxAttempts THEN gen' = [gen EXCEPT !.tries = @ + 1]
          ELSE Raise(d.reason)
    /\ Setting

(* _generate_manual_task: each crane is tried, until it can, or cannot at all; a   *)
(* KeyError is not caught.                                                  *)
NextCrane(g) == [g EXCEPT !.crane = @ + 1, !.tries = 0]
DrawTemplate ==
    /\ Generating /\ site.manual /\ gen.crane <= Len(TriedCranes)
    /\ \E d \in TemplateDraws(site, gen.cranes[TriedCranes[gen.crane]], Template) :
          gen' = IF d.ok THEN NextCrane([gen EXCEPT !.feasible = @ \cup {d.task}])
                 ELSE IF d.reason = "KeyError" THEN [gen EXCEPT !.out = "KeyError"]
                 ELSE IF d.reason \in Blocking
                   THEN NextCrane([gen EXCEPT !.blocked = IF @ = "" THEN d.reason ELSE @])
                 ELSE IF gen.tries + 1 < MaxAttempts THEN [gen EXCEPT !.tries = @ + 1]
                 ELSE NextCrane(gen)
    /\ Setting

AssignTemplate ==
    /\ Generating /\ site.manual /\ gen.crane > Len(TriedCranes)
    /\ \/ \E task \in gen.feasible : Accept(task)
       \/ /\ gen.feasible = {}
          /\ Raise(IF TriedCranes = <<>> THEN "unknown_crane"
                   ELSE IF gen.blocked # "" THEN gen.blocked ELSE "manual_task_unassignable")
    /\ Setting

(* The queues are complete; each of the callers refuses them when empty.          *)
Complete ==
    /\ doing \in {"precheck", "plan"} /\ gen.out = "" /\ gen.item > Items
    /\ Raise(IF gen.tasks = <<>> THEN "no_tasks_generated" ELSE "ok")
    /\ Setting

Ended == doing \in {"precheck", "plan"} /\ gen.out # ""
Learnt == memory.plans \cup {[cranes |-> gen.cranes, seed |-> gen.seed, out |-> gen.out]}

---------------------------------------------------------------------------
(* _resolve_layout                                                          *)

Answer(ok, why) ==
    /\ answers' = Append(answers, [kind |-> request, ok |-> ok, why |-> why])
    /\ request' = "none" /\ doing' = "idle"
    /\ cranes' = NoLayout

(* A layout is found, or none: layout.py and auto_layout.py raise.                *)
Found(layout) == [out |-> "ok", cranes |-> layout]
NoneFound == [out |-> "layout_error"]

Ask ==
    /\ doing = "idle" /\ Len(answers) < MaxRequests
    /\ request' \in {"validate", "start"} /\ doing' = "resolve"
    /\ UNCHANGED <<site, search, cranes, gen, memory, answers>>

ResolveManual ==
    /\ doing = "resolve" /\ memory.resolved = Idle /\ ~site.auto
    /\ memory' = [memory EXCEPT !.resolved =
          IF LayoutValid(site.cranes, site.count)
            THEN Found([i \in DOMAIN site.cranes |-> Configured(site.cranes[i])])
            ELSE NoneFound]
    /\ UNCHANGED <<site, request, doing, search, cranes, gen, answers>>

(* generate_auto_layout looks for a layout, once a request.                      *)
Searching == doing = "resolve" /\ memory.resolved = Idle /\ site.auto
Span == Boundary.x[2] - Boundary.x[1]

Misplaced ==
    /\ attempt' = attempt + 1
    /\ UNCHANGED <<doing, cranes, best, gen>>
(* Mutant: the precheck generates with the seed of the scenario.                  *)
PlacedOtherSeed(inputs) ==
    /\ cranes' = [i \in DOMAIN inputs |-> Configured(inputs[i])]
    /\ gen' = Generation(cranes', "scenario")
    /\ doing' = "precheck"
    /\ UNCHANGED search

Placed(inputs) ==
    /\ cranes' = [i \in DOMAIN inputs |-> Configured(inputs[i])]
    /\ gen' = Generation(cranes', "task")
    /\ doing' = "precheck"
    /\ UNCHANGED search

Try ==
    /\ Searching /\ attempt < MaxAttempts
    /\ IF Span < SmallestSpan THEN Misplaced
       ELSE \E side \in {1, -1} : \E inputs \in {CandidateInputs(site, attempt + 1, side)} :
               IF LayoutValid(inputs, site.count) THEN Placed(inputs) ELSE Misplaced
    /\ UNCHANGED <<site, request, memory, answers>>

(* What the precheck says of the layout tried.                                   *)
Better == Quality(site, cranes) > best.score
Prechecked ==
    /\ Ended /\ doing = "precheck" /\ gen.out # "KeyError"
    /\ attempt' = attempt + 1
    /\ best' = IF gen.out = "ok" /\ Better
                 THEN [score |-> Quality(site, cranes), cranes |-> cranes] ELSE best
    /\ memory' = [plans |-> Learnt,
                  resolved |-> IF gen.out = "ok" /\ MeetsTargets(site, cranes)
                                 THEN Found(cranes) ELSE Idle]
    /\ doing' = "resolve" /\ gen' = Idle /\ cranes' = NoLayout
    /\ UNCHANGED <<site, request, answers>>

(* What is no TaskGenerationError ends the request, and its search.               *)
SearchRaises ==
    /\ Ended /\ doing = "precheck" /\ gen.out = "KeyError"
    /\ Answer(FALSE, gen.out)
    /\ memory' = [memory EXCEPT !.plans = Learnt]
    /\ attempt' = 0 /\ best' = Unsearched /\ gen' = Idle
    /\ UNCHANGED site

GiveUp ==
    /\ Searching /\ attempt = MaxAttempts
    /\ memory' = [memory EXCEPT !.resolved =
                    IF best = Unsearched THEN NoneFound ELSE Found(best.cranes)]
    /\ UNCHANGED <<site, request, doing, search, cranes, gen, answers>>

---------------------------------------------------------------------------
(* The validate route and the start                                         *)

Resolved == doing = "resolve" /\ memory.resolved # Idle
NotResolved ==
    /\ Resolved /\ memory.resolved = NoneFound
    /\ Answer(FALSE, "layout_error")
    /\ UNCHANGED <<site, search, gen, memory>>

(* The route asks nothing of tasks that are not manual.                          *)
PlanValid == /\ site.templates # <<>>
             /\ \A i \in DOMAIN site.templates :
                   TemplateValid(site, memory.resolved.cranes, site.templates[i])
Validated ==
    /\ Resolved /\ memory.resolved # NoneFound /\ request = "validate"
    /\ site.manual => ~PlanValid
    /\ Answer(~site.manual, IF site.manual THEN "invalid_manual_tasks" ELSE "ok")
    /\ UNCHANGED <<site, search, gen, memory>>

PlanTasks ==
    /\ Resolved /\ memory.resolved # NoneFound
    /\ request = "start" \/ (site.manual /\ PlanValid)
    /\ cranes' = memory.resolved.cranes
    /\ gen' = Generation(cranes', "task") /\ doing' = "plan"
    /\ UNCHANGED <<site, request, search, memory, answers>>

Planned ==
    /\ Ended /\ doing = "plan"
    /\ Answer(gen.out = "ok", gen.out)
    /\ memory' = [memory EXCEPT !.plans = Learnt]
    /\ gen' = Idle
    /\ UNCHANGED <<site, search>>

Finished == doing = "idle" /\ Len(answers) = MaxRequests /\ UNCHANGED setupVars

SetupNext ==
    \/ Ask \/ ResolveManual \/ Try \/ Prechecked \/ SearchRaises \/ GiveUp \/ NotResolved
    \/ Validated \/ PlanTasks \/ Planned
    \/ SampleType \/ DrawAuto \/ DrawTemplate \/ AssignTemplate \/ Complete
    \/ Finished

SetupSpec == SetupInit /\ [][SetupNext]_setupVars

---------------------------------------------------------------------------
(* Every task task_generation.py puts in a queue passes task_feasibility.py,     *)
(* which nothing asks in production, but for two things: the weight, rounded      *)
(* after it was cut at the capacity, may exceed it by less than half of what it   *)
(* is rounded to; and a hook may hang in a forbidden zone whose heights do not    *)
(* include the surface below.  These two are all that PlansPassTheCheck fails for. *)
PlannedIsFeasible ==
    gen # Idle => \A i \in DOMAIN gen.tasks :
        LET t == gen.tasks[i]
            reasons == Infeasible(site, t)
        IN  /\ reasons \subseteq {"over_capacity", "inside_forbidden_zone"}
            /\ \A p \in {t.pickup, t.dropoff} :
                  /\ 2 * (t.weight - Capacity[Radius(t.crane, p.x)]) < Unit
                  /\ \A f \in Forbidden : ~InZone(p.x, p.surface, f)

(* A start only fails for want of tasks where nobody generated them before: with  *)
(* a generated layout it does not, for the search kept only layouts it had drawn  *)
(* the same tasks for (the search itself finds none or raises), and after a        *)
(* validate request that was accepted it does not either, unless the tasks are     *)
(* not manual, which the route does not look at.                             *)
CheckedConfigStarts ==
    \A j \in DOMAIN answers : answers[j].kind = "start" /\ ~answers[j].ok =>
        /\ site.auto => answers[j].why \in {"layout_error", "KeyError"}
        /\ \A i \in 1..(j - 1) : answers[i].kind = "validate" /\ answers[i].ok =>
               ~site.manual /\ answers[j].why # "layout_error"

(* docs/moduleD/task03_task_feasibility_validation.md:125-126 and :166, and        *)
(* task02:87 of the generator: no point of a task is in a forbidden zone, and the   *)
(* capacity is not below load_weight_t; :205-208 of a task that fails the check:   *)
(* it does not become active.  So a queue task_generation.py hands out has only    *)
(* tasks that pass it.                                                      *)
PlansPassTheCheck ==
    gen # Idle => \A i \in DOMAIN gen.tasks : Infeasible(site, gen.tasks[i]) = {}
=============================================================================
