------------------------------- MODULE Policy -------------------------------
(***************************************************************************)
(* Plans, the policy that accepts or refuses them, the planner that builds *)
(* them from a task list and the aggregator that counts their results:     *)
(* internal/multiagent/{types,policy,planner,aggregator}.go.               *)
(*                                                                         *)
(* A plan is [mode, max, objective, tasks]; a task is [id, goal, tools,    *)
(* scopes].  Ids, objectives, goals, tools and scopes are opaque values;   *)
(* Blank stands for a string that TrimSpace makes empty.                   *)
(***************************************************************************)
EXTENDS Integers, Sequences, FiniteSets

CONSTANTS
  Blank,          \* the empty string, also as a write scope
  BlockedTools,   \* the tools no child may be given
  PolicyLimit     \* Policy.MaxConcurrent as NewOrchestrator received it

Modes == {"sequential", "parallel"}

\* Policy.Validate's own limit: a policy without one falls back to 3.
EffectiveLimit == IF PolicyLimit <= 0 THEN 3 ELSE PolicyLimit

ASSUME PolicyLimitAssumption == PolicyLimit \in Int

\* What Validate compares with the limit.  The plan is passed by value, so
\* the normalisation of a max_concurrent below 1 never reaches Run.
NormalizedMax(plan) == IF plan.max <= 0 THEN 1 ELSE plan.max

Slots(plan) == DOMAIN plan.tasks

SharesScope(plan, i, j) ==
  ((plan.tasks[i].scopes \intersect plan.tasks[j].scopes) \ {Blank}) # {}

\* Variant, not the code: write scopes of different tasks are not compared.
ScopesNotCompared(plan) ==
  /\ plan.objective # Blank /\ Len(plan.tasks) # 0 /\ plan.mode \in Modes
  /\ NormalizedMax(plan) <= EffectiveLimit
  /\ \A i \in Slots(plan) :
       /\ plan.tasks[i].id # Blank /\ plan.tasks[i].goal # Blank
       /\ plan.tasks[i].tools \intersect BlockedTools = {}

Validate(plan) ==
  /\ plan.objective # Blank
  /\ Len(plan.tasks) # 0
  /\ plan.mode \in Modes
  /\ NormalizedMax(plan) <= EffectiveLimit
  /\ \A i \in Slots(plan) :
       /\ plan.tasks[i].id # Blank
       /\ plan.tasks[i].goal # Blank
       /\ plan.tasks[i].tools \intersect BlockedTools = {}
  /\ \A i, j \in Slots(plan) : i # j =>
       /\ plan.tasks[i].id # plan.tasks[j].id
       /\ ~SharesScope(plan, i, j)

-----------------------------------------------------------------------------
\* Planner.Build

CanRunParallel(tasks) ==
  /\ Len(tasks) > 1
  /\ \A i \in DOMAIN tasks : tasks[i].scopes = {}

PlannedMax(tasks) ==
  IF ~CanRunParallel(tasks) THEN 1
  ELSE IF Len(tasks) < PolicyLimit THEN Len(tasks) ELSE PolicyLimit

Build(objective, tasks) ==
  [ mode      |-> IF CanRunParallel(tasks) THEN "parallel" ELSE "sequential",
    max       |-> PlannedMax(tasks),
    objective |-> objective,
    tasks     |-> tasks ]

-----------------------------------------------------------------------------
\* Aggregator.Aggregate, the counters: results is a function from the slots.

Aggregate(results) ==
  [ completed |-> Cardinality({i \in DOMAIN results : results[i] = "completed"}),
    failed    |-> Cardinality({i \in DOMAIN results : results[i] = "failed"}) ]
=============================================================================
