------------------------------ MODULE TaskPlan ------------------------------
(***************************************************************************)
(* The execution plan of the developer console (internal/task): validation  *)
(* of the task manifest and BuildPlan, which selects stages, adds their     *)
(* dependencies and orders them.  Both walk the dependencies depth first    *)
(* with a colour per stage.                                                 *)
(*                                                                          *)
(* A stage is its position in the manifest; 0 is an identifier that no      *)
(* stage has.  The behaviours of the module write a manifest dependency by  *)
(* dependency and then a selection identifier by identifier.                *)
(***************************************************************************)
EXTENDS Naturals, Sequences, SequencesExt, FiniteSets

CONSTANTS
    TaskCount,        \* stages of the manifest
    MaxDependencies,  \* bound: dependencies of the manifest
    MaxOnly,          \* bound: identifiers in --only
    MaxSkip           \* bound: identifiers in --skip

ASSUME TaskPlanAssumption ==
    /\ TaskCount \in Nat \ {0}
    /\ {MaxDependencies, MaxOnly, MaxSkip} \subseteq Nat

Tasks == 1 .. TaskCount
Identifiers == 0 .. TaskCount

VARIABLES
    dependencies,  \* per stage: its Dependencies, in order
    enabled,       \* stages with EnabledByDefault
    only, skip     \* the Selection

planVars == <<dependencies, enabled, only, skip>>

-----------------------------------------------------------------------------
(* The walk.  A stage is unvisited, visiting or visited; the first error    *)
(* ends the walk.                                                           *)

NewWalk == [state |-> [t \in Tasks |-> "unvisited"], ordered |-> <<>>,
            error |-> "none"]

place(walk, id, visited) ==
    [visited EXCEPT !.state[id] = "visited", !.ordered = Append(@, id)]

is_skipped(skipped, id) == id \in skipped

(* Mutant: a stage that is being visited counts as done.                    *)
visiting_is_done(walk, id) == FALSE

closes_cycle(walk, id) == walk.state[id] = "visiting"

RECURSIVE visit(_, _, _)
visit(skipped, walk, id) ==
    IF walk.error # "none" THEN walk
    ELSE IF closes_cycle(walk, id) THEN [walk EXCEPT !.error = "cycle"]
    ELSE IF walk.state[id] # "unvisited" THEN walk
    ELSE IF is_skipped(skipped, id) THEN [walk EXCEPT !.error = "required_but_skipped"]
    ELSE LET visited == FoldLeft(LAMBDA w, d : visit(skipped, w, d),
                                 [walk EXCEPT !.state[id] = "visiting"],
                                 dependencies[id])
         IN  IF visited.error # "none" THEN visited ELSE place(walk, id, visited)

VisitAll(skipped, ids) ==
    FoldLeft(LAMBDA w, id : visit(skipped, w, id), NewWalk, ids)

ManifestOrder(S) == SelectSeq([t \in Tasks |-> t], LAMBDA t : t \in S)

-----------------------------------------------------------------------------
(* Manifest.Validate.                                                       *)

dependencies_are_valid ==
    \A t \in Tasks :
        /\ \A i \in DOMAIN dependencies[t] : dependencies[t][i] \in Tasks \ {t}
        /\ IsInjective(dependencies[t])

validateAcyclic == VisitAll({}, ManifestOrder(Tasks)).error = "none"

Validate == dependencies_are_valid /\ validateAcyclic

-----------------------------------------------------------------------------
(* BuildPlan.                                                               *)

validateSelectionIDs(ids) == Range(ids) \subseteq Tasks /\ IsInjective(ids)

selected == IF only = <<>> THEN enabled \ Range(skip) ELSE Range(only)

Refused(reason) == [NewWalk EXCEPT !.error = reason]

BuildPlan ==
    IF ~validateSelectionIDs(skip) THEN Refused("skip_selection")
    ELSE IF ~validateSelectionIDs(only) THEN Refused("only_selection")
    ELSE IF Range(only) \cap Range(skip) # {} THEN Refused("only_and_skip")
    ELSE LET walk == VisitAll(Range(skip), ManifestOrder(selected))
         IN  IF walk.error = "none" /\ walk.ordered = <<>> THEN Refused("empty")
             ELSE walk

-----------------------------------------------------------------------------
PlanInit ==
    /\ dependencies = [t \in Tasks |-> <<>>]
    /\ enabled = Tasks
    /\ only = <<>>
    /\ skip = <<>>

DependencyCount ==
    FoldLeft(LAMBDA n, t : n + Len(dependencies[t]), 0, ManifestOrder(Tasks))

AddDependency(t, d) ==
    /\ only = <<>> /\ skip = <<>> /\ enabled = Tasks
    /\ Validate /\ DependencyCount < MaxDependencies
    /\ dependencies' = [dependencies EXCEPT ![t] = Append(@, d)]
    /\ UNCHANGED <<enabled, only, skip>>

Disable(t) ==
    /\ Validate /\ only = <<>> /\ skip = <<>>
    /\ enabled' = enabled \ {t}
    /\ UNCHANGED <<dependencies, only, skip>>

SelectOnly(id) ==
    /\ Validate /\ Len(only) < MaxOnly /\ skip = <<>> /\ enabled = Tasks
    /\ only' = Append(only, id)
    /\ UNCHANGED <<dependencies, enabled, skip>>

SelectSkip(id) ==
    /\ Validate /\ Len(skip) < MaxSkip
    /\ skip' = Append(skip, id)
    /\ UNCHANGED <<dependencies, enabled, only>>

PlanNext ==
    \/ \E t \in Tasks, d \in Identifiers : AddDependency(t, d)
    \/ \E t \in enabled : Disable(t)
    \/ \E id \in Identifiers : SelectOnly(id) \/ SelectSkip(id)

-----------------------------------------------------------------------------
(* What is needed, read off the dependency relation.                        *)

DependsOn(s, t) == \E i \in DOMAIN dependencies[s] : dependencies[s][i] = t

Edges == {p \in Tasks \X Tasks : DependsOn(p[1], p[2])}

(* The pairs <<s, t>> with a path from s to t, by the stages it may pass.   *)
Reaches ==
    FoldLeft(LAMBDA R, z : R \cup {p \in Tasks \X Tasks :
                                      <<p[1], z>> \in R /\ <<z, p[2]>> \in R},
             Edges, ManifestOrder(Tasks))

Required ==
    LET reaches == Reaches
    IN  {t \in Tasks : t \in selected \/ \E s \in selected : <<s, t>> \in reaches}

(* Validation accepts a manifest exactly when its dependencies are those of *)
(* a partial order of its stages: however the cycle runs and wherever the   *)
(* walk enters it (manifest.go:188-224, 360-421).                           *)
AcyclicIsAccepted ==
    Validate <=> /\ dependencies_are_valid
                 /\ \A t \in Tasks : <<t, t>> \notin Reaches

(* A plan is the selected stages and everything they need, each once, every *)
(* stage after the stages it depends on, and none that was skipped          *)
(* (plan.go:8-127).                                                         *)
Runnable(plan) ==
    LET required == Required
    IN  /\ Range(plan) = required /\ IsInjective(plan)
        /\ required \cap Range(skip) = {}
        /\ \A i, j \in DOMAIN plan : DependsOn(plan[i], plan[j]) => j < i

(* What the author of a selection can see is wrong with it: an identifier   *)
(* that is unknown or given twice, a stage both selected and skipped, a     *)
(* skipped stage that another one needs, or nothing to run.                 *)
Mistaken ==
    \/ ~validateSelectionIDs(skip) \/ ~validateSelectionIDs(only)
    \/ Range(only) \cap Range(skip) # {}
    \/ Required \cap Range(skip) # {}
    \/ selected = {}

(* A manifest is refused exactly when its dependencies do not form a        *)
(* partial order, a selection of a valid manifest exactly when it is        *)
(* mistaken, and what is planned can be run: the two depth-first walks      *)
(* agree with the dependency relation, and BuildPlan never meets the cycle  *)
(* that validation looks for (manifest.go:360-421, plan.go:8-127).          *)
PlanIsRunnable ==
    /\ AcyclicIsAccepted
    /\ Validate =>
          LET build == BuildPlan
          IN  IF Mistaken THEN build.error # "none"
              ELSE build.error = "none" /\ Runnable(build.ordered)
=============================================================================
