-------------------------- MODULE DeveloperConsole --------------------------
(***************************************************************************)
(* `tickline-dev check': a plan is built from the task manifest and the     *)
(* selection, then it is run in the terminal interface (Console.tla) or     *)
(* with plain or JSON output.  Every run leaves a record on disk; it is     *)
(* followed (RunArtifacts.tla) where no interface takes part, for the       *)
(* interface never touches it.  The runner itself is Runner.tla's.          *)
(***************************************************************************)
EXTENDS Console, RunArtifacts, TaskPlan

ASSUME DeveloperConsoleAssumption == StageCount = PlanLength

VARIABLE phase  \* "planning", "interactive" or "plain"

vars == <<phase, planVars, screenVars, artifactsVars>>

Init ==
    /\ phase = "planning"
    /\ PlanInit
    /\ ScreenInit
    /\ ArtifactsInit

(* Of the manifest and the selection only the plan is used from here on,    *)
(* and its stages are numbered in its order.                                *)
Launch ==
    /\ phase = "planning"
    /\ Validate
    /\ BuildPlan.error = "none" /\ Len(BuildPlan.ordered) = PlanLength
    /\ phase' \in {"interactive", "plain"}
    /\ dependencies' = [t \in Tasks |-> <<>>]
    /\ enabled' = Tasks
    /\ only' = <<>>
    /\ skip' = <<>>
    /\ UNCHANGED <<screenVars, artifactsVars>>

Planning(A) ==
    phase = "planning" /\ A /\ UNCHANGED <<phase, screenVars, artifactsVars>>
Interactive(A) ==
    phase = "interactive" /\ A /\ UNCHANGED <<phase, planVars, artifactsVars>>
Plain(A) ==
    phase = "plain" /\ A /\ UNCHANGED <<phase, planVars, screenVars>>

(* A plan may stay unwritten, and a plain run ends; an interactive one must *)
(* not get stuck.                                                           *)
Rest == phase # "interactive" /\ UNCHANGED vars

Next ==
    \/ Planning(PlanNext)
    \/ Launch
    \/ Interactive(ScreenNext)
    \/ Plain(ArtifactsNext)
    \/ Rest

Spec == Init /\ [][Next]_vars

(* Goroutines run, the one of signal.NotifyContext and Bubble Tea's loop    *)
(* too, and the runner ends once its context is done (CancelEndsRun of      *)
(* Runner.tla).  A stage need not end by itself, a user need not press a    *)
(* key, and Bubble Tea need not have listened when a signal came.           *)
FairSpec ==
    /\ Spec
    /\ WF_vars(Interactive(CancelParent))
    /\ WF_vars(Interactive(DrainStage)) /\ WF_vars(Interactive(RunCancelled))
    /\ WF_vars(Interactive(SendMessage)) /\ WF_vars(Interactive(Interface))
    /\ WF_vars(Interactive(CloseInterface)) /\ WF_vars(Interactive(Return))
=============================================================================
