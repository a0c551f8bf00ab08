------------------------------ MODULE Workflow ------------------------------
(***************************************************************************)
(* The workflow of internal/workflow/workflow.go: the steps that            *)
(* NewWorkflow accepted, and the decisions that Run takes between two waves.*)
(* A step is its ordinal.  A run's results map a step to "none" until it    *)
(* has one.  Service holds the state of a run and executes it.              *)
(***************************************************************************)
EXTENDS Naturals, FiniteSets

CONSTANTS
  NumSteps,    \* how many steps the workflow has
  DependsOn,   \* Step.DependsOn
  References,  \* the steps whose output Step.Prompt interpolates
  MaxRetries   \* Options.MaxRetries

Steps == 1..NumSteps

\* What NewWorkflow and hasCycle let through.  A prompt may reference a step
\* that it does not depend on: NewWorkflow does not look at prompts.
ASSUME WorkflowAssumption ==
  /\ NumSteps \in Nat \ {0}
  /\ DependsOn \in [Steps -> SUBSET Steps]
  /\ \A S \in (SUBSET Steps) \ {{}} : \E s \in S : DependsOn[s] \cap S = {}
  /\ References \in [Steps -> SUBSET Steps]
  /\ MaxRetries \in Nat

\* What a step's result can be once its run is over.
StepOutcomes == {"succeeded", "failed", "skipped"}

-----------------------------------------------------------------------------

\* dependenciesSucceeded.
DependenciesSucceeded(s, results) ==
  \A d \in DependsOn[s] : results[d] = "succeeded"

\* renderPrompt finds the output of every step the prompt references.
Renders(s, results) == \A r \in References[s] : results[r] = "succeeded"

\* The steps Run holds in "remaining" between two waves.
Remaining(results) == {s \in Steps : results[s] = "none"}

\* Mutation of ReadyWave: one dependency that succeeded is enough.
ReadyWaveOfOne(results) ==
  {s \in Remaining(results) :
     DependsOn[s] = {} \/ \E d \in DependsOn[s] : results[d] = "succeeded"}

\* readyWave.
ReadyWave(results) ==
  {s \in Remaining(results) : DependenciesSucceeded(s, results)}

\* hasFailedDependency, when the steps of B count as skipped.
HasFailedDependency(s, results, B) ==
  \E d \in DependsOn[s] : d \in B \/ results[d] \in {"failed", "skipped"}

\* Where skipBlocked's iteration ends: the least set of remaining steps that
\* holds every remaining step with a failed or a skipped dependency.
Blocked(results) ==
  {s \in Remaining(results) :
     \A B \in SUBSET Remaining(results) :
       (\A t \in Remaining(results) : HasFailedDependency(t, results, B) => t \in B)
         => s \in B}

\* skipBlocked.
SkipBlocked(results) ==
  [s \in Steps |-> IF s \in Blocked(results) THEN "skipped" ELSE results[s]]

\* The results Run returns: a step it never came to counts as skipped.
Ordered(results) ==
  [s \in Steps |-> IF results[s] = "none" THEN "skipped" ELSE results[s]]

=============================================================================
