---------------------------- MODULE BooksProofs ----------------------------
(***************************************************************************)
(* What the rows of a job say about its workflow, for every value of the   *)
(* constants, as long as no write of a step is lost: successes respect the *)
(* dependencies at every moment, a job that succeeded has done all its     *)
(* steps, and the rows of one that failed tell the whole story.            *)
(***************************************************************************)
EXTENDS FenceProofs

Results == [Steps -> StepOutcomes \cup {"none"}]

-----------------------------------------------------------------------------
(* What the engine's operators return.                                     *)

\* skipBlocked skips a step only if something it depends on has failed, was
\* skipped or is skipped with it.
LEMMA BlockedHasCause ==
  ASSUME NEW r \in Results, NEW s \in Blocked(r)
  PROVE  HasFailedDependency(s, r, Blocked(r))
<1> USE WorkflowAssumption DEF WorkflowAssumption
<1>1. s \in Remaining(r) /\ Blocked(r) \subseteq Remaining(r) /\ Remaining(r) \subseteq Steps
  BY DEF Blocked, Remaining
<1> DEFINE Closed(B) == \A t \in Remaining(r) : HasFailedDependency(t, r, B) => t \in B
<1>2. \A t \in Blocked(r), B \in SUBSET Remaining(r) : Closed(B) => t \in B
  BY DEF Blocked
<1>3. ASSUME NEW t \in Remaining(r), HasFailedDependency(t, r, Blocked(r))
      PROVE  t \in Blocked(r)
  <2>1. PICK d \in DependsOn[t] : d \in Blocked(r) \/ r[d] \in {"failed", "skipped"}
    BY <1>3 DEF HasFailedDependency
  <2>2. ASSUME NEW B \in SUBSET Remaining(r), Closed(B) PROVE t \in B
    <3>1. d \in B \/ r[d] \in {"failed", "skipped"}
      BY <1>2, <2>1, <2>2
    <3>2. HasFailedDependency(t, r, B)
      BY <3>1 DEF HasFailedDependency
    <3> QED
      BY <2>2, <3>2
  <2> QED
    BY <2>2 DEF Blocked
<1>4. SUFFICES ASSUME ~HasFailedDependency(s, r, Blocked(r)) PROVE FALSE
  OBVIOUS
<1> DEFINE Rest == Blocked(r) \ {s}
<1>5. ASSUME NEW t \in Remaining(r), HasFailedDependency(t, r, Rest) PROVE t \in Rest
  <2>1. HasFailedDependency(t, r, Blocked(r))
    BY <1>5 DEF HasFailedDependency
  <2> QED
    BY <1>3, <1>4, <2>1
<1>6. Rest \in SUBSET Remaining(r) /\ Closed(Rest)
  BY <1>1, <1>5
<1>7. s \in Rest
  <2> HIDE DEF Rest, Closed
  <2> QED
    BY <1>2, <1>6
<1> QED
  BY <1>7

\* skipBlocked keeps the results consistent.
LEMMA SkipBlockedConsistent ==
  ASSUME NEW r \in Results, Consistent(r)
  PROVE  SkipBlocked(r) \in Results /\ Consistent(SkipBlocked(r))
<1> USE WorkflowAssumption DEF WorkflowAssumption
<1> DEFINE q == SkipBlocked(r)
<1>1. q \in Results
  BY DEF SkipBlocked, Results, StepOutcomes
<1>2. \A s \in Steps : q[s] = IF s \in Blocked(r) THEN "skipped" ELSE r[s]
  BY DEF SkipBlocked
<1>3. \A s \in Steps : s \in Blocked(r) => r[s] = "none"
  BY DEF Blocked, Remaining
<1> HIDE DEF q
<1>4. \A s \in Steps : DependsOn[s] \subseteq Steps
  OBVIOUS
<1>5. ASSUME NEW s \in Steps, q[s] \in {"succeeded", "failed"}
      PROVE  DependenciesSucceeded(s, q)
  <2>1. r[s] \in {"succeeded", "failed"}
    BY <1>2, <1>5
  <2>2. DependenciesSucceeded(s, r)
    BY <2>1 DEF Consistent
  <2> QED
    BY <1>2, <1>3, <1>4, <2>2 DEF DependenciesSucceeded
<1>6. ASSUME NEW s \in Steps, q[s] = "skipped"
      PROVE  HasFailedDependency(s, q, {})
  <2>1. CASE s \in Blocked(r)
    <3>1. PICK d \in DependsOn[s] : d \in Blocked(r) \/ r[d] \in {"failed", "skipped"}
      BY <2>1, BlockedHasCause DEF HasFailedDependency
    <3>2. q[d] \in {"failed", "skipped"}
      BY <1>2, <1>3, <1>4, <3>1
    <3> QED
      BY <3>2 DEF HasFailedDependency
  <2>2. CASE s \notin Blocked(r)
    <3>1. r[s] = "skipped"
      BY <1>2, <1>6, <2>2
    <3>2. PICK d \in DependsOn[s] : r[d] \in {"failed", "skipped"}
      BY <3>1 DEF Consistent, HasFailedDependency
    <3>3. q[d] \in {"failed", "skipped"}
      BY <1>2, <1>3, <1>4, <3>2
    <3> QED
      BY <3>3 DEF HasFailedDependency
  <2> QED
    BY <2>1, <2>2
<1> QED
  BY <1>1, <1>5, <1>6 DEF Consistent, q

\* A result for a step of the wave keeps the results consistent.
LEMMA DrainConsistent ==
  ASSUME NEW r \in Results, Consistent(r), NEW s \in Steps, r[s] = "none",
         DependenciesSucceeded(s, r), NEW outcome \in {"succeeded", "failed"}
  PROVE  /\ [r EXCEPT ![s] = outcome] \in Results
         /\ Consistent([r EXCEPT ![s] = outcome])
<1> USE WorkflowAssumption DEF WorkflowAssumption
<1> DEFINE q == [r EXCEPT ![s] = outcome]
<1>1. q \in Results
  BY DEF Results, StepOutcomes
<1>2. \A t \in Steps : q[t] = IF t = s THEN outcome ELSE r[t]
  BY DEF Results
<1>3. \A t \in Steps : DependsOn[t] \subseteq Steps
  OBVIOUS
<1> HIDE DEF q
<1>4. ASSUME NEW t \in Steps, q[t] \in {"succeeded", "failed"}
      PROVE  DependenciesSucceeded(t, q)
  <2>1. DependenciesSucceeded(t, r)
    BY <1>2, <1>4 DEF Consistent
  <2> QED
    BY <1>2, <1>3, <2>1 DEF DependenciesSucceeded
<1>5. ASSUME NEW t \in Steps, q[t] = "skipped"
      PROVE  HasFailedDependency(t, q, {})
  <2>1. r[t] = "skipped"
    BY <1>2, <1>5
  <2>2. PICK d \in DependsOn[t] : r[d] \in {"failed", "skipped"}
    BY <2>1 DEF Consistent, HasFailedDependency
  <2>3. q[d] \in {"failed", "skipped"}
    BY <1>2, <1>3, <2>2
  <2> QED
    BY <2>3 DEF HasFailedDependency
<1> QED
  BY <1>1, <1>4, <1>5 DEF Consistent, q

\* A run that has no step left to start and none that failed has done them all:
\* the first step of the workflow that has not succeeded would be ready.
LEMMA NothingFailed ==
  ASSUME NEW r \in Results, Consistent(r), ReadyWave(r) = {}, \A s \in Steps : r[s] # "failed"
  PROVE  \A s \in Steps : r[s] = "succeeded"
<1> USE WorkflowAssumption DEF WorkflowAssumption
<1> DEFINE S == {s \in Steps : r[s] # "succeeded"}
<1> SUFFICES ASSUME S # {} PROVE FALSE
  OBVIOUS
<1>1. PICK s \in S : DependsOn[s] \cap S = {}
  OBVIOUS
<1>2. s \in Steps /\ r[s] \in {"none", "skipped"}
  BY <1>1 DEF Results, StepOutcomes
<1>3. \A d \in DependsOn[s] : r[d] = "succeeded"
  BY <1>1, <1>2
<1>4. CASE r[s] = "none"
  BY <1>2, <1>3, <1>4 DEF ReadyWave, Remaining, DependenciesSucceeded
<1>5. CASE r[s] = "skipped"
  BY <1>2, <1>3, <1>5 DEF Consistent, HasFailedDependency
<1> QED
  BY <1>2, <1>4, <1>5

\* What a run returns skips exactly the steps that could not be started.
LEMMA OrderedSkips ==
  ASSUME NEW r \in Results, Consistent(r), ReadyWave(r) = {}, NEW s \in Steps
  PROVE  Ordered(r)[s] = "skipped" <=> ~DependenciesSucceeded(s, Ordered(r))
<1> USE WorkflowAssumption DEF WorkflowAssumption
<1>1. \A t \in Steps : Ordered(r)[t] = IF r[t] = "none" THEN "skipped" ELSE r[t]
  BY DEF Ordered
<1>2. DependsOn[s] \subseteq Steps
  OBVIOUS
<1>3. DependenciesSucceeded(s, Ordered(r)) <=> DependenciesSucceeded(s, r)
  BY <1>1, <1>2 DEF DependenciesSucceeded
<1>4. r[s] \in {"succeeded", "failed", "skipped", "none"}
  BY DEF Results, StepOutcomes
<1>5. CASE r[s] = "none"
  BY <1>1, <1>3, <1>5 DEF ReadyWave, Remaining
<1>6. CASE r[s] = "skipped"
  BY <1>1, <1>3, <1>6 DEF Consistent, HasFailedDependency, DependenciesSucceeded
<1>7. CASE r[s] \in {"succeeded", "failed"}
  BY <1>1, <1>3, <1>7 DEF Consistent
<1> QED
  BY <1>4, <1>5, <1>6, <1>7

-----------------------------------------------------------------------------
(* What one step does to a run and to the rows of its job.                 *)

RunUndisturbed(w) ==
  /\ InRun(w)
  /\ WaveGoesOn(w)
  /\ UNCHANGED <<pc[w], verdict[w], written[w]>>

\* A run starts with Load and goes on in waves to EndRun, behind which its
\* results are written; all the while nobody but time and others touch the
\* ownership of its job.
LEMMA RunAdvances ==
  ASSUME TypeOK, NEW w \in Workers, WorkerStep(w), InRun(w)'
  PROVE  /\ job'[w] = job[w]
         /\ UNCHANGED owner
         /\ \/ Load(w) \/ StartWave(w) \/ EndRun(w) \/ WriteResult(w) \/ Drains(w)
            \/ RunUndisturbed(w)
<1> USE DEF TypeOK, WorkerTypeOK, EngineTypeOK, Goto, storeVars, workerVars, engineVars, InRun
<1>1. ~(Leave(w) \/ Crash(w))
  BY DEF Leave, NextRound, Crash
<1>2. ~(QueueClaim(w) \/ QueueClaimLost(w) \/ Park(w) \/ Wake(w) \/ Stop(w))
  BY DEF QueueClaim, QueueClaimLost, Park, Wake, Stop, NextRound
<1>3. ~(TakeJob(w) \/ RefuseJob(w) \/ DeadLetter(w) \/ DeadLog(w))
  BY ZenonT(40) DEF TakeJob, RefuseJob, DeadLetter, DeadLog
<1>4. CASE Load(w) \/ EndRun(w) \/ StartWave(w) \/ WriteResult(w)
  BY <1>4 DEF Load, EndRun, StartWave, WriteResult, UpdateStep
<1>5. ~(LoadUnresolved(w) \/ LoadFails(w))
  BY DEF LoadUnresolved, LoadFails, RunEnds
<1>6. ASSUME NEW s \in Steps, RunStep(w, s)
      PROVE  /\ job'[w] = job[w] /\ UNCHANGED owner
             /\ Drains(w) \/ RunUndisturbed(w)
  <2>1. CASE CallAgent(w, s) \/ RefuseStep(w, s) \/ ClaimStepFails(w, s)
    BY <2>1 DEF CallAgent, RefuseStep, ClaimStepFails, ClaimStep, RunUndisturbed, WaveGoesOn
  <2>2. CASE AgentFails(w, s) \/ RetryStep(w, s)
    BY <2>2 DEF AgentFails, RetryStep, RunUndisturbed, WaveGoesOn
  <2>3. CASE AgentSucceeds(w, s) \/ FailStep(w, s)
    BY <2>3 DEF AgentSucceeds, FailStep, Drains, Drain, UpdateStep
  <2> QED
    BY <1>6, <2>1, <2>2, <2>3 DEF RunStep
<1>8. ~(AbandonReleased(w) \/ LogCompleted(w) \/ Finish(w))
  BY <1>1 DEF AbandonReleased, LogCompleted, Finish
<1>9. CASE Beat(w) \/ Shutdown(w)
  BY <1>9 DEF Beat, BeatStore, BeatStoreFails, BeatQueue, BeatQueueFails, ExtendLease, Shutdown,
              RunUndisturbed, WaveGoesOn
<1>10. TakeJobFails(w) \/ Drop(w) \/ AbandonLost(w) \/ AbandonFails(w) \/ RequeueJob(w)
         \/ FinishFails(w) \/ AckJob(w) => Leave(w)
  BY DEF TakeJobFails, Drop, AbandonLost, AbandonFails, RequeueJob, FinishFails, AckJob
<1> QED
  BY <1>1, <1>2, <1>3, <1>4, <1>5, <1>6, <1>8, <1>9, <1>10 DEF WorkerStep, Work

\* A step of anybody else leaves a run alone, and the rows of its job too as
\* long as the job is its own.
LEMMA RunOfOthers ==
  ASSUME TypeOK, [Next]_vars, NEW v \in Workers, ~WorkerStep(v)
  PROVE  /\ UNCHANGED <<pc[v], job[v], results[v], phase[v], verdict[v], written[v]>>
         /\ \A j \in Jobs : owner'[j] = v =>
              owner[j] = v /\ \A s \in Steps : stepStatus'[j][s] = stepStatus[j][s]
<1>1. CASE OtherStep
  BY <1>1, OtherStatements, OthersLeaveSteps, IdentityAssumption
     DEF workerVars, engineVars, IdentityAssumption
<1>2. ASSUME NEW w \in Workers, WorkerStep(w)
      PROVE  /\ UNCHANGED <<pc[v], job[v], results[v], phase[v], verdict[v], written[v]>>
             /\ \A j \in Jobs : owner'[j] = v =>
                  owner[j] = v /\ \A s \in Steps : stepStatus'[j][s] = stepStatus[j][s]
  <2>1. w # v
    BY <1>2
  <2> QED
    BY <1>2, <2>1, OthersKeep, OthersNeedOwnership
<1>3. CASE UNCHANGED vars
  BY <1>3 DEF vars, workerVars, engineVars, storeVars
<1> QED
  BY <1>1, <1>2, <1>3, NextSplit

-----------------------------------------------------------------------------
(* A run follows the workflow.                                             *)

ResultsInOrder(w) ==
  /\ Consistent(results[w])
  /\ \A s \in Steps : phase[w][s] # "off" => DependenciesSucceeded(s, results[w])

\* A run's results are consistent, and so is its wave, in the next state too.
LEMMA RunsInOrderStep ==
  ASSUME TypeOK, WaveIsOpen, DependenciesFirst, RunsInOrder, [Next]_vars
  PROVE  RunsInOrder'
<1> SUFFICES ASSUME NEW v \in Workers, InRun(v)' PROVE ResultsInOrder(v)'
  BY DEF RunsInOrder, ResultsInOrder, Wave
<1> USE WorkflowAssumption DEF WorkflowAssumption
<1>t. /\ results[v] \in Results /\ results \in [Workers -> Results]
      /\ phase \in [Workers -> [Steps -> {"off", "unrendered", "claim", "call", "error"}]]
  BY DEF TypeOK, EngineTypeOK, Results
<1>1. InRun(v) => ResultsInOrder(v)
  BY DEF RunsInOrder, ResultsInOrder, Wave
<1>2. CASE ~WorkerStep(v)
  <2>1. UNCHANGED <<pc[v], results[v], phase[v], verdict[v]>>
    BY <1>2, RunOfOthers
  <2> QED
    BY <1>1, <2>1 DEF InRun, ResultsInOrder, Consistent, DependenciesSucceeded, HasFailedDependency
<1>3. CASE Load(v)
  <2>1. PICK j \in Jobs : job[v] = j
    BY <1>3 DEF Load, TypeOK, WorkerTypeOK, PCs, Busy
  <2>2. \A s \in Steps : phase'[v][s] = "off"
    BY SMTT(40), <1>3 DEF Load, TypeOK, EngineTypeOK
  <2>3. results'[v] = [s \in Steps |-> IF stepStatus[j][s] = "succeeded" THEN "succeeded" ELSE "none"]
    BY <1>3, <1>t, <2>1 DEF Load, Resumable
  <2>4. \A s \in Steps : stepStatus[j][s] = "succeeded" =>
          \A d \in DependsOn[s] : stepStatus[j][d] = "succeeded"
    BY <2>1 DEF DependenciesFirst, DependenciesSucceeded
  <2>5. Consistent(results'[v])
    BY <2>3, <2>4 DEF Consistent, DependenciesSucceeded
  <2> QED
    BY <2>2, <2>5 DEF ResultsInOrder
<1>4. CASE StartWave(v)
  <2>1. InRun(v) /\ results'[v] = results[v]
    BY <1>4 DEF StartWave, InRun
  <2>2. \A s \in Steps : phase'[v][s] # "off" => s \in ReadyWave(results[v])
    BY <1>4, <1>t DEF StartWave
  <2>3. \A s \in Steps : phase'[v][s] # "off" => DependenciesSucceeded(s, results'[v])
    BY <2>1, <2>2 DEF ReadyWave
  <2> QED
    BY <1>1, <2>1, <2>3 DEF ResultsInOrder
<1>5. CASE EndRun(v) \/ WriteResult(v) \/ RunUndisturbed(v)
  <2>1. InRun(v) /\ WaveGoesOn(v)
    BY <1>5 DEF EndRun, WriteResult, RunUndisturbed, WaveGoesOn, InRun, engineVars
  <2> QED
    BY <1>1, <2>1 DEF ResultsInOrder, WaveGoesOn
<1>6. CASE Drains(v)
  <2>1. PICK s \in Steps, outcome \in {"succeeded", "failed"} :
          phase[v][s] # "off" /\ Drain(v, s, outcome)
    BY <1>6 DEF Drains
  <2> DEFINE r == [results[v] EXCEPT ![s] = outcome]
  <2>2. InRun(v) /\ results[v][s] = "none" /\ DependenciesSucceeded(s, results[v])
    BY <1>1, <2>1 DEF ResultsInOrder, InRun, WaveIsOpen, TypeOK, EngineTypeOK
  <2>3. r \in Results /\ Consistent(r)
    BY <1>1, <1>t, <2>2, DrainConsistent DEF ResultsInOrder
  <2>4. results'[v] \in {r, SkipBlocked(r)}
    BY <1>t, <2>1 DEF Drain
  <2>5. \A t \in Steps : phase'[v][t] # "off" => phase[v][t] # "off"
    BY <1>t, <2>1 DEF Drain
  <2>6. \A d \in Steps : results[v][d] = "succeeded" => r[d] = "succeeded"
    BY <1>t, <2>2 DEF Results
  <2> HIDE DEF r
  <2>7. Consistent(results'[v])
    BY <2>3, <2>4, SkipBlockedConsistent
  <2>8. \A d \in Steps : r[d] = "succeeded" => results'[v][d] = "succeeded"
    BY <2>3, <2>4, ResultsStay DEF Results
  <2>9. \A t \in Steps : phase'[v][t] # "off" => DependenciesSucceeded(t, results'[v])
    <3> SUFFICES ASSUME NEW t \in Steps, phase'[v][t] # "off", NEW d \in DependsOn[t]
                 PROVE  results'[v][d] = "succeeded"
      BY DEF DependenciesSucceeded
    <3>1. d \in Steps /\ results[v][d] = "succeeded"
      BY <1>1, <2>2, <2>5 DEF ResultsInOrder, DependenciesSucceeded
    <3> QED
      BY <2>6, <2>8, <3>1
  <2> QED
    BY <2>7, <2>9 DEF ResultsInOrder
<1> QED
  BY <1>2, <1>3, <1>4, <1>5, <1>6, RunAdvances

-----------------------------------------------------------------------------
(* The rows of a job follow the run of its owner.                          *)

\* A drained result of the owner is in the rows, if no write is lost.
LEMMA DrainWrites ==
  ASSUME TypeOK, "write" \notin FaultKinds, NEW w \in Workers, NEW j \in Jobs, job[w] = j,
         NEW s \in Steps, NEW outcome \in {"succeeded", "failed"}, Drain(w, s, outcome)
  PROVE  /\ \A t \in Steps : stepStatus'[j][t] =
              IF t = s /\ owner[j] = w THEN outcome ELSE stepStatus[j][t]
         /\ \A t \in Steps : results'[w][t] = "succeeded" =>
              IF t = s THEN outcome = "succeeded" ELSE results[w][t] = "succeeded"
<1>1. UpdateStep(j, s, w, outcome)
  BY DEF Drain, Fault
<1>2. StoreTypeOK /\ results \in [Workers -> Results]
  BY DEF TypeOK, EngineTypeOK, Results
<1> DEFINE r == [results[w] EXCEPT ![s] = outcome]
<1>3. results'[w] \in {r, SkipBlocked(r)}
  BY <1>2 DEF Drain
<1>4. \A t \in Steps : r[t] = IF t = s THEN outcome ELSE results[w][t]
  BY <1>2 DEF Results
<1>5. \A t \in Steps : SkipBlocked(r)[t] \in {"skipped", r[t]}
  BY DEF SkipBlocked
<1> HIDE DEF r
<1>6. \A t \in Steps : results'[w][t] = "succeeded" => r[t] = "succeeded"
  BY <1>3, <1>5
<1>7. \A t \in Steps : stepStatus'[j][t] =
        IF t = s /\ owner[j] = w THEN outcome ELSE stepStatus[j][t]
  BY <1>1, <1>2, UpdateStepEffect
<1> QED
  BY <1>4, <1>6, <1>7

\* A success that the owner of a job knows of is in the rows, in the next state
\* too.
LEMMA RowsFollowRunStep ==
  ASSUME TypeOK, WaveIsOpen, OwnerKnowsProgress, RowsFollowRun, [Next]_vars,
         "write" \notin FaultKinds
  PROVE  RowsFollowRun'
<1> SUFFICES ASSUME NEW v \in Workers, InRun(v)', owner'[job'[v]] = v,
                    NEW t \in Steps, results'[v][t] = "succeeded"
             PROVE  stepStatus'[job'[v]][t] = "succeeded"
  BY DEF RowsFollowRun
<1>1. PICK j \in Jobs : job[v] = j /\ job'[v] = j /\ (InRun(v) \/ Load(v)) /\ owner[j] = v
  <2>1. CASE WorkerStep(v)
    <3>1. pc[v] \in Busy
      BY <2>1, RunAdvances DEF Load, StartWave, EndRun, WriteResult, Drains, RunUndisturbed,
                               InRun, TypeOK, EngineTypeOK, PCs, Busy
    <3>2. InRun(v) \/ Load(v)
      BY <2>1, RunAdvances DEF StartWave, EndRun, WriteResult, Drains, RunUndisturbed,
                               InRun, TypeOK, EngineTypeOK
    <3> QED
      BY <2>1, <3>1, <3>2, RunAdvances DEF TypeOK, WorkerTypeOK
  <2>2. CASE ~WorkerStep(v)
    <3>1. InRun(v) /\ job'[v] = job[v]
      BY <2>2, RunOfOthers DEF InRun
    <3>2. job[v] \in Jobs
      BY <3>1 DEF InRun, TypeOK, WorkerTypeOK, PCs, Busy
    <3> QED
      BY <2>2, <3>1, <3>2, RunOfOthers
  <2> QED
    BY <2>1, <2>2
<1>2. ASSUME InRun(v), results[v][t] = "succeeded"
      PROVE  stepStatus'[j][t] = "succeeded"
  <2>1. stepStatus[j][t] = "succeeded"
    BY <1>1, <1>2 DEF RowsFollowRun
  <2> QED
    BY <2>1, SuccessStep DEF vars, storeVars
<1>3. CASE ~WorkerStep(v)
  BY <1>1, <1>2, <1>3, RunOfOthers DEF InRun
<1>4. CASE Load(v)
  BY <1>1, <1>4 DEF Load, Resumable, TypeOK, EngineTypeOK, storeVars
<1>5. CASE StartWave(v) \/ EndRun(v) \/ WriteResult(v) \/ RunUndisturbed(v)
  <2>1. InRun(v) /\ results'[v] = results[v]
    BY <1>5 DEF StartWave, EndRun, WriteResult, RunUndisturbed, WaveGoesOn, InRun, engineVars
  <2> QED
    BY <1>1, <1>2, <2>1
<1>6. CASE Drains(v)
  <2>1. PICK s \in Steps, outcome \in {"succeeded", "failed"} :
          phase[v][s] # "off" /\ Drain(v, s, outcome)
    BY <1>6 DEF Drains
  <2>2. InRun(v)
    BY <2>1 DEF InRun, TypeOK, EngineTypeOK
  <2> QED
    BY <1>1, <1>2, <2>1, <2>2, DrainWrites
<1> QED
  BY <1>1, <1>3, <1>4, <1>5, <1>6, RunAdvances

\* A step that succeeds has its dependencies in the rows before it.
LEMMA DependenciesFirstStep ==
  ASSUME TypeOK, WaveIsOpen, OwnerKnowsProgress, RunsInOrder, RowsFollowRun, DependenciesFirst,
         [Next]_vars, "write" \notin FaultKinds
  PROVE  DependenciesFirst'
<1> SUFFICES ASSUME NEW j \in Jobs, NEW s \in Steps, stepStatus'[j][s] = "succeeded",
                    NEW d \in DependsOn[s]
             PROVE  stepStatus'[j][d] = "succeeded"
  BY DEF DependenciesFirst, DependenciesSucceeded
<1>1. d \in Steps
  BY WorkflowAssumption DEF WorkflowAssumption
<1>2. SUFFICES stepStatus[j][d] = "succeeded"
  BY <1>1, SuccessStep DEF vars, storeVars
<1>3. CASE stepStatus[j][s] = "succeeded"
  BY <1>3 DEF DependenciesFirst, DependenciesSucceeded
<1>4. ASSUME stepStatus[j][s] # "succeeded"
      PROVE  stepStatus[j][d] = "succeeded"
  <2>1. PICK w \in Workers : WorkerStep(w)
    BY <1>4, NextSplit, OthersLeaveSteps DEF vars, storeVars
  <2>2. owner[j] = w /\ job[w] = j /\ pc[w] \in {"run", "write"} /\ InRun(w)
    BY <1>4, <2>1, StepRowsFenced DEF InRun
  <2>3. \A t \in Steps : results[w][t] = "succeeded" => stepStatus[j][t] = "succeeded"
    BY <2>2 DEF RowsFollowRun
  <2>t. StoreTypeOK /\ results[w] \in Results
    BY DEF TypeOK, EngineTypeOK, Results
  <2>4. CASE Starts(w)
    BY <1>4, <2>2, <2>t, <2>4, ClaimStepEffect DEF Starts
  <2>5. CASE Persists(w)
    <3>1. PICK t \in Steps : UpdateStep(j, t, w, Ordered(results[w])[t])
      BY <2>2, <2>5 DEF Persists
    <3>2. Ordered(results[w])[t] = "succeeded" => results[w][t] = "succeeded"
      BY <2>t, ResultsStay DEF Results
    <3> QED
      BY <1>4, <2>2, <2>3, <2>t, <3>1, <3>2, UpdateStepEffect
  <2>6. CASE Drains(w)
    <3>1. PICK t \in Steps, outcome \in {"succeeded", "failed"} :
            phase[w][t] # "off" /\ Drain(w, t, outcome)
      BY <2>6 DEF Drains
    <3>2. t = s
      BY <1>4, <2>2, <3>1, DrainWrites
    <3>3. results[w][d] = "succeeded"
      BY <2>2, <3>1, <3>2 DEF RunsInOrder, Wave, DependenciesSucceeded
    <3> QED
      BY <1>1, <2>3, <3>3
  <2> QED
    BY <1>4, <2>1, <2>4, <2>5, <2>6, StepStatements
<1> QED
  BY <1>3, <1>4

-----------------------------------------------------------------------------
(* The verdict and the last writes.                                        *)

\* The verdict on a run is right, in the next state too.
LEMMA VerdictIsRightStep ==
  ASSUME TypeOK, VerdictIsRight, [Next]_vars
  PROVE  VerdictIsRight'
<1> DEFINE Right(w) ==
      /\ ReadyWave(results[w]) = {}
      /\ verdict[w] = IF \E s \in Steps : results[w][s] = "failed" THEN "failed" ELSE "succeeded"
<1> SUFFICES ASSUME NEW v \in Workers, InRun(v)', pc'[v] # "run" PROVE Right(v)'
  BY DEF VerdictIsRight
<1>1. InRun(v) /\ pc[v] # "run" => Right(v)
  BY DEF VerdictIsRight
<1>t. /\ pc \in [Workers -> PCs] /\ verdict \in [Workers -> Verdicts]
      /\ results[v] \in Results
  BY DEF TypeOK, WorkerTypeOK, EngineTypeOK, Results
<1>2. CASE ~WorkerStep(v)
  <2>1. UNCHANGED <<pc[v], results[v], verdict[v]>>
    BY <1>2, RunOfOthers
  <2> QED
    BY <1>1, <2>1 DEF InRun
<1>3. ~Load(v) /\ ~StartWave(v)
  BY <1>t DEF Load, StartWave, Goto
<1>4. ~Drains(v)
  BY ZenonT(40), <1>t DEF Drains, Drain, TypeOK, EngineTypeOK
<1>5. CASE WriteResult(v) \/ RunUndisturbed(v)
  <2>1. InRun(v) /\ pc[v] # "run" /\ UNCHANGED <<results[v], verdict[v]>>
    BY <1>5 DEF WriteResult, RunUndisturbed, WaveGoesOn, InRun, engineVars
  <2> QED
    BY <1>1, <2>1
<1>6. CASE EndRun(v)
  <2>1. results'[v] = results[v] /\ verdict'[v] = Outcome(v) /\ ReadyWave(results[v]) = {}
    BY <1>6, <1>t DEF EndRun, RunEnds, engineVars
  <2>2. Outcome(v) \notin {"infra", "leaseLost"}
    BY <1>6, <1>t DEF EndRun, RunEnds, Goto, InRun
  <2>3. \A s \in Steps : Ordered(results[v])[s] = "failed" <=> results[v][s] = "failed"
    BY DEF Ordered
  <2>4. Outcome(v) = IF \E s \in Steps : results[v][s] = "failed" THEN "failed" ELSE "succeeded"
    BY <2>2, <2>3 DEF Outcome
  <2> QED
    BY <2>1, <2>4
<1> QED
  BY <1>2, <1>3, <1>4, <1>5, <1>6, RunAdvances

Concluding == {"write", "finish", "log", "ack"}

\* What process has persisted counts from the end of the run to its return.
LEMMA WrittenSteps ==
  ASSUME TypeOK, NEW w \in Workers, WorkerStep(w)
  PROVE  \/ written'[w] = 0
         \/ pc'[w] \in Concluding
         \/ written'[w] = written[w] /\ pc[w] \notin Concluding
<1> USE DEF TypeOK, WorkerTypeOK, Goto, workerVars, Concluding
<1>1. CASE Leave(w) \/ Crash(w)
  BY <1>1 DEF Leave, Discard, Crash
<1>2. CASE QueueClaim(w) \/ QueueClaimLost(w) \/ Park(w) \/ Wake(w) \/ Stop(w)
  BY <1>2 DEF QueueClaim, QueueClaimLost, Park, Wake, Stop
<1>3. CASE TakeJob(w) \/ RefuseJob(w) \/ DeadLetter(w) \/ DeadLog(w)
  BY <1>3 DEF TakeJob, RefuseJob, DeadLetter, DeadLog
<1>4. CASE Load(w) \/ LoadUnresolved(w) \/ LoadFails(w) \/ StartWave(w) \/ EndRun(w)
  BY <1>4 DEF Load, LoadUnresolved, LoadFails, StartWave, EndRun
<1>5. ASSUME NEW s \in Steps, RunStep(w, s)
      PROVE  pc'[w] = pc[w] /\ written'[w] = written[w]
  BY <1>5 DEF RunStep, CallAgent, RefuseStep, ClaimStepFails, AgentSucceeds, AgentFails,
              RetryStep, FailStep, Drain
<1>6. CASE AbandonReleased(w) \/ WriteResult(w) \/ LogCompleted(w)
  BY <1>6 DEF AbandonReleased, WriteResult, LogCompleted
<1>7. CASE Finish(w)
  BY <1>1, <1>7 DEF Finish
<1>8. CASE Beat(w) \/ Shutdown(w)
  BY <1>8 DEF Beat, BeatStore, BeatStoreFails, BeatQueue, BeatQueueFails, Shutdown
<1>9. TakeJobFails(w) \/ Drop(w) \/ AbandonLost(w) \/ AbandonFails(w) \/ RequeueJob(w)
        \/ FinishFails(w) \/ AckJob(w) => Leave(w)
  BY DEF TakeJobFails, Drop, AbandonLost, AbandonFails, RequeueJob, FinishFails, AckJob
<1> QED
  BY <1>1, <1>2, <1>3, <1>4, <1>5, <1>6, <1>7, <1>8, <1>9 DEF WorkerStep, Work

\* The first rows of a job are the results of its owner's run, as many as it has
\* persisted, in the next state too.
LEMMA WrittenSoFarStep ==
  ASSUME TypeOK, WrittenSoFar, [Next]_vars, "write" \notin FaultKinds
  PROVE  WrittenSoFar'
<1> SUFFICES ASSUME NEW v \in Workers
             PROVE  /\ pc'[v] \notin Concluding => written'[v] = 0
                    /\ InRun(v)' /\ pc'[v] = "finish" => written'[v] = NumSteps
                    /\ InRun(v)' /\ owner'[job'[v]] = v =>
                         \A s \in Steps : s <= written'[v] =>
                           stepStatus'[job'[v]][s] = Ordered(results'[v])[s]
  BY DEF WrittenSoFar, Concluding, Ordered
<1>t. /\ pc \in [Workers -> PCs] /\ written \in [Workers -> 0..NumSteps]
      /\ results \in [Workers -> Results] /\ StoreTypeOK
      /\ \A s \in Steps : s \in Nat \ {0}
      /\ NumSteps \in Nat
  BY WorkflowAssumption
     DEF TypeOK, WorkerTypeOK, EngineTypeOK, Results, Steps, WorkflowAssumption
<1>1. /\ pc[v] \notin Concluding => written[v] = 0
      /\ InRun(v) /\ pc[v] = "finish" => written[v] = NumSteps
      /\ InRun(v) /\ owner[job[v]] = v =>
           \A s \in Steps : s <= written[v] => stepStatus[job[v]][s] = Ordered(results[v])[s]
  BY DEF WrittenSoFar, Concluding
<1>2. CASE ~WorkerStep(v)
  <2>1. UNCHANGED <<pc[v], job[v], results[v], verdict[v], written[v]>>
    BY <1>2, RunOfOthers
  <2>2. ASSUME InRun(v), owner'[job'[v]] = v
        PROVE  /\ owner[job[v]] = v
               /\ \A s \in Steps : stepStatus'[job'[v]][s] = stepStatus[job[v]][s]
    <3>1. job[v] \in Jobs
      BY <2>2 DEF InRun, TypeOK, WorkerTypeOK, PCs, Busy
    <3> QED
      BY <1>2, <2>1, <2>2, <3>1, RunOfOthers
  <2> QED
    BY <1>1, <2>1, <2>2 DEF InRun
<1>3. CASE WorkerStep(v) /\ ~InRun(v)'
  BY <1>1, <1>3, WrittenSteps
<1>4. CASE WorkerStep(v) /\ InRun(v)'
  <2>1. job'[v] = job[v] /\ UNCHANGED owner
    BY <1>4, RunAdvances
  <2>2. CASE Load(v)
    <3>1. written'[v] = 0 /\ pc'[v] = "run"
      BY <1>1, <1>t, <2>2 DEF Load, Goto, Concluding
    <3> QED
      BY <1>t, <3>1
  <2>3. CASE StartWave(v) \/ Drains(v)
    <3>1. pc[v] = "run"
      BY <2>3 DEF StartWave, Drains, TypeOK, EngineTypeOK
    <3>2. UNCHANGED <<pc, written>>
      BY <2>3 DEF StartWave, Drains, Drain
    <3> QED
      BY <1>1, <1>t, <3>1, <3>2 DEF Concluding
  <2>4. CASE EndRun(v)
    <3>1. written'[v] = 0 /\ pc'[v] = "write"
      BY <1>1, <1>4, <1>t, <2>4 DEF EndRun, RunEnds, Goto, Concluding, InRun, Outcome
    <3> QED
      BY <1>t, <3>1 DEF Concluding
  <2>5. CASE WriteResult(v)
    <3>1. PICK j \in Jobs : job[v] = j
      BY <2>5 DEF WriteResult, TypeOK, WorkerTypeOK, PCs, Busy
    <3>2. /\ written[v] < NumSteps /\ written'[v] = written[v] + 1
          /\ pc[v] = "write" /\ pc'[v] = IF written[v] + 1 = NumSteps THEN "finish" ELSE "write"
          /\ results'[v] = results[v]
      BY <1>t, <2>5 DEF WriteResult, Goto, engineVars
    <3>3. UpdateStep(j, written[v] + 1, v, Ordered(results[v])[written[v] + 1])
      BY <2>5, <3>1 DEF WriteResult, Fault
    <3>4. written[v] + 1 \in Steps
      BY <1>t, <3>2 DEF Steps
    <3>5. \A s \in Steps : stepStatus'[j][s] =
            IF s = written[v] + 1 /\ owner[j] = v THEN Ordered(results[v])[s] ELSE stepStatus[j][s]
      BY <1>t, <3>3, <3>4, UpdateStepEffect
    <3>6. ASSUME owner[j] = v, NEW s \in Steps, s <= written'[v]
          PROVE  stepStatus'[j][s] = Ordered(results[v])[s]
      <4>1. CASE s = written[v] + 1
        BY <3>5, <3>6, <4>1
      <4>2. CASE s <= written[v]
        BY <1>1, <3>1, <3>2, <3>5, <3>6, <4>2 DEF InRun
      <4> QED
        BY <1>t, <3>2, <3>6, <4>1, <4>2
    <3> QED
      BY <2>1, <3>1, <3>2, <3>6 DEF Concluding
  <2>6. CASE RunUndisturbed(v)
    <3>1. InRun(v) /\ UNCHANGED <<pc[v], results[v], written[v]>>
      BY <2>6 DEF RunUndisturbed, WaveGoesOn
    <3>2. PICK j \in Jobs : job[v] = j
      BY <3>1 DEF InRun, TypeOK, WorkerTypeOK, PCs, Busy
    <3>3. CASE pc[v] = "run"
      BY <1>1, <1>t, <3>1, <3>3 DEF Concluding
    <3>4. CASE pc[v] # "run"
      <4>1. UNCHANGED stepStatus \/ Persists(v)
        BY <1>4, <3>4, StepStatements DEF Starts, Drains, TypeOK, EngineTypeOK
      <4>2. \A s \in Steps : owner[j] = v =>
              stepStatus'[j][s] \in {stepStatus[j][s], Ordered(results[v])[s]}
        BY <1>t, <3>2, <4>1, UpdateStepEffect DEF Persists
      <4> QED
        BY <1>1, <2>1, <3>1, <3>2, <4>2
    <3> QED
      BY <3>3, <3>4
  <2> QED
    BY <1>4, <2>2, <2>3, <2>4, <2>5, <2>6, RunAdvances
<1> QED
  BY <1>2, <1>3, <1>4

-----------------------------------------------------------------------------
(* The books that FinishJob closes.                                        *)

\* Only a job that has ended has an error, in the next state too.
LEMMA ErrorsEndStep ==
  ASSUME TypeOK, OwnedRuns, ErrorsEnd, [Next]_vars
  PROVE  ErrorsEnd'
<1> SUFFICES ASSUME NEW j \in Jobs, jobError'[j] # "" PROVE Terminal(j)'
  BY DEF ErrorsEnd, Terminal
<1>1. CASE jobError[j] # ""
  BY <1>1, TerminalPersists DEF ErrorsEnd
<1>2. CASE jobError[j] = ""
  <2> USE <1>2 DEF TypeOK, StoreTypeOK, Terminal
  <2>1. ~RowsOnly
    BY DEF RowsOnly
  <2>2. ~UNCHANGED vars
    BY DEF vars, storeVars
  <2>3. ASSUME NEW w \in Workers, Claims(w) \/ Renews(w) \/ Releases(w) PROVE FALSE
    BY <2>3 DEF Claims, ClaimJob, Renews, ExtendLease, Releases, ReleaseJob, ToPending
  <2>4. ASSUME NEW w \in Workers, Ends(w) PROVE Terminal(j)'
    <3>1. PICK st \in {"succeeded", "failed"}, err \in {"", "workflow", "config", "dead letter"} :
            FinishJob(job[w], w, st, err)
      BY <2>4, EndsEffect
    <3> QED
      BY <3>1 DEF FinishJob
  <2>5. ASSUME NEW k \in Jobs, CreateJob(k) \/ FailsDispatch(k) \/ StoreLapse(k)
        PROVE  Terminal(j)'
    BY <2>5 DEF CreateJob, FailsDispatch, FinishJob, StoreLapse, StoreLeaseExpires
  <2>6. ~Sweeps
    BY DEF Sweeps, ReclaimExpiredJobs, ToPending
  <2> QED
    BY <2>1, <2>2, <2>3, <2>4, <2>5, <2>6, NextSplit, WorkerStatements, OtherStatements
<1> QED
  BY <1>1, <1>2

\* w records its verdict on j, which it still owns.
Concludes(w, j) ==
  /\ pc[w] = "finish" /\ job[w] = j /\ owner[j] = w
  /\ status'[j] = FinalStatus(verdict[w])
  /\ jobError'[j] = FinalError(verdict[w])

\* A job becomes succeeded, or failed for its workflow, by the verdict of the
\* worker that owns it and in no other way.
LEMMA ConclusionsAreVerdicts ==
  ASSUME TypeOK, [Next]_vars, NEW j \in Jobs,
         \/ status'[j] = "succeeded" /\ status[j] # "succeeded"
         \/ jobError'[j] = "workflow" /\ jobError[j] # "workflow"
  PROVE  \E w \in Workers : Concludes(w, j)
<1> USE DEF TypeOK, StoreTypeOK
<1>1. ~RowsOnly
  BY DEF RowsOnly
<1>2. ~UNCHANGED vars
  BY DEF vars, storeVars
<1>3. ASSUME NEW w \in Workers, Claims(w) \/ Renews(w) \/ Releases(w) PROVE FALSE
  <2>1. ~Claims(w)
    BY DEF Claims, ClaimJob
  <2>2. ~Renews(w)
    BY DEF Renews, ExtendLease
  <2>3. ASSUME Releases(w) PROVE status'[j] \in {status[j], "pending"} /\ UNCHANGED jobError
    BY <2>3 DEF Releases, ReleaseJob, ToPending
  <2> QED
    BY <1>3, <2>1, <2>2, <2>3
<1>4. ASSUME NEW w \in Workers, Ends(w) PROVE Concludes(w, j)
  <2>1. ~(pc[w] = "deadLetter" /\ FinishJob(job[w], w, "failed", "dead letter"))
    BY DEF FinishJob
  <2>2. pc[w] = "finish" /\ FinishJob(job[w], w, FinalStatus(verdict[w]), FinalError(verdict[w]))
    BY <1>4, <2>1 DEF Ends
  <2>3. job[w] = j /\ owner[j] = w
    BY ZenonT(40), <2>2 DEF FinishJob, FinishHeld
  <2>4. FinishHeld(j, w)
    BY <2>2, <2>3 DEF FinishJob
  <2> QED
    BY <2>2, <2>3, <2>4 DEF FinishJob, Concludes
<1>5. ASSUME NEW k \in Jobs, CreateJob(k) \/ FailsDispatch(k) \/ StoreLapse(k) PROVE FALSE
  BY ZenonT(40), <1>5 DEF CreateJob, FailsDispatch, FinishJob, StoreLapse, StoreLeaseExpires
<1>6. ~Sweeps
  BY DEF Sweeps, ReclaimExpiredJobs, ToPending
<1> QED
  BY <1>1, <1>2, <1>3, <1>4, <1>5, <1>6, NextSplit, WorkerStatements, OtherStatements

\* The rows of a job whose owner is concluding it are not written.
LEMMA ConclusionLeavesSteps ==
  ASSUME TypeOK, [Next]_vars, NEW j \in Jobs,
         owner[j] = None \/ \E w \in Workers : owner[j] = w /\ pc[w] = "finish"
  PROVE  \A s \in Steps : stepStatus'[j][s] = stepStatus[j][s]
<1>1. CASE OtherStep \/ UNCHANGED vars
  BY <1>1, OthersLeaveSteps DEF vars, storeVars
<1>2. ASSUME NEW w \in Workers, WorkerStep(w), NEW s \in Steps
      PROVE  stepStatus'[j][s] = stepStatus[j][s]
  BY <1>2, StepRowsFenced, IdentityAssumption DEF IdentityAssumption
<1> QED
  BY <1>1, <1>2, NextSplit

\* A job that succeeded has done all its steps, in the next state too.
LEMMA SucceededStep ==
  ASSUME TypeOK, WaveIsOpen, OwnerKnowsProgress, BooksInv, SucceededMeansAllSteps, [Next]_vars
  PROVE  SucceededMeansAllSteps'
<1> SUFFICES ASSUME NEW j \in Jobs, status'[j] = "succeeded", NEW s \in Steps
             PROVE  stepStatus'[j][s] = "succeeded"
  BY DEF SucceededMeansAllSteps
<1>1. SUFFICES stepStatus[j][s] = "succeeded"
  BY SuccessStep DEF vars, storeVars
<1>2. CASE status[j] = "succeeded"
  BY <1>2 DEF SucceededMeansAllSteps
<1>3. CASE status[j] # "succeeded"
  <2>1. PICK w \in Workers : Concludes(w, j)
    BY <1>3, ConclusionsAreVerdicts
  <2>2. verdict[w] = "succeeded" /\ InRun(w) /\ pc[w] # "run"
    BY <2>1 DEF Concludes, FinalStatus, InRun
  <2>3. /\ results[w] \in Results /\ Consistent(results[w])
        /\ ReadyWave(results[w]) = {}
        /\ \A t \in Steps : results[w][t] # "failed"
    BY <2>2 DEF BooksInv, RunsInOrder, VerdictIsRight, TypeOK, EngineTypeOK, Results
  <2>4. results[w][s] = "succeeded"
    BY <2>3, NothingFailed
  <2> QED
    BY <2>1, <2>2, <2>4 DEF BooksInv, RowsFollowRun, Concludes
<1> QED
  BY <1>2, <1>3

\* The rows of a job that failed tell the whole story.
WholeStory(j) ==
  /\ \A s \in Steps : stepStatus[j][s] \in StepOutcomes
  /\ \E s \in Steps : stepStatus[j][s] = "failed"
  /\ \A s \in Steps : stepStatus[j][s] = "skipped" <=> ~DependenciesSucceeded(s, stepStatus[j])

\* They do in the next state too.
LEMMA ClosedBooksStep ==
  ASSUME TypeOK, OwnedRuns, BooksInv, ClosedBooks, [Next]_vars
  PROVE  ClosedBooks'
<1> USE WorkflowAssumption DEF WorkflowAssumption
<1> SUFFICES ASSUME NEW j \in Jobs, jobError'[j] = "workflow"
             PROVE  WholeStory(j)'
  BY DEF ClosedBooks, WholeStory
<1>1. ASSUME WholeStory(j), \A s \in Steps : stepStatus'[j][s] = stepStatus[j][s]
      PROVE  WholeStory(j)'
  BY <1>1 DEF WholeStory, DependenciesSucceeded
<1>2. CASE jobError[j] = "workflow"
  <2>1. WholeStory(j)
    BY <1>2 DEF ClosedBooks, WholeStory
  <2>2. owner[j] = None
    BY <1>2 DEF BooksInv, ErrorsEnd, Terminal, OwnedRuns
  <2> QED
    BY <1>1, <2>1, <2>2, ConclusionLeavesSteps
<1>3. CASE jobError[j] # "workflow"
  <2>1. PICK w \in Workers : Concludes(w, j)
    BY <1>3, ConclusionsAreVerdicts
  <2>2. verdict[w] \notin {"succeeded", "config"} /\ InRun(w) /\ pc[w] = "finish"
    BY <2>1 DEF Concludes, FinalError, InRun
  <2>3. /\ results[w] \in Results /\ Consistent(results[w])
        /\ ReadyWave(results[w]) = {}
        /\ \E t \in Steps : results[w][t] = "failed"
    BY <2>2 DEF BooksInv, RunsInOrder, VerdictIsRight, TypeOK, EngineTypeOK, Results
  <2>4. \A s \in Steps : stepStatus[j][s] = Ordered(results[w])[s]
    <3>1. written[w] = NumSteps
      BY <2>2 DEF BooksInv, WrittenSoFar
    <3>2. \A s \in Steps : s <= written[w]
      BY <3>1 DEF Steps
    <3> QED
      BY <2>1, <2>2, <3>2 DEF BooksInv, WrittenSoFar, Concludes
  <2>5. WholeStory(j)
    <3>1. \A s \in Steps : Ordered(results[w])[s] \in StepOutcomes
      BY <2>3 DEF Ordered, Results, StepOutcomes
    <3>2. \E s \in Steps : Ordered(results[w])[s] = "failed"
      BY <2>3 DEF Ordered
    <3>3. \A s \in Steps :
            Ordered(results[w])[s] = "skipped" <=> ~DependenciesSucceeded(s, Ordered(results[w]))
      BY <2>3, OrderedSkips
    <3>4. \A s \in Steps : DependenciesSucceeded(s, Ordered(results[w]))
                             <=> DependenciesSucceeded(s, stepStatus[j])
      BY <2>4 DEF DependenciesSucceeded
    <3> QED
      BY <2>4, <3>1, <3>2, <3>3, <3>4 DEF WholeStory
  <2> QED
    BY <1>1, <2>1, <2>5, ConclusionLeavesSteps DEF Concludes
<1> QED
  BY <1>2, <1>3

\* If no write of a step is lost, the rows of a job follow the run of its owner
\* and respect the dependencies, at every moment a crash may freeze.
THEOREM BooksAreKept ==
  ASSUME "write" \notin FaultKinds
  PROVE  Spec => []BooksInv /\ []DependenciesFirst
<1>1. Init => BooksInv /\ DependenciesFirst
  <2> SUFFICES ASSUME Init PROVE BooksInv /\ DependenciesFirst
    OBVIOUS
  <2>1. /\ pc = [w \in Workers |-> "idle"] /\ written = [w \in Workers |-> 0]
        /\ jobError = [j \in Jobs |-> ""]
        /\ stepStatus = [j \in Jobs |-> [s \in Steps |-> "pending"]]
    BY DEF Init, EmptyStore
  <2>2. DependenciesFirst
    BY <2>1 DEF DependenciesFirst
  <2>3. \A w \in Workers : ~InRun(w)
    BY <2>1 DEF InRun
  <2> QED
    BY <2>1, <2>2, <2>3
       DEF BooksInv, RunsInOrder, RowsFollowRun, VerdictIsRight, WrittenSoFar, ErrorsEnd
<1>2. TypeOK /\ FenceInv /\ BooksInv /\ DependenciesFirst /\ [Next]_vars
        => BooksInv' /\ DependenciesFirst'
  <2> SUFFICES ASSUME TypeOK, FenceInv, BooksInv, DependenciesFirst, [Next]_vars
               PROVE  BooksInv' /\ DependenciesFirst'
    OBVIOUS
  <2>1. /\ OwnedRuns /\ WaveIsOpen /\ OwnerKnowsProgress
        /\ RunsInOrder /\ RowsFollowRun /\ VerdictIsRight /\ WrittenSoFar /\ ErrorsEnd
    BY DEF FenceInv, BooksInv
  <2>2. RunsInOrder' /\ RowsFollowRun' /\ DependenciesFirst'
    BY <2>1, RunsInOrderStep, RowsFollowRunStep, DependenciesFirstStep
  <2>3. VerdictIsRight' /\ WrittenSoFar' /\ ErrorsEnd'
    BY <2>1, VerdictIsRightStep, WrittenSoFarStep, ErrorsEndStep
  <2> QED
    BY <2>2, <2>3 DEF BooksInv
<1> QED
  BY <1>1, <1>2, TypeCorrect, FencesHold, PTL DEF Spec

\* If no write of a step is lost, what resumable replays is closed under
\* DependsOn, wherever the delivery before it was cut off.
THEOREM DependenciesComeFirst ==
  ASSUME "write" \notin FaultKinds
  PROVE  Spec => []DependenciesFirst
BY BooksAreKept, PTL

\* If no write of a step is lost, a job recorded as succeeded has every one of
\* its steps recorded as succeeded, over however many deliveries and workers
\* they were spread.
THEOREM SuccessIsWhole ==
  ASSUME "write" \notin FaultKinds
  PROVE  Spec => []SucceededMeansAllSteps
<1>1. Init => SucceededMeansAllSteps
  <2>1. Init => status = [j \in Jobs |-> "absent"]
    BY DEF Init, EmptyStore
  <2> QED
    BY <2>1 DEF SucceededMeansAllSteps
<1>2. TypeOK /\ FenceInv /\ BooksInv /\ SucceededMeansAllSteps /\ [Next]_vars
        => SucceededMeansAllSteps'
  BY SucceededStep DEF FenceInv
<1> QED
  BY <1>1, <1>2, TypeCorrect, FencesHold, BooksAreKept, PTL DEF Spec

\* If no write of a step is lost, the rows of a job that failed for its workflow
\* tell the whole story: what failed, and exactly what was skipped behind it.
THEOREM BooksAreClosed ==
  ASSUME "write" \notin FaultKinds
  PROVE  Spec => []ClosedBooks
<1>1. Init => ClosedBooks
  <2>1. Init => jobError = [j \in Jobs |-> ""]
    BY DEF Init, EmptyStore
  <2> QED
    BY <2>1 DEF ClosedBooks
<1>2. TypeOK /\ FenceInv /\ BooksInv /\ ClosedBooks /\ [Next]_vars => ClosedBooks'
  BY ClosedBooksStep DEF FenceInv
<1> QED
  BY <1>1, <1>2, TypeCorrect, FencesHold, BooksAreKept, PTL DEF Spec

=============================================================================
