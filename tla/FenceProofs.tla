---------------------------- MODULE FenceProofs ----------------------------
(***************************************************************************)
(* What the leases and the fences of the store guarantee, for every value  *)
(* of the constants and whatever fails, stalls included: who may change a  *)
(* job's row, that a step that succeeded is never undone, that             *)
(* job.completed is never recorded early, and that the service implements  *)
(* JobLifecycle.                                                           *)
(***************************************************************************)
EXTENDS ServiceProofs

-----------------------------------------------------------------------------
(* What one step of a worker can change.                                   *)

WorkerStep(w) == Work(w) \/ Beat(w) \/ Crash(w) \/ Shutdown(w)

\* What process keeps on its stack is touched by its own worker only.
LEMMA OthersKeep ==
  ASSUME TypeOK, NEW w \in Workers, NEW v \in Workers, v # w, WorkerStep(w)
  PROVE  /\ pc'[v] = pc[v] /\ job'[v] = job[v] /\ results'[v] = results[v] /\ phase'[v] = phase[v]
         /\ verdict'[v] = verdict[v] /\ written'[v] = written[v]
<1> USE DEF TypeOK, WorkerTypeOK, EngineTypeOK, Goto, engineVars, workerVars
<1>1. CASE Leave(w) \/ Crash(w)
  BY <1>1 DEF Leave, NextRound, Discard, Crash
<1>2. CASE QueueClaim(w) \/ QueueClaimLost(w) \/ Park(w) \/ Wake(w) \/ Stop(w)
  BY <1>2 DEF QueueClaim, QueueClaimLost, Park, Wake, Stop, NextRound
<1>3. CASE TakeJob(w) \/ RefuseJob(w) \/ DeadLetter(w) \/ DeadLog(w)
  BY <1>3 DEF TakeJob, RefuseJob, DeadLetter, DeadLog
<1>4. CASE Load(w) \/ LoadUnresolved(w) \/ LoadFails(w) \/ EndRun(w)
  BY <1>4 DEF Load, LoadUnresolved, LoadFails, EndRun, RunEnds
<1>5. CASE StartWave(w)
  BY <1>5 DEF StartWave
<1>6. ASSUME NEW s \in Steps, RunStep(w, s)
      PROVE  /\ pc'[v] = pc[v] /\ job'[v] = job[v] /\ results'[v] = results[v] /\ phase'[v] = phase[v]
             /\ verdict'[v] = verdict[v] /\ written'[v] = written[v]
  <2>1. CASE \E outcome \in {"succeeded", "failed"} : Drain(w, s, outcome)
    BY <2>1 DEF Drain
  <2>2. CASE CallAgent(w, s) \/ RefuseStep(w, s) \/ ClaimStepFails(w, s)
    BY <2>2 DEF CallAgent, RefuseStep, ClaimStepFails
  <2>3. CASE AgentFails(w, s) \/ RetryStep(w, s)
    BY <2>3 DEF AgentFails, RetryStep
  <2> QED
    BY <1>6, <2>1, <2>2, <2>3 DEF RunStep, AgentSucceeds, FailStep
<1>7. CASE AbandonReleased(w) \/ WriteResult(w) \/ LogCompleted(w)
  BY <1>7 DEF AbandonReleased, WriteResult, LogCompleted
<1>8. CASE Finish(w)
  BY <1>1, <1>8 DEF Finish
<1>9. CASE Beat(w) \/ Shutdown(w)
  BY <1>9 DEF Beat, BeatStore, BeatStoreFails, BeatQueue, BeatQueueFails, Shutdown
<1>10. TakeJobFails(w) \/ Drop(w) \/ AbandonLost(w) \/ AbandonFails(w) \/ RequeueJob(w)
         \/ FinishFails(w) \/ AckJob(w) => Leave(w)
  BY DEF TakeJobFails, Drop, AbandonLost, AbandonFails, RequeueJob, FinishFails, AckJob
<1> QED
  BY <1>1, <1>2, <1>3, <1>4, <1>5, <1>6, <1>7, <1>8, <1>9, <1>10 DEF WorkerStep, Work

\* A statement that leaves the job rows alone.
RowsOnly == UNCHANGED <<status, owner, leaseUntil, jobError>>

Claims(w) == pc[w] = "claimed" /\ ClaimJob(job[w], w)
Renews(w) == ExtendLease(job[w], w)
Releases(w) == pc[w] = "abandon" /\ ReleaseJob(job[w], w)
Ends(w) ==
  \/ /\ pc[w] = "deadLetter"
     /\ FinishJob(job[w], w, "failed", "dead letter")
  \/ /\ pc[w] = "finish"
     /\ FinishJob(job[w], w, FinalStatus(verdict[w]), FinalError(verdict[w]))

\* Whatever the verdict, a worker ends a job as succeeded or failed.
LEMMA EndsEffect ==
  ASSUME NEW w \in Workers, Ends(w)
  PROVE  \E st \in {"succeeded", "failed"}, err \in {"", "workflow", "config", "dead letter"} :
           FinishJob(job[w], w, st, err)
BY DEF Ends, FinalStatus, FinalError

\* A worker changes a job's row by claiming the job it was delivered, by
\* renewing, releasing or ending the job it processes, and in no other way.
LEMMA WorkerStatements ==
  ASSUME TypeOK, NEW w \in Workers, WorkerStep(w)
  PROVE  RowsOnly \/ Claims(w) \/ Renews(w) \/ Releases(w) \/ Ends(w)
<1> USE DEF RowsOnly, storeVars
<1>1. CASE QueueClaim(w) \/ QueueClaimLost(w) \/ Park(w) \/ Wake(w) \/ Stop(w)
  BY <1>1 DEF QueueClaim, QueueClaimLost, Park, Wake, Stop
<1>2. CASE TakeJob(w) \/ RefuseJob(w) \/ TakeJobFails(w) \/ Drop(w)
  BY <1>2 DEF TakeJob, RefuseJob, TakeJobFails, Drop, Claims
<1>3. CASE DeadLetter(w) \/ DeadLog(w)
  BY <1>3 DEF DeadLetter, DeadLog, AppendEvent, Ends
<1>4. CASE Load(w) \/ LoadUnresolved(w) \/ LoadFails(w) \/ StartWave(w) \/ EndRun(w)
  BY <1>4 DEF Load, LoadUnresolved, LoadFails, StartWave, EndRun
<1>5. CASE \E s \in Steps : RunStep(w, s)
  BY <1>5 DEF RunStep, CallAgent, RefuseStep, ClaimStepFails, AgentSucceeds, AgentFails,
              RetryStep, FailStep, Drain, UpdateStep, ClaimStep
<1>6. CASE AbandonLost(w) \/ AbandonReleased(w) \/ AbandonFails(w) \/ RequeueJob(w)
  BY <1>6 DEF AbandonLost, AbandonReleased, AbandonFails, RequeueJob, Releases
<1>7. CASE WriteResult(w) \/ LogCompleted(w) \/ AckJob(w)
  BY <1>7 DEF WriteResult, LogCompleted, AckJob, UpdateStep, AppendEvent
<1>8. CASE Finish(w) \/ FinishFails(w)
  BY <1>8 DEF Finish, FinishFails, Ends
<1>9. CASE Beat(w)
  BY <1>9 DEF Beat, BeatStore, BeatStoreFails, BeatQueue, BeatQueueFails, Renews
<1>10. CASE Crash(w) \/ Shutdown(w)
  BY <1>10 DEF Crash, Shutdown
<1> QED
  BY <1>1, <1>2, <1>3, <1>4, <1>5, <1>6, <1>7, <1>8, <1>9, <1>10 DEF WorkerStep, Work

OtherStep ==
  \/ \E j \in Jobs : Submit(j) \/ QueueLapse(j) \/ StoreLapse(j)
  \/ \E r \in Reapers : Reap(r) \/ ReaperCrash(r)
  \/ RedisLoss

FailsDispatch(j) == submit[j] = "failing" /\ FinishJob(j, None, "failed", "enqueue")
Sweeps == \E B \in SUBSET Orphaned : ReclaimExpiredJobs(B)

\* Requests, reapers and time leave the workers alone, and change a job's row by
\* creating it, by failing it in the name of no owner, by letting its lease run
\* out or by returning it to pending after the grace period.
LEMMA OtherStatements ==
  ASSUME OtherStep
  PROVE  /\ UNCHANGED workerVars
         /\ \/ RowsOnly
            \/ \E j \in Jobs : CreateJob(j) \/ FailsDispatch(j) \/ StoreLapse(j)
            \/ Sweeps
<1> USE DEF RowsOnly, storeVars
<1>1. ASSUME NEW j \in Jobs, Submit(j)
      PROVE  UNCHANGED workerVars /\ (RowsOnly \/ CreateJob(j) \/ FailsDispatch(j))
  BY <1>1 DEF Submit, Create, CreateFails, Dispatch, DispatchFails, FailDispatch, SubmitDies,
              FailsDispatch
<1>2. ASSUME NEW j \in Jobs, QueueLapse(j) \/ StoreLapse(j)
      PROVE  UNCHANGED workerVars /\ (RowsOnly \/ StoreLapse(j))
  BY <1>2 DEF QueueLapse, StoreLapse
<1>3. ASSUME NEW r \in Reapers, Reap(r) \/ ReaperCrash(r)
      PROVE  UNCHANGED workerVars /\ (RowsOnly \/ Sweeps)
  BY <1>3 DEF Reap, ReapQueue, ReapStore, ReapStoreFails, PushOrphan, ReapEnds, ReaperCrash,
              Sweeps, Batches
<1>4. CASE RedisLoss
  BY <1>4 DEF RedisLoss
<1> QED
  BY <1>1, <1>2, <1>3, <1>4 DEF OtherStep

\* Every step is a step of one worker, or of a request, a reaper or time.
LEMMA NextSplit == Next <=> OtherStep \/ \E w \in Workers : WorkerStep(w)
BY DEF Next, OtherStep, WorkerStep

-----------------------------------------------------------------------------
(* Only a running job has an owner, so no outcome is overwritten.          *)

\* Only a running job has an owner, in the next state too.
LEMMA OwnedRunsStep ==
  ASSUME TypeOK, OwnedRuns, [Next]_vars
  PROVE  OwnedRuns'
<1> USE IdentityAssumption DEF IdentityAssumption, TypeOK, StoreTypeOK, OwnedRuns
<1>1. CASE RowsOnly
  BY <1>1 DEF RowsOnly
<1>2. ASSUME NEW w \in Workers, WorkerStep(w), Claims(w)
      PROVE  OwnedRuns'
  BY <1>2 DEF Claims, ClaimJob
<1>3. ASSUME NEW w \in Workers, Renews(w) PROVE OwnedRuns'
  BY <1>3 DEF Renews, ExtendLease
<1>4. ASSUME NEW w \in Workers, Releases(w) PROVE OwnedRuns'
  BY <1>4 DEF Releases, ReleaseJob, ToPending
<1>5. ASSUME NEW w \in Workers, Ends(w) PROVE OwnedRuns'
  <2>1. PICK st \in {"succeeded", "failed"}, err \in {"", "workflow", "config", "dead letter"} :
          FinishJob(job[w], w, st, err)
    BY <1>5, EndsEffect
  <2> QED
    BY ZenonT(40), <2>1 DEF FinishJob
<1>6. ASSUME NEW j \in Jobs, CreateJob(j) PROVE OwnedRuns'
  BY <1>6 DEF CreateJob
<1>7. ASSUME NEW j \in Jobs, FailsDispatch(j) PROVE OwnedRuns'
  BY ZenonT(40), <1>7 DEF FailsDispatch, FinishJob
<1>8. ASSUME NEW j \in Jobs, StoreLapse(j) PROVE OwnedRuns'
  BY <1>8 DEF StoreLapse, StoreLeaseExpires
<1>9. ASSUME NEW B \in SUBSET Orphaned, ReclaimExpiredJobs(B) PROVE OwnedRuns'
  BY <1>9 DEF ReclaimExpiredJobs, ToPending
<1>10. CASE UNCHANGED vars
  BY <1>10 DEF vars, storeVars
<1> QED
  BY <1>1, <1>2, <1>3, <1>4, <1>5, <1>6, <1>7, <1>8, <1>9, <1>10,
     NextSplit, WorkerStatements, OtherStatements DEF Sweeps

\* A step that may touch a job that has ended.
LEMMA TerminalStep ==
  ASSUME TypeOK, OwnedRuns, Next, NEW j \in Jobs, Terminal(j), submit[j] # "failing"
  PROVE  status'[j] = status[j] /\ jobError'[j] = jobError[j]
<1> USE IdentityAssumption DEF IdentityAssumption, TypeOK, StoreTypeOK, OwnedRuns, Terminal
<1>1. owner[j] = None
  OBVIOUS
<1>2. CASE RowsOnly
  BY <1>2 DEF RowsOnly
<1>3. ASSUME NEW w \in Workers, Claims(w)
      PROVE  status'[j] = status[j] /\ jobError'[j] = jobError[j]
  BY <1>3 DEF Claims, ClaimJob, Claimable
<1>4. ASSUME NEW w \in Workers, Renews(w)
      PROVE  status'[j] = status[j] /\ jobError'[j] = jobError[j]
  BY <1>4 DEF Renews, ExtendLease
<1>5. ASSUME NEW w \in Workers, Releases(w)
      PROVE  status'[j] = status[j] /\ jobError'[j] = jobError[j]
  BY <1>5 DEF Releases, ReleaseJob, StoreHeld, ToPending
<1>6. ASSUME NEW w \in Workers, Ends(w)
      PROVE  status'[j] = status[j] /\ jobError'[j] = jobError[j]
  <2>1. PICK st \in {"succeeded", "failed"}, err \in {"", "workflow", "config", "dead letter"} :
          FinishJob(job[w], w, st, err)
    BY <1>6, EndsEffect
  <2>2. CASE job[w] = j
    BY <1>1, <2>1, <2>2 DEF FinishJob, FinishHeld
  <2>3. CASE job[w] # j
    BY <2>1, <2>3 DEF FinishJob
  <2> QED
    BY <2>2, <2>3
<1>7. ASSUME NEW k \in Jobs, CreateJob(k) \/ FailsDispatch(k) \/ StoreLapse(k)
      PROVE  status'[j] = status[j] /\ jobError'[j] = jobError[j]
  BY <1>7 DEF CreateJob, FailsDispatch, FinishJob, StoreLapse, StoreLeaseExpires
<1>8. ASSUME NEW B \in SUBSET Orphaned, ReclaimExpiredJobs(B)
      PROVE  status'[j] = status[j] /\ jobError'[j] = jobError[j]
  <2>1. j \notin B
    BY DEF Orphaned
  <2> QED
    BY <1>8, <2>1 DEF ReclaimExpiredJobs, ToPending
<1> QED
  BY <1>2, <1>3, <1>4, <1>5, <1>6, <1>7, <1>8, NextSplit, WorkerStatements, OtherStatements
     DEF Sweeps

\* Whatever is delivered twice, whoever is late and whatever fails, a job that
\* ended keeps its outcome; only the request that failed to dispatch it, and
\* has not returned yet, can still change it.
THEOREM TerminalStays == Spec => TerminalIsFinal
<1>1. Init => OwnedRuns
  <2> SUFFICES ASSUME Init PROVE OwnedRuns
    OBVIOUS
  <2>1. owner = [j \in Jobs |-> None]
    BY DEF Init, EmptyStore
  <2> QED
    BY <2>1 DEF OwnedRuns
<1>2. TypeOK /\ OwnedRuns /\ [Next]_vars => OwnedRuns'
  BY OwnedRunsStep
<1>3. TypeOK /\ OwnedRuns /\ [Next]_vars =>
        [\A j \in Jobs : Terminal(j) /\ submit[j] # "failing" =>
           UNCHANGED <<status[j], jobError[j]>>]_vars
  BY TerminalStep
<1> QED
  BY <1>1, <1>2, <1>3, TypeCorrect, PTL DEF Spec, TerminalIsFinal

-----------------------------------------------------------------------------
(* Without a stall, a worker keeps its lease from ClaimJob to the end.     *)

\* No statement of another worker takes a job with a live lease away.
LEMMA HeldAgainstWorker ==
  ASSUME TypeOK, NEW j \in Jobs, NEW v \in Workers, NEW w \in Workers, v # w,
         Held(j, v), RowsOnly \/ Claims(w) \/ Renews(w) \/ Releases(w) \/ Ends(w)
  PROVE  Held(j, v)'
<1> USE IdentityAssumption DEF IdentityAssumption, TypeOK, StoreTypeOK, Held
<1>1. CASE RowsOnly
  BY <1>1 DEF RowsOnly
<1>2. CASE Claims(w)
  BY ZenonT(40), <1>2 DEF Claims, ClaimJob, Claimable
<1>3. CASE Renews(w)
  BY <1>3 DEF Renews, ExtendLease
<1>4. CASE Releases(w)
  BY <1>4 DEF Releases, ReleaseJob, StoreHeld, ToPending
<1>5. CASE Ends(w)
  <2>1. PICK st \in {"succeeded", "failed"}, err \in {"", "workflow", "config", "dead letter"} :
          FinishJob(job[w], w, st, err)
    BY <1>5, EndsEffect
  <2> QED
    BY <2>1 DEF FinishJob, FinishHeld
<1> QED
  BY <1>1, <1>2, <1>3, <1>4, <1>5

\* Neither does a request, a reaper or, as long as its worker attends to it,
\* the passing of time.
LEMMA HeldAgainstOthers ==
  ASSUME TypeOK, NEW j \in Jobs, NEW v \in Workers, Held(j, v), OtherStep,
         Attends(v, j), "pause" \notin FaultKinds
  PROVE  Held(j, v)'
<1> USE IdentityAssumption DEF IdentityAssumption, TypeOK, StoreTypeOK, Held
<1>1. CASE RowsOnly
  BY <1>1 DEF RowsOnly
<1>2. ASSUME NEW k \in Jobs, CreateJob(k) PROVE Held(j, v)'
  BY <1>2 DEF CreateJob
<1>3. ASSUME NEW k \in Jobs, FailsDispatch(k) PROVE Held(j, v)'
  <2>1. CASE k = j
    BY <1>3, <2>1 DEF FailsDispatch, FinishJob, FinishHeld
  <2>2. CASE k # j
    BY <1>3, <2>2 DEF FailsDispatch, FinishJob
  <2> QED
    BY <2>1, <2>2
<1>4. ASSUME NEW k \in Jobs, StoreLapse(k) PROVE Held(j, v)'
  <2>1. k # j
    BY <1>4 DEF StoreLapse, Fault
  <2> QED
    BY <1>4, <2>1 DEF StoreLapse, StoreLeaseExpires
<1>5. ASSUME NEW B \in SUBSET Orphaned, ReclaimExpiredJobs(B) PROVE Held(j, v)'
  <2>1. j \notin B
    BY DEF Orphaned
  <2> QED
    BY <1>5, <2>1 DEF ReclaimExpiredJobs, ToPending
<1> QED
  BY <1>1, <1>2, <1>3, <1>4, <1>5, OtherStatements DEF Sweeps

\* A worker's own step takes it into Holding by claiming the job, or keeps it
\* there with the row as it was or renewed.
LEMMA OwnStep ==
  ASSUME TypeOK, NEW w \in Workers, WorkerStep(w), pc'[w] \in Holding
  PROVE  \/ pc[w] = "claimed" /\ job'[w] = job[w] /\ ClaimJob(job[w], w)
         \/ pc[w] \in Holding /\ job'[w] = job[w] /\ (RowsOnly \/ Renews(w))
<1> USE DEF TypeOK, WorkerTypeOK, Goto, Holding, RowsOnly, storeVars
<1>1. ~(Leave(w) \/ Crash(w))
  BY DEF Leave, NextRound, Crash
<1>2. ~(QueueClaim(w) \/ QueueClaimLost(w) \/ Park(w) \/ Wake(w) \/ Stop(w))
  BY DEF QueueClaim, QueueClaimLost, Park, Wake, Stop, NextRound
<1>3. CASE TakeJob(w)
  BY <1>3 DEF TakeJob
<1>4. ~(RefuseJob(w) \/ DeadLetter(w) \/ DeadLog(w))
  BY DEF RefuseJob, DeadLetter, DeadLog
<1>5. CASE Load(w) \/ LoadUnresolved(w) \/ LoadFails(w) \/ EndRun(w) \/ StartWave(w)
  BY <1>5 DEF Load, LoadUnresolved, LoadFails, EndRun, StartWave
<1>6. ASSUME NEW s \in Steps, RunStep(w, s)
      PROVE  pc[w] \in Holding /\ job'[w] = job[w] /\ RowsOnly
  <2>1. pc' = pc /\ job' = job /\ RowsOnly
    BY <1>6 DEF RunStep, CallAgent, RefuseStep, ClaimStepFails, AgentSucceeds, AgentFails,
                RetryStep, FailStep, Drain, UpdateStep, ClaimStep
  <2> QED
    BY <2>1
<1>7. CASE WriteResult(w)
  BY <1>7 DEF WriteResult, UpdateStep
<1>8. ~(AbandonReleased(w) \/ LogCompleted(w) \/ Finish(w))
  BY <1>1 DEF AbandonReleased, LogCompleted, Finish
<1>9. CASE Beat(w) \/ Shutdown(w)
  BY <1>9 DEF Beat, BeatStore, BeatStoreFails, BeatQueue, BeatQueueFails, Renews, Shutdown, workerVars
<1>10. TakeJobFails(w) \/ Drop(w) \/ AbandonLost(w) \/ AbandonFails(w) \/ RequeueJob(w)
         \/ FinishFails(w) \/ AckJob(w) => Leave(w)
  BY DEF TakeJobFails, Drop, AbandonLost, AbandonFails, RequeueJob, FinishFails, AckJob
<1> QED
  BY <1>1, <1>2, <1>3, <1>4, <1>5, <1>6, <1>7, <1>8, <1>9, <1>10 DEF WorkerStep, Work

\* Without a stall a worker in Holding has its lease in the next state too.
LEMMA LeaseKeptStep ==
  ASSUME TypeOK, LeaseKept, [Next]_vars, "pause" \notin FaultKinds
  PROVE  LeaseKept'
<1> SUFFICES ASSUME NEW v \in Workers, pc'[v] \in Holding
             PROVE  \E j \in Jobs : job'[v] = j /\ Held(j, v)'
  BY DEF LeaseKept, Held
<1>1. ASSUME pc[v] \in Holding
      PROVE  \E j \in Jobs : job[v] = j /\ Held(j, v) /\ Attends(v, j)
  BY <1>1 DEF LeaseKept, Held, TypeOK, WorkerTypeOK, PCs, Busy, Holding, Attends, Alive
<1>2. CASE OtherStep
  <2>1. pc'[v] = pc[v] /\ job'[v] = job[v]
    BY <1>2, OtherStatements DEF workerVars
  <2>2. PICK j \in Jobs : job[v] = j /\ Held(j, v) /\ Attends(v, j)
    BY <1>1, <2>1
  <2> QED
    BY <1>2, <2>1, <2>2, HeldAgainstOthers
<1>3. ASSUME NEW w \in Workers, w # v, WorkerStep(w)
      PROVE  \E j \in Jobs : job'[v] = j /\ Held(j, v)'
  <2>1. pc'[v] = pc[v] /\ job'[v] = job[v]
    BY <1>3, OthersKeep
  <2>2. PICK j \in Jobs : job[v] = j /\ Held(j, v) /\ Attends(v, j)
    BY <1>1, <2>1
  <2> QED
    BY <1>3, <2>1, <2>2, HeldAgainstWorker, WorkerStatements
<1>4. CASE WorkerStep(v)
  <2>1. CASE pc[v] = "claimed" /\ job'[v] = job[v] /\ ClaimJob(job[v], v)
    <3>1. PICK j \in Jobs : job[v] = j
      BY <2>1 DEF TypeOK, WorkerTypeOK, PCs, Busy
    <3> QED
      BY <2>1, <3>1 DEF ClaimJob, Held, TypeOK, StoreTypeOK
  <2>2. CASE pc[v] \in Holding /\ job'[v] = job[v] /\ (RowsOnly \/ Renews(v))
    <3>1. PICK j \in Jobs : job[v] = j /\ Held(j, v)
      BY <1>1, <2>2
    <3> QED
      BY <2>2, <3>1 DEF Held, RowsOnly, Renews, ExtendLease, TypeOK, StoreTypeOK
  <2> QED
    BY <1>4, <2>1, <2>2, OwnStep
<1>5. CASE UNCHANGED vars
  <2>1. pc'[v] = pc[v] /\ job'[v] = job[v]
    BY <1>5 DEF vars, workerVars
  <2>2. PICK j \in Jobs : job[v] = j /\ Held(j, v)
    BY <1>1, <2>1
  <2> QED
    BY <1>5, <2>1, <2>2 DEF Held, vars, storeVars
<1> QED
  BY <1>2, <1>3, <1>4, <1>5, NextSplit

\* If no worker ever stalls for a whole lease, a worker that claimed a job holds
\* its lease until it gives the job up or ends it, whatever else fails.
THEOREM LeaseIsKept ==
  ASSUME "pause" \notin FaultKinds
  PROVE  Spec => []LeaseKept
<1>1. Init => LeaseKept
  BY DEF Init, LeaseKept, Holding
<1>2. TypeOK /\ LeaseKept /\ [Next]_vars => LeaseKept'
  BY LeaseKeptStep
<1> QED
  BY <1>1, <1>2, TypeCorrect, PTL DEF Spec

\* If no worker ever stalls for a whole lease, no two workers execute or conclude
\* the same job, whatever else fails.
THEOREM ExecutionIsExclusive ==
  ASSUME "pause" \notin FaultKinds
  PROVE  Spec => []ExclusiveExecution
<1>1. LeaseKept => ExclusiveExecution
  BY DEF LeaseKept, Held, ExclusiveExecution
<1> QED
  BY <1>1, LeaseIsKept, PTL

-----------------------------------------------------------------------------
(* The statements that write step rows.                                    *)

Starts(w) == \E s \in Steps : phase[w][s] # "off" /\ ClaimStep(job[w], s, w)
Drains(w) ==
  \E s \in Steps, outcome \in {"succeeded", "failed"} :
    phase[w][s] # "off" /\ Drain(w, s, outcome)
Persists(w) ==
  /\ pc[w] = "write"
  /\ \E s \in Steps : UpdateStep(job[w], s, w, Ordered(results[w])[s])

\* A worker writes a step row by claiming a step of the wave, by draining its
\* result or by persisting the results of the run, and in no other way.
LEMMA StepStatements ==
  ASSUME TypeOK, NEW w \in Workers, WorkerStep(w)
  PROVE  UNCHANGED stepStatus \/ Starts(w) \/ Drains(w) \/ Persists(w)
<1> USE DEF storeVars
<1>1. CASE QueueClaim(w) \/ QueueClaimLost(w) \/ Park(w) \/ Wake(w) \/ Stop(w)
  BY <1>1 DEF QueueClaim, QueueClaimLost, Park, Wake, Stop
<1>2. CASE TakeJob(w) \/ RefuseJob(w) \/ TakeJobFails(w) \/ Drop(w)
  BY <1>2 DEF TakeJob, RefuseJob, TakeJobFails, Drop, ClaimJob
<1>3. CASE DeadLetter(w) \/ DeadLog(w)
  BY <1>3 DEF DeadLetter, DeadLog, AppendEvent, FinishJob
<1>4. CASE Load(w) \/ LoadUnresolved(w) \/ LoadFails(w) \/ StartWave(w) \/ EndRun(w)
  BY <1>4 DEF Load, LoadUnresolved, LoadFails, StartWave, EndRun
<1>5. ASSUME NEW s \in Steps, RunStep(w, s)
      PROVE  UNCHANGED stepStatus \/ Starts(w) \/ Drains(w)
  <2>1. CASE CallAgent(w, s) \/ ClaimStepFails(w, s)
    BY <2>1 DEF CallAgent, ClaimStepFails, Starts
  <2>2. CASE AgentSucceeds(w, s) \/ FailStep(w, s)
    BY <2>2 DEF AgentSucceeds, FailStep, Drains
  <2>3. CASE RefuseStep(w, s) \/ AgentFails(w, s) \/ RetryStep(w, s)
    BY <2>3 DEF RefuseStep, AgentFails, RetryStep
  <2> QED
    BY <1>5, <2>1, <2>2, <2>3 DEF RunStep
<1>6. CASE AbandonLost(w) \/ AbandonReleased(w) \/ AbandonFails(w) \/ RequeueJob(w)
  BY <1>6 DEF AbandonLost, AbandonReleased, AbandonFails, RequeueJob, ReleaseJob, ToPending
<1>7. CASE WriteResult(w)
  <2>1. written[w] \in Nat /\ NumSteps \in Nat
    BY WorkflowAssumption DEF TypeOK, WorkerTypeOK, WorkflowAssumption
  <2>2. written[w] + 1 \in Steps
    BY <1>7, <2>1 DEF WriteResult, Steps
  <2> QED
    BY <1>7, <2>2 DEF WriteResult, Persists
<1>8. CASE LogCompleted(w) \/ AckJob(w) \/ Finish(w) \/ FinishFails(w)
  BY <1>8 DEF LogCompleted, AckJob, AppendEvent, Finish, FinishFails, FinishJob
<1>9. CASE Beat(w) \/ Crash(w) \/ Shutdown(w)
  BY <1>9 DEF Beat, BeatStore, BeatStoreFails, BeatQueue, BeatQueueFails, ExtendLease,
              Crash, Shutdown
<1> QED
  BY <1>1, <1>2, <1>3, <1>4, <1>5, <1>6, <1>7, <1>8, <1>9 DEF WorkerStep, Work

\* Requests, reapers and time write no step row and make nobody the owner.
LEMMA OthersLeaveSteps ==
  ASSUME TypeOK, OtherStep
  PROVE  /\ UNCHANGED stepStatus
         /\ \A j \in Jobs : owner'[j] \in {owner[j], None}
<1>1. UNCHANGED stepStatus
  <2> USE DEF storeVars
  <2>1. ASSUME NEW j \in Jobs, Submit(j) PROVE UNCHANGED stepStatus
    BY <2>1 DEF Submit, Create, CreateFails, Dispatch, DispatchFails, FailDispatch, SubmitDies,
                CreateJob, FinishJob
  <2>2. ASSUME NEW j \in Jobs, QueueLapse(j) \/ StoreLapse(j) PROVE UNCHANGED stepStatus
    BY <2>2 DEF QueueLapse, StoreLapse, StoreLeaseExpires
  <2>3. ASSUME NEW r \in Reapers, Reap(r) \/ ReaperCrash(r) PROVE UNCHANGED stepStatus
    BY <2>3 DEF Reap, ReapQueue, ReapStore, ReapStoreFails, PushOrphan, ReapEnds, ReaperCrash,
                ReclaimExpiredJobs, ToPending
  <2>4. CASE RedisLoss
    BY <2>4 DEF RedisLoss
  <2> QED
    BY <2>1, <2>2, <2>3, <2>4 DEF OtherStep
<1>2. \A j \in Jobs : owner'[j] \in {owner[j], None}
  <2> USE DEF TypeOK, StoreTypeOK
  <2>1. CASE RowsOnly
    BY <2>1 DEF RowsOnly
  <2>2. ASSUME NEW k \in Jobs, CreateJob(k) \/ FailsDispatch(k) \/ StoreLapse(k)
        PROVE  \A j \in Jobs : owner'[j] \in {owner[j], None}
    BY ZenonT(40), <2>2 DEF CreateJob, FailsDispatch, FinishJob, StoreLapse, StoreLeaseExpires
  <2>3. CASE Sweeps
    BY ZenonT(40), <2>3 DEF Sweeps, ReclaimExpiredJobs, ToPending
  <2> QED
    BY <2>1, <2>2, <2>3, OtherStatements
<1> QED
  BY <1>1, <1>2

-----------------------------------------------------------------------------
(* The engine's memory agrees with the rows it may overwrite.              *)

\* The steps of the wave go on without a result.
WaveGoesOn(w) ==
  /\ results'[w] = results[w]
  /\ \A s \in Steps : phase'[w][s] # "off" => phase[w][s] # "off"

\* What one step of a worker does to its run: the wave goes on, process returns
\* with everything it kept, or it is Load, StartWave or a result that is drained.
LEMMA EngineSteps ==
  ASSUME TypeOK, NEW w \in Workers, WorkerStep(w)
  PROVE  \/ WaveGoesOn(w)
         \/ phase'[w] = AllOff /\ pc'[w] \notin {"run", "write"}
         \/ Load(w) \/ StartWave(w) \/ Drains(w)
<1> USE DEF TypeOK, WorkerTypeOK, EngineTypeOK, engineVars, workerVars, WaveGoesOn
<1>1. CASE Leave(w) \/ Crash(w)
  BY <1>1 DEF Leave, NextRound, Discard, Crash, Goto
<1>2. CASE QueueClaim(w) \/ QueueClaimLost(w) \/ Park(w) \/ Wake(w) \/ Stop(w)
  BY <1>2 DEF QueueClaim, QueueClaimLost, Park, Wake, Stop
<1>3. CASE TakeJob(w) \/ RefuseJob(w) \/ DeadLetter(w) \/ DeadLog(w)
  BY <1>3 DEF TakeJob, RefuseJob, DeadLetter, DeadLog
<1>4. CASE LoadUnresolved(w) \/ LoadFails(w) \/ EndRun(w)
  BY <1>4 DEF LoadUnresolved, LoadFails, EndRun
<1>5. ASSUME NEW s \in Steps, RunStep(w, s)
      PROVE  WaveGoesOn(w) \/ Drains(w)
  <2>1. CASE CallAgent(w, s) \/ RefuseStep(w, s) \/ ClaimStepFails(w, s)
    BY <2>1 DEF CallAgent, RefuseStep, ClaimStepFails
  <2>2. CASE AgentFails(w, s) \/ RetryStep(w, s)
    BY <2>2 DEF AgentFails, RetryStep
  <2>3. CASE AgentSucceeds(w, s) \/ FailStep(w, s)
    BY <2>3 DEF AgentSucceeds, FailStep, Drains
  <2> QED
    BY <1>5, <2>1, <2>2, <2>3 DEF RunStep
<1>6. CASE AbandonReleased(w) \/ WriteResult(w) \/ LogCompleted(w)
  BY <1>6 DEF AbandonReleased, WriteResult, LogCompleted
<1>7. CASE Finish(w)
  BY <1>1, <1>7 DEF Finish
<1>8. CASE Beat(w) \/ Shutdown(w)
  BY <1>8 DEF Beat, BeatStore, BeatStoreFails, BeatQueue, BeatQueueFails, Shutdown
<1>9. TakeJobFails(w) \/ Drop(w) \/ AbandonLost(w) \/ AbandonFails(w) \/ RequeueJob(w)
        \/ FinishFails(w) \/ AckJob(w) => Leave(w)
  BY DEF TakeJobFails, Drop, AbandonLost, AbandonFails, RequeueJob, FinishFails, AckJob
<1> QED
  BY <1>1, <1>2, <1>3, <1>4, <1>5, <1>6, <1>7, <1>8, <1>9 DEF WorkerStep, Work

\* skipBlocked and the order in which Run returns its results leave alone every
\* step that has one.
LEMMA ResultsStay ==
  ASSUME NEW r \in [Steps -> StepOutcomes \cup {"none"}], NEW s \in Steps
  PROVE  /\ r[s] # "none" => SkipBlocked(r)[s] = r[s]
         /\ Ordered(r)[s] = "succeeded" <=> r[s] = "succeeded"
BY DEF SkipBlocked, Blocked, Remaining, Ordered

\* A step is in the wave only until it has a result, in the next state too.
LEMMA WaveIsOpenStep ==
  ASSUME TypeOK, WaveIsOpen, [Next]_vars
  PROVE  WaveIsOpen'
<1> SUFFICES ASSUME NEW v \in Workers, NEW t \in Steps, phase'[v][t] # "off"
             PROVE  results'[v][t] = "none"
  BY DEF WaveIsOpen
<1>1. phase[v][t] # "off" => results[v][t] = "none"
  BY DEF WaveIsOpen
<1>2. CASE OtherStep \/ UNCHANGED vars
  BY <1>1, <1>2, OtherStatements DEF workerVars, engineVars, vars
<1>3. ASSUME NEW w \in Workers, w # v, WorkerStep(w)
      PROVE  results'[v][t] = "none"
  BY <1>1, <1>3, OthersKeep
<1>4. CASE WorkerStep(v)
  <2> USE DEF TypeOK, EngineTypeOK
  <2>1. CASE WaveGoesOn(v) \/ phase'[v] = AllOff
    BY <1>1, <2>1 DEF WaveGoesOn, AllOff
  <2>2. CASE Load(v)
    BY <2>2 DEF Load
  <2>3. CASE StartWave(v)
    <3>1. t \in ReadyWave(results[v])
      BY <2>3 DEF StartWave
    <3>2. results[v][t] = "none"
      BY <3>1 DEF ReadyWave, Remaining
    <3> QED
      BY <2>3, <3>2 DEF StartWave
  <2>4. CASE Drains(v)
    <3>1. PICK s \in Steps, outcome \in {"succeeded", "failed"} :
            phase[v][s] # "off" /\ Drain(v, s, outcome)
      BY <2>4 DEF Drains
    <3>2. t # s /\ phase[v][t] # "off"
      BY <3>1 DEF Drain
    <3>3. Wave(v) # {s}
      BY <3>2 DEF Wave
    <3> QED
      BY <1>1, <3>1, <3>2, <3>3 DEF Drain
  <2> QED
    BY <1>4, <2>1, <2>2, <2>3, <2>4, EngineSteps
<1> QED
  BY <1>2, <1>3, <1>4, NextSplit

\* UpdateStep writes at most the row of its step, and only for the owner.
LEMMA UpdateStepEffect ==
  ASSUME StoreTypeOK, NEW j \in Jobs, NEW s \in Steps, NEW w, NEW result,
         UpdateStep(j, s, w, result)
  PROVE  \A k \in Jobs, t \in Steps :
           stepStatus'[k][t] = IF k = j /\ t = s /\ owner[j] = w THEN result ELSE stepStatus[k][t]
BY DEF StoreTypeOK, UpdateStep

\* ClaimStep writes at most the row of its step, and only for the owner and when
\* the step has not succeeded.
LEMMA ClaimStepEffect ==
  ASSUME StoreTypeOK, NEW j \in Jobs, NEW s \in Steps, NEW w, ClaimStep(j, s, w)
  PROVE  \A k \in Jobs, t \in Steps :
           stepStatus'[k][t] =
             IF k = j /\ t = s /\ StepClaimable(j, s, w) THEN "running" ELSE stepStatus[k][t]
BY DEF StoreTypeOK, ClaimStep

\* What the owner of j knows of its steps.
Knows(w, j) ==
  \A s \in Steps : stepStatus[j][s] = "succeeded" => results[w][s] = "succeeded"

\* The step rows of a job are written by its owner only.
LEMMA StepRowsFenced ==
  ASSUME TypeOK, NEW w \in Workers, WorkerStep(w), NEW j \in Jobs, NEW t \in Steps,
         stepStatus'[j][t] # stepStatus[j][t]
  PROVE  owner[j] = w /\ job[w] = j /\ pc[w] \in {"run", "write"}
<1>1. Starts(w) \/ Drains(w) \/ Persists(w)
  BY StepStatements
<1>2. StoreTypeOK
  BY DEF TypeOK
<1>3. PICK k \in Jobs : job[w] = k /\ pc[w] \in {"run", "write"}
  <2>1. pc[w] \in {"run", "write"}
    BY <1>1 DEF Starts, Drains, Persists, TypeOK, EngineTypeOK
  <2> QED
    BY <2>1 DEF TypeOK, WorkerTypeOK, PCs, Busy
<1>4. CASE Starts(w)
  <2>1. PICK s \in Steps : ClaimStep(k, s, w)
    BY <1>3, <1>4 DEF Starts
  <2> QED
    BY <1>2, <1>3, <2>1, ClaimStepEffect DEF StepClaimable
<1>5. CASE Drains(w)
  <2>1. PICK s \in Steps, outcome \in {"succeeded", "failed"} : UpdateStep(k, s, w, outcome)
    BY <1>3, <1>5 DEF Drains, Drain, storeVars
  <2> QED
    BY <1>2, <1>3, <2>1, UpdateStepEffect
<1>6. CASE Persists(w)
  <2>1. PICK s \in Steps : UpdateStep(k, s, w, Ordered(results[w])[s])
    BY <1>3, <1>6 DEF Persists
  <2> QED
    BY <1>2, <1>3, <2>1, UpdateStepEffect
<1> QED
  BY <1>1, <1>4, <1>5, <1>6

\* Another worker's statement on a step row of j needs the ownership of j.
LEMMA OthersNeedOwnership ==
  ASSUME TypeOK, NEW j \in Jobs, NEW v \in Workers, NEW w \in Workers, v # w,
         WorkerStep(w), owner[j] = v \/ owner'[j] = v
  PROVE  owner[j] = v /\ \A t \in Steps : stepStatus'[j][t] = stepStatus[j][t]
<1>t. StoreTypeOK
  BY DEF TypeOK
<1>1. owner[j] = v
  <2> USE <1>t DEF StoreTypeOK
  <2>1. CASE RowsOnly
    BY <2>1 DEF RowsOnly
  <2>2. CASE Claims(w)
    BY <2>2 DEF Claims, ClaimJob
  <2>3. CASE Renews(w)
    BY <2>3 DEF Renews, ExtendLease
  <2>4. CASE Releases(w)
    BY <2>4, IdentityAssumption DEF Releases, ReleaseJob, ToPending, IdentityAssumption
  <2>5. CASE Ends(w)
    <3>1. PICK st \in {"succeeded", "failed"}, err \in {"", "workflow", "config", "dead letter"} :
            FinishJob(job[w], w, st, err)
      BY <2>5, EndsEffect
    <3>2. None # v
      BY IdentityAssumption DEF IdentityAssumption
    <3>3. owner' \in {owner, [owner EXCEPT ![job[w]] = None]}
      BY <3>1 DEF FinishJob
    <3> QED
      BY <3>2, <3>3
  <2> QED
    BY <2>1, <2>2, <2>3, <2>4, <2>5, WorkerStatements
<1>2. \A t \in Steps : stepStatus'[j][t] = stepStatus[j][t]
  BY <1>1, StepRowsFenced
<1> QED
  BY <1>1, <1>2

\* A worker in "run" or "write" came from there, or from Load.
LEMMA RunsOn ==
  ASSUME TypeOK, NEW w \in Workers, WorkerStep(w), pc'[w] \in {"run", "write"}
  PROVE  /\ job'[w] = job[w]
         /\ pc[w] \in {"run", "write"} \/ Load(w)
         /\ UNCHANGED owner
<1> USE DEF TypeOK, WorkerTypeOK, Goto, storeVars, workerVars
<1>1. ~(Leave(w) \/ Crash(w))
  BY DEF Leave, NextRound, Crash
<1>2. ~(QueueClaim(w) \/ QueueClaimLost(w) \/ Park(w) \/ Wake(w) \/ Stop(w))
  BY DEF QueueClaim, QueueClaimLost, Park, Wake, Stop, NextRound
<1>3. ~(TakeJob(w) \/ RefuseJob(w) \/ DeadLetter(w) \/ DeadLog(w))
  BY DEF TakeJob, RefuseJob, DeadLetter, DeadLog
<1>4. CASE Load(w) \/ EndRun(w) \/ StartWave(w)
  BY <1>4 DEF Load, EndRun, RunEnds, StartWave
<1>5. ~(LoadUnresolved(w) \/ LoadFails(w))
  BY DEF LoadUnresolved, LoadFails, RunEnds
<1>6. ASSUME NEW s \in Steps, RunStep(w, s)
      PROVE  UNCHANGED <<pc, job, owner>>
  BY <1>6 DEF RunStep, CallAgent, RefuseStep, ClaimStepFails, AgentSucceeds, AgentFails,
              RetryStep, FailStep, Drain, UpdateStep, ClaimStep
<1>7. CASE WriteResult(w)
  BY <1>7 DEF WriteResult, UpdateStep
<1>8. ~(AbandonReleased(w) \/ LogCompleted(w) \/ Finish(w))
  BY <1>1 DEF AbandonReleased, LogCompleted, Finish
<1>9. CASE Beat(w) \/ Shutdown(w)
  BY <1>9 DEF Beat, BeatStore, BeatStoreFails, BeatQueue, BeatQueueFails, ExtendLease, Shutdown
<1>10. TakeJobFails(w) \/ Drop(w) \/ AbandonLost(w) \/ AbandonFails(w) \/ RequeueJob(w)
         \/ FinishFails(w) \/ AckJob(w) => Leave(w)
  BY DEF TakeJobFails, Drop, AbandonLost, AbandonFails, RequeueJob, FinishFails, AckJob
<1> QED
  BY <1>1, <1>2, <1>3, <1>4, <1>5, <1>6, <1>7, <1>8, <1>9, <1>10 DEF WorkerStep, Work

\* The owner's own statements keep its knowledge of j complete and undo no step
\* of j that has succeeded.
LEMMA OwnStatements ==
  ASSUME TypeOK, WaveIsOpen, NEW w \in Workers, NEW j \in Jobs, job[w] = j, owner[j] = w,
         pc[w] \in {"run", "write"}, Knows(w, j), WorkerStep(w)
  PROVE  /\ \A s \in Steps : stepStatus[j][s] = "succeeded" => stepStatus'[j][s] = "succeeded"
         /\ pc'[w] \in {"run", "write"} => Knows(w, j)'
<1>t. /\ StoreTypeOK
      /\ results[w] \in [Steps -> StepOutcomes \cup {"none"}]
  BY DEF TypeOK, EngineTypeOK
<1>0. ~Drains(w) /\ pc'[w] \in {"run", "write"} => results'[w] = results[w]
  BY EngineSteps DEF WaveGoesOn, Load, StartWave
<1>1. CASE Drains(w)
  <2>1. PICK s \in Steps, outcome \in {"succeeded", "failed"} :
          phase[w][s] # "off" /\ Drain(w, s, outcome)
    BY <1>1 DEF Drains
  <2>2. results[w][s] = "none" /\ stepStatus[j][s] # "succeeded"
    BY <2>1 DEF WaveIsOpen, Knows
  <2>3. UpdateStep(j, s, w, outcome) \/ UNCHANGED stepStatus
    BY <2>1 DEF Drain, storeVars
  <2>4. \A t \in Steps : stepStatus'[j][t] =
          IF t = s /\ UpdateStep(j, s, w, outcome) THEN outcome ELSE stepStatus[j][t]
    BY <1>t, <2>1, <2>3, UpdateStepEffect
  <2> DEFINE r == [results[w] EXCEPT ![s] = outcome]
  <2>5. r \in [Steps -> StepOutcomes \cup {"none"}]
    BY <1>t DEF StepOutcomes
  <2>6. results'[w] \in {r, SkipBlocked(r)}
    BY <2>1 DEF Drain, TypeOK, EngineTypeOK
  <2>7. \A t \in Steps : r[t] # "none" => results'[w][t] = r[t]
    <3> HIDE DEF r
    <3> QED
      BY <2>5, <2>6, ResultsStay
  <2>8. \A t \in Steps : stepStatus'[j][t] = "succeeded" => results'[w][t] = "succeeded"
    <3> SUFFICES ASSUME NEW t \in Steps, stepStatus'[j][t] = "succeeded"
                 PROVE  results'[w][t] = "succeeded"
      OBVIOUS
    <3>1. r[t] = "succeeded"
      BY <1>t, <2>2, <2>4 DEF Knows
    <3> HIDE DEF r
    <3> QED BY <2>7, <3>1
  <2> QED
    BY <2>2, <2>4, <2>8 DEF Knows
<1>2. CASE Starts(w)
  <2>1. \A s \in Steps : stepStatus[j][s] = "succeeded" => stepStatus'[j][s] = "succeeded"
    BY <1>2, <1>t, ClaimStepEffect DEF Starts, StepClaimable
  <2>2. \A s \in Steps : stepStatus'[j][s] = "succeeded" => stepStatus[j][s] = "succeeded"
    BY <1>2, <1>t, ClaimStepEffect DEF Starts
  <2> QED
    BY <1>0, <1>1, <2>1, <2>2 DEF Knows
<1>3. CASE Persists(w)
  <2>1. PICK s \in Steps : UpdateStep(j, s, w, Ordered(results[w])[s])
    BY <1>3 DEF Persists
  <2>2. Ordered(results[w])[s] = "succeeded" <=> results[w][s] = "succeeded"
    BY <1>t, ResultsStay
  <2>3. stepStatus'[j][s] = Ordered(results[w])[s]
    BY <1>t, <2>1, UpdateStepEffect
  <2>4. \A t \in Steps : t # s => stepStatus'[j][t] = stepStatus[j][t]
    BY <1>t, <2>1, UpdateStepEffect
  <2> QED
    BY <1>0, <1>1, <2>2, <2>3, <2>4 DEF Knows
<1>4. CASE UNCHANGED stepStatus
  BY <1>0, <1>1, <1>4 DEF Knows
<1> QED
  BY <1>1, <1>2, <1>3, <1>4, StepStatements

\* Whoever may still write the rows of a job knows every step that succeeded, in
\* the next state too.
LEMMA OwnerKnowsProgressStep ==
  ASSUME TypeOK, WaveIsOpen, OwnerKnowsProgress, [Next]_vars
  PROVE  OwnerKnowsProgress'
<1> SUFFICES ASSUME NEW v \in Workers, pc'[v] \in {"run", "write"}, owner'[job'[v]] = v
             PROVE  \E j \in Jobs : job'[v] = j /\ Knows(v, j)'
  BY DEF OwnerKnowsProgress, Knows
<1>1. ASSUME pc[v] \in {"run", "write"}
      PROVE  \E j \in Jobs : job[v] = j /\ (owner[j] = v => Knows(v, j))
  BY <1>1 DEF OwnerKnowsProgress, Knows, TypeOK, WorkerTypeOK, PCs, Busy
<1>2. CASE OtherStep
  <2>1. UNCHANGED <<pc[v], job[v], results[v]>>
    BY <1>2, OtherStatements DEF workerVars, engineVars
  <2>2. PICK j \in Jobs : job[v] = j /\ (owner[j] = v => Knows(v, j))
    BY <1>1, <2>1
  <2>3. owner[j] = v /\ UNCHANGED stepStatus
    BY <1>2, <2>1, <2>2, OthersLeaveSteps, IdentityAssumption DEF IdentityAssumption
  <2> QED
    BY <2>1, <2>2, <2>3 DEF Knows
<1>3. ASSUME NEW w \in Workers, w # v, WorkerStep(w)
      PROVE  \E j \in Jobs : job'[v] = j /\ Knows(v, j)'
  <2>1. UNCHANGED <<pc[v], job[v], results[v]>>
    BY <1>3, OthersKeep
  <2>2. PICK j \in Jobs : job[v] = j /\ (owner[j] = v => Knows(v, j))
    BY <1>1, <2>1
  <2>3. owner[j] = v /\ \A t \in Steps : stepStatus'[j][t] = stepStatus[j][t]
    BY <1>3, <2>1, <2>2, OthersNeedOwnership
  <2> QED
    BY <2>1, <2>2, <2>3 DEF Knows
<1>4. CASE WorkerStep(v)
  <2>1. job'[v] = job[v] /\ (pc[v] \in {"run", "write"} \/ Load(v)) /\ UNCHANGED owner
    BY <1>4, RunsOn
  <2>2. CASE Load(v)
    <3>1. PICK j \in Jobs : job[v] = j
      BY <2>2 DEF Load, TypeOK, WorkerTypeOK, PCs, Busy
    <3>2. Knows(v, j)'
      BY <2>2, <3>1 DEF Load, Resumable, Knows, TypeOK, EngineTypeOK, storeVars
    <3> QED
      BY <2>1, <3>1, <3>2
  <2>3. CASE pc[v] \in {"run", "write"}
    <3>1. PICK j \in Jobs : job[v] = j /\ (owner[j] = v => Knows(v, j))
      BY <1>1, <2>3
    <3>2. owner[j] = v
      BY <2>1, <3>1
    <3> QED
      BY <1>4, <2>1, <2>3, <3>1, <3>2, OwnStatements
  <2> QED
    BY <2>1, <2>2, <2>3
<1>5. CASE UNCHANGED vars
  BY <1>1, <1>5 DEF vars, workerVars, engineVars, storeVars, Knows
<1> QED
  BY <1>2, <1>3, <1>4, <1>5, NextSplit

\* Whatever crashes, stalls or fails, the fences hold off every superseded
\* worker, and what the owner of a job has in memory agrees with the rows that it
\* may overwrite.
THEOREM FencesHold == Spec => []FenceInv
<1>1. Init => FenceInv
  <2> SUFFICES ASSUME Init PROVE FenceInv
    OBVIOUS
  <2>1. /\ owner = [j \in Jobs |-> None]
        /\ pc = [w \in Workers |-> "idle"]
        /\ phase = [w \in Workers |-> [s \in Steps |-> "off"]]
    BY DEF Init, EmptyStore, AllOff
  <2> QED
    BY <2>1 DEF FenceInv, OwnedRuns, WaveIsOpen, OwnerKnowsProgress
<1>2. TypeOK /\ FenceInv /\ [Next]_vars => FenceInv'
  BY OwnedRunsStep, WaveIsOpenStep, OwnerKnowsProgressStep DEF FenceInv
<1> QED
  BY <1>1, <1>2, TypeCorrect, PTL DEF Spec

\* No step of the service undoes a step that succeeded.
LEMMA SuccessStep ==
  ASSUME TypeOK, WaveIsOpen, OwnerKnowsProgress, Next,
         NEW j \in Jobs, NEW s \in Steps, stepStatus[j][s] = "succeeded"
  PROVE  stepStatus'[j][s] = "succeeded"
<1>1. CASE OtherStep
  BY <1>1, OthersLeaveSteps
<1>2. ASSUME NEW w \in Workers, WorkerStep(w), stepStatus'[j][s] # stepStatus[j][s]
      PROVE  stepStatus'[j][s] = "succeeded"
  <2>1. owner[j] = w /\ job[w] = j /\ pc[w] \in {"run", "write"}
    BY <1>2, StepRowsFenced
  <2>2. Knows(w, j)
    BY <2>1 DEF OwnerKnowsProgress, Knows
  <2> QED
    BY <1>2, <2>1, <2>2, OwnStatements
<1> QED
  BY <1>1, <1>2, NextSplit

\* A step recorded as succeeded stays succeeded, whichever workers are late,
\* superseded or restarted: its agent is never called for it again.
THEOREM SuccessStays == Spec => StepSuccessIsFinal
<1>1. TypeOK /\ FenceInv /\ [Next]_vars =>
        [\A j \in Jobs, s \in Steps :
           stepStatus[j][s] = "succeeded" => stepStatus'[j][s] = "succeeded"]_vars
  BY SuccessStep DEF FenceInv
<1> QED
  BY <1>1, TypeCorrect, FencesHold, PTL DEF Spec, StepSuccessIsFinal

-----------------------------------------------------------------------------
(* job.completed is recorded behind the outcome.                           *)

\* A job that has ended never becomes unended, not even by a late dispatch.
LEMMA TerminalPersists ==
  ASSUME TypeOK, OwnedRuns, [Next]_vars, NEW j \in Jobs, Terminal(j)
  PROVE  Terminal(j)'
<1> USE DEF Terminal
<1>1. CASE UNCHANGED vars
  BY <1>1 DEF vars, storeVars
<1>2. CASE Next /\ submit[j] # "failing"
  BY <1>2, TerminalStep
<1>3. CASE Next /\ submit[j] = "failing"
  <2> USE IdentityAssumption DEF IdentityAssumption, TypeOK, StoreTypeOK, OwnedRuns
  <2>1. CASE RowsOnly
    BY <2>1 DEF RowsOnly
  <2>2. ASSUME NEW w \in Workers, Claims(w) PROVE Terminal(j)'
    BY <2>2 DEF Claims, ClaimJob, Claimable
  <2>3. ASSUME NEW w \in Workers, Renews(w) PROVE Terminal(j)'
    BY <2>3 DEF Renews, ExtendLease
  <2>4. ASSUME NEW w \in Workers, Releases(w) PROVE Terminal(j)'
    BY <2>4 DEF Releases, ReleaseJob, StoreHeld, ToPending
  <2>5. ASSUME NEW w \in Workers, Ends(w) PROVE Terminal(j)'
    <3>1. PICK st \in {"succeeded", "failed"}, err \in {"", "workflow", "config", "dead letter"} :
            FinishJob(job[w], w, st, err)
      BY <2>5, EndsEffect
    <3> QED
      BY <3>1 DEF FinishJob
  <2>6. ASSUME NEW k \in Jobs, CreateJob(k) \/ FailsDispatch(k) \/ StoreLapse(k)
        PROVE  Terminal(j)'
    BY ZenonT(40), <2>6 DEF CreateJob, FailsDispatch, FinishJob, StoreLapse, StoreLeaseExpires
  <2>7. ASSUME NEW B \in SUBSET Orphaned, ReclaimExpiredJobs(B) PROVE Terminal(j)'
    <3>1. j \notin B
      BY DEF Orphaned
    <3> QED
      BY <2>7, <3>1 DEF ReclaimExpiredJobs, ToPending
  <2> QED
    BY <1>3, <2>1, <2>2, <2>3, <2>4, <2>5, <2>6, <2>7, NextSplit, WorkerStatements,
       OtherStatements DEF Sweeps
<1> QED
  BY <1>1, <1>2, <1>3

Completes(w) == pc[w] = "log" /\ AppendEvent(job[w], "job.completed")

\* Of the events that end a stream, a worker records job.completed in "log" and
\* job.dead_lettered elsewhere; nobody else records one.
LEMMA EventStatements ==
  ASSUME OtherStep \/ \E w \in Workers : WorkerStep(w)
  PROVE  \/ UNCHANGED events
         \/ \E w \in Workers :
              /\ pc[w] \in {"log", "deadLog"}
              /\ Completes(w) \/ AppendEvent(job[w], "job.dead_lettered")
<1> USE DEF storeVars
<1>1. ASSUME NEW j \in Jobs, Submit(j) \/ QueueLapse(j) \/ StoreLapse(j)
      PROVE  UNCHANGED events
  BY <1>1 DEF Submit, Create, CreateFails, Dispatch, DispatchFails, FailDispatch, SubmitDies,
              CreateJob, FinishJob, QueueLapse, StoreLapse, StoreLeaseExpires
<1>2. ASSUME NEW r \in Reapers, Reap(r) \/ ReaperCrash(r)
      PROVE  UNCHANGED events
  BY <1>2 DEF Reap, ReapQueue, ReapStore, ReapStoreFails, PushOrphan, ReapEnds, ReaperCrash,
              ReclaimExpiredJobs, ToPending
<1>3. CASE RedisLoss
  BY <1>3 DEF RedisLoss
<1>4. ASSUME NEW w \in Workers, WorkerStep(w)
      PROVE  \/ UNCHANGED events
             \/ pc[w] \in {"log", "deadLog"} /\ (Completes(w) \/ AppendEvent(job[w], "job.dead_lettered"))
  <2>1. CASE QueueClaim(w) \/ QueueClaimLost(w) \/ Park(w) \/ Wake(w) \/ Stop(w)
    BY <2>1 DEF QueueClaim, QueueClaimLost, Park, Wake, Stop
  <2>2. CASE TakeJob(w) \/ RefuseJob(w) \/ TakeJobFails(w) \/ Drop(w)
    BY <2>2 DEF TakeJob, RefuseJob, TakeJobFails, Drop, ClaimJob
  <2>3. CASE DeadLetter(w) \/ DeadLog(w)
    BY <2>3 DEF DeadLetter, DeadLog, FinishJob
  <2>4. CASE Load(w) \/ LoadUnresolved(w) \/ LoadFails(w) \/ StartWave(w) \/ EndRun(w)
    BY <2>4 DEF Load, LoadUnresolved, LoadFails, StartWave, EndRun
  <2>5. CASE \E s \in Steps : RunStep(w, s)
    BY <2>5 DEF RunStep, CallAgent, RefuseStep, ClaimStepFails, AgentSucceeds, AgentFails,
                RetryStep, FailStep, Drain, UpdateStep, ClaimStep
  <2>6. CASE AbandonLost(w) \/ AbandonReleased(w) \/ AbandonFails(w) \/ RequeueJob(w)
    BY <2>6 DEF AbandonLost, AbandonReleased, AbandonFails, RequeueJob, ReleaseJob, ToPending
  <2>7. CASE WriteResult(w) \/ LogCompleted(w) \/ AckJob(w)
    BY <2>7 DEF WriteResult, LogCompleted, AckJob, UpdateStep, Completes
  <2>8. CASE Finish(w) \/ FinishFails(w)
    BY <2>8 DEF Finish, FinishFails, FinishJob
  <2>9. CASE Beat(w) \/ Crash(w) \/ Shutdown(w)
    BY <2>9 DEF Beat, BeatStore, BeatStoreFails, BeatQueue, BeatQueueFails, ExtendLease,
                Crash, Shutdown
  <2> QED
    BY <1>4, <2>1, <2>2, <2>3, <2>4, <2>5, <2>6, <2>7, <2>8, <2>9 DEF WorkerStep, Work
<1> QED
  BY <1>1, <1>2, <1>3, <1>4 DEF OtherStep

\* A worker comes to "log" only by a FinishJob that found the job held.
LEMMA EntersLog ==
  ASSUME TypeOK, NEW w \in Workers, WorkerStep(w), pc'[w] = "log"
  PROVE  /\ job'[w] = job[w]
         /\ \/ pc[w] = "log"
            \/ /\ pc[w] = "finish"
               /\ FinishHeld(job[w], w)
               /\ \E st \in {"succeeded", "failed"}, err \in {"", "workflow", "config"} :
                    FinishJob(job[w], w, st, err)
<1> USE DEF TypeOK, WorkerTypeOK, Goto, workerVars
<1>1. ~(Leave(w) \/ Crash(w))
  BY DEF Leave, NextRound, Crash
<1>2. ~(QueueClaim(w) \/ QueueClaimLost(w) \/ Park(w) \/ Wake(w) \/ Stop(w))
  BY DEF QueueClaim, QueueClaimLost, Park, Wake, Stop, NextRound
<1>3. ~(TakeJob(w) \/ RefuseJob(w) \/ DeadLetter(w) \/ DeadLog(w))
  BY DEF TakeJob, RefuseJob, DeadLetter, DeadLog
<1>4. ~(Load(w) \/ LoadUnresolved(w) \/ LoadFails(w) \/ EndRun(w))
  BY DEF Load, LoadUnresolved, LoadFails, EndRun, RunEnds
<1>5. CASE StartWave(w) \/ \E s \in Steps : RunStep(w, s)
  BY <1>5 DEF StartWave, RunStep, CallAgent, RefuseStep, ClaimStepFails, AgentSucceeds,
              AgentFails, RetryStep, FailStep, Drain
<1>6. ~(AbandonReleased(w) \/ LogCompleted(w) \/ WriteResult(w))
  BY DEF AbandonReleased, LogCompleted, WriteResult
<1>7. CASE Finish(w)
  BY <1>1, <1>7 DEF Finish, FinalStatus, FinalError
<1>8. CASE Beat(w) \/ Shutdown(w)
  BY <1>8 DEF Beat, BeatStore, BeatStoreFails, BeatQueue, BeatQueueFails, Shutdown
<1>9. TakeJobFails(w) \/ Drop(w) \/ AbandonLost(w) \/ AbandonFails(w) \/ RequeueJob(w)
        \/ FinishFails(w) \/ AckJob(w) => Leave(w)
  BY DEF TakeJobFails, Drop, AbandonLost, AbandonFails, RequeueJob, FinishFails, AckJob
<1> QED
  BY <1>1, <1>2, <1>3, <1>4, <1>5, <1>6, <1>7, <1>8, <1>9 DEF WorkerStep, Work

\* A worker about to record job.completed processes a job that has ended.
LogsEnded == \A w \in Workers : pc[w] = "log" => Terminal(job[w])

\* It still does in the next state.
LEMMA LogsEndedStep ==
  ASSUME TypeOK, OwnedRuns, LogsEnded, [Next]_vars
  PROVE  LogsEnded'
<1> SUFFICES ASSUME NEW v \in Workers, pc'[v] = "log"
             PROVE  \E j \in Jobs : job'[v] = j /\ Terminal(j)'
  BY DEF LogsEnded, Terminal
<1>1. ASSUME pc[v] = "log", job'[v] = job[v]
      PROVE  \E j \in Jobs : job'[v] = j /\ Terminal(j)'
  <2>1. PICK j \in Jobs : job[v] = j /\ Terminal(j)
    BY <1>1 DEF LogsEnded, TypeOK, WorkerTypeOK, PCs, Busy
  <2> QED
    BY <1>1, <2>1, TerminalPersists
<1>2. CASE OtherStep \/ UNCHANGED vars
  BY <1>1, <1>2, OtherStatements DEF workerVars, vars
<1>3. ASSUME NEW w \in Workers, w # v, WorkerStep(w)
      PROVE  \E j \in Jobs : job'[v] = j /\ Terminal(j)'
  BY <1>1, <1>3, OthersKeep
<1>4. CASE WorkerStep(v)
  <2>1. CASE pc[v] = "log"
    BY <1>1, <1>4, <2>1, EntersLog
  <2>2. CASE pc[v] # "log"
    <3>1. PICK st \in {"succeeded", "failed"}, err \in {"", "workflow", "config"} :
            /\ pc[v] = "finish" /\ job'[v] = job[v]
            /\ FinishHeld(job[v], v) /\ FinishJob(job[v], v, st, err)
      BY <1>4, <2>2, EntersLog
    <3>2. PICK j \in Jobs : job[v] = j
      BY <3>1 DEF TypeOK, WorkerTypeOK, PCs, Busy
    <3>3. status' = [status EXCEPT ![j] = st]
      BY <3>1, <3>2 DEF FinishJob
    <3> QED
      BY <3>1, <3>2, <3>3 DEF Terminal, TypeOK, StoreTypeOK
  <2> QED
    BY <2>1, <2>2
<1> QED
  BY <1>2, <1>3, <1>4, NextSplit

\* An event that says the job is completed says so of a job that has ended.
LEMMA CompletedStep ==
  ASSUME TypeOK, OwnedRuns, LogsEnded, CompletedIsTruthful, [Next]_vars
  PROVE  CompletedIsTruthful'
<1> SUFFICES ASSUME NEW j \in Jobs, "job.completed" \in events'[j]
             PROVE  Terminal(j)'
  BY DEF CompletedIsTruthful, Terminal
<1>1. SUFFICES Terminal(j)
  BY TerminalPersists
<1>2. CASE "job.completed" \in events[j]
  BY <1>2 DEF CompletedIsTruthful
<1>3. CASE events'[j] # events[j] /\ "job.completed" \notin events[j]
  <2>1. PICK w \in Workers :
          /\ pc[w] \in {"log", "deadLog"}
          /\ Completes(w) \/ AppendEvent(job[w], "job.dead_lettered")
    BY <1>3, EventStatements, NextSplit DEF vars, storeVars
  <2>2. PICK k \in Jobs : job[w] = k
    BY <2>1 DEF TypeOK, WorkerTypeOK, PCs, Busy
  <2>3. events \in [Jobs -> SUBSET TerminalEvents]
    BY DEF TypeOK, StoreTypeOK
  <2>4. Completes(w) /\ k = j
    BY <1>3, <2>1, <2>2, <2>3 DEF AppendEvent, Completes
  <2> QED
    BY <2>2, <2>4 DEF Completes, LogsEnded, Terminal
<1> QED
  BY <1>2, <1>3

\* Whatever crashes, stalls or fails, job.completed is recorded only for a job
\* whose outcome is recorded already: whoever reads the event and then the job
\* finds it ended.
THEOREM CompletedTellsTruth == Spec => []CompletedIsTruthful
<1>1. Init => LogsEnded /\ CompletedIsTruthful
  <2> SUFFICES ASSUME Init PROVE LogsEnded /\ CompletedIsTruthful
    OBVIOUS
  <2>1. events = [j \in Jobs |-> {}] /\ pc = [w \in Workers |-> "idle"]
    BY DEF Init, EmptyStore
  <2> QED
    BY <2>1 DEF LogsEnded, CompletedIsTruthful
<1>2. TypeOK /\ FenceInv /\ LogsEnded /\ CompletedIsTruthful /\ [Next]_vars
        => LogsEnded' /\ CompletedIsTruthful'
  BY LogsEndedStep, CompletedStep DEF FenceInv
<1> QED
  BY <1>1, <1>2, TypeCorrect, FencesHold, PTL DEF Spec

-----------------------------------------------------------------------------
(* The service implements JobLifecycle: every step of a request, a worker, *)
(* a reaper or time is one step in the life of a job, or none.             *)

\* What a client sees of a step that changes nothing it can see.
Unseen == UNCHANGED <<status, owner, StepsDone, RequestStage>>

\* The rows of the steps and the submitting requests stay as they are.
LEMMA SameProgress ==
  ASSUME UNCHANGED stepStatus
  PROVE  UNCHANGED StepsDone
BY DEF StepsDone

\* So does the stage of every request.
LEMMA SameRequests ==
  ASSUME UNCHANGED submit
  PROVE  UNCHANGED RequestStage
BY DEF RequestStage

\* Only a request's own steps advance it.
LEMMA WorkersLeaveRequests ==
  ASSUME NEW w \in Workers, WorkerStep(w)
  PROVE  UNCHANGED submit
<1>1. CASE QueueClaim(w) \/ QueueClaimLost(w) \/ Park(w) \/ Wake(w) \/ Stop(w)
  BY <1>1 DEF QueueClaim, QueueClaimLost, Park, Wake, Stop
<1>2. CASE TakeJob(w) \/ RefuseJob(w) \/ TakeJobFails(w) \/ Drop(w) \/ DeadLetter(w) \/ DeadLog(w)
  BY <1>2 DEF TakeJob, RefuseJob, TakeJobFails, Drop, DeadLetter, DeadLog
<1>3. CASE Load(w) \/ LoadUnresolved(w) \/ LoadFails(w) \/ StartWave(w) \/ EndRun(w)
  BY <1>3 DEF Load, LoadUnresolved, LoadFails, StartWave, EndRun
<1>4. CASE \E s \in Steps : RunStep(w, s)
  BY <1>4 DEF RunStep, CallAgent, RefuseStep, ClaimStepFails, AgentSucceeds, AgentFails,
              RetryStep, FailStep, Drain
<1>5. CASE AbandonLost(w) \/ AbandonReleased(w) \/ AbandonFails(w) \/ RequeueJob(w)
  BY <1>5 DEF AbandonLost, AbandonReleased, AbandonFails, RequeueJob
<1>6. CASE WriteResult(w) \/ Finish(w) \/ FinishFails(w) \/ LogCompleted(w) \/ AckJob(w)
  BY <1>6 DEF WriteResult, Finish, FinishFails, LogCompleted, AckJob
<1>7. CASE Beat(w) \/ Crash(w) \/ Shutdown(w)
  BY <1>7 DEF Beat, BeatStore, BeatStoreFails, BeatQueue, BeatQueueFails, Crash, Shutdown
<1> QED
  BY <1>1, <1>2, <1>3, <1>4, <1>5, <1>6, <1>7 DEF WorkerStep, Work

-----------------------------------------------------------------------------
(* The statements on a job's row.                                          *)

\* ClaimJob is Take.
LEMMA ClaimIsTake ==
  ASSUME TypeOK, NEW w \in Workers, NEW j \in Jobs, ClaimJob(j, w), UNCHANGED submit
  PROVE  Lifecycle!Take(j, w)
<1>1. UNCHANGED <<StepsDone, RequestStage>>
  BY SameProgress, SameRequests DEF ClaimJob
<1> QED
  BY <1>1 DEF ClaimJob, Claimable, Lifecycle!Take

\* FinishJob in the name of a worker is End, or nothing.
LEMMA FinishIsEnd ==
  ASSUME TypeOK, OwnedRuns, NEW w \in Workers, NEW j \in Jobs, UNCHANGED submit,
         NEW st \in {"succeeded", "failed"}, NEW err, FinishJob(j, w, st, err)
  PROVE  Lifecycle!End(j) \/ Unseen
<1>1. UNCHANGED <<StepsDone, RequestStage>>
  BY SameProgress, SameRequests DEF FinishJob
<1>2. CASE FinishHeld(j, w)
  <2>1. owner[j] = w /\ w # None
    BY <1>2, IdentityAssumption DEF FinishHeld, IdentityAssumption
  <2>2. status[j] = "running"
    BY <2>1 DEF OwnedRuns
  <2>3. /\ status' = [status EXCEPT ![j] = st]
        /\ owner' = [owner EXCEPT ![j] = None]
    BY <1>2 DEF FinishJob
  <2> QED
    BY <1>1, <2>1, <2>2, <2>3 DEF Lifecycle!End
<1>3. CASE ~FinishHeld(j, w)
  BY <1>1, <1>3 DEF FinishJob, Unseen
<1> QED
  BY <1>2, <1>3

\* The statement that ReleaseJob and ReclaimExpiredJobs share is Return.
LEMMA ToPendingIsReturn ==
  ASSUME NEW S \in SUBSET Jobs, \A j \in S : status[j] = "running", ToPending(S), UNCHANGED submit
  PROVE  Lifecycle!Return(S)
<1>1. UNCHANGED <<StepsDone, RequestStage>>
  BY SameProgress, SameRequests DEF ToPending
<1> QED
  BY <1>1 DEF ToPending, Lifecycle!Return

-----------------------------------------------------------------------------
(* The statements on the rows of the steps.                                *)

\* A worker's step writes at most one step row.
LEMMA OneStepRow ==
  ASSUME TypeOK, NEW w \in Workers, WorkerStep(w), stepStatus' # stepStatus
  PROVE  \E j \in Jobs, s \in Steps :
           \A k \in Jobs, t \in Steps :
             stepStatus'[k][t] # stepStatus[k][t] => k = j /\ t = s
<1>1. Starts(w) \/ Drains(w) \/ Persists(w)
  BY StepStatements
<1>2. StoreTypeOK
  BY DEF TypeOK
<1>3. PICK j \in Jobs : job[w] = j
  <2>1. pc[w] \in {"run", "write"}
    BY <1>1 DEF Starts, Drains, Persists, TypeOK, EngineTypeOK
  <2> QED
    BY <2>1 DEF TypeOK, WorkerTypeOK, PCs, Busy
<1>4. PICK s \in Steps : ClaimStep(j, s, w) \/ \E outcome : UpdateStep(j, s, w, outcome)
  BY <1>1, <1>3 DEF Starts, Drains, Persists, Drain, storeVars
<1>5. CASE ClaimStep(j, s, w)
  BY <1>2, <1>5, ClaimStepEffect
<1>6. ASSUME NEW outcome, UpdateStep(j, s, w, outcome)
      PROVE  \A k \in Jobs, t \in Steps :
               stepStatus'[k][t] # stepStatus[k][t] => k = j /\ t = s
  BY <1>2, <1>6, UpdateStepEffect
<1> QED
  BY <1>4, <1>5, <1>6

\* A write to a step row is Achieve when it records a success, and nothing when
\* it does not.
LEMMA StepWriteIsAchieve ==
  ASSUME TypeOK, TypeOK', FenceInv, NEW w \in Workers, WorkerStep(w), stepStatus' # stepStatus,
         UNCHANGED <<status, owner>>
  PROVE  (\E j \in Jobs, s \in Steps : Lifecycle!Achieve(j, s)) \/ Unseen
<1>0. Next /\ UNCHANGED RequestStage
  BY NextSplit, WorkersLeaveRequests, SameRequests
<1>1. PICK j \in Jobs, s \in Steps :
        \A k \in Jobs, t \in Steps : stepStatus'[k][t] # stepStatus[k][t] => k = j /\ t = s
  BY OneStepRow
<1>2. CASE stepStatus'[j][s] = "succeeded" /\ stepStatus[j][s] # "succeeded"
  <2>1. owner[j] = w /\ status[j] = "running" /\ w # None
    BY <1>2, StepRowsFenced, IdentityAssumption DEF FenceInv, OwnedRuns, IdentityAssumption
  <2>2. StepsDone' = [StepsDone EXCEPT ![j] = @ \cup {s}]
    BY <1>1, <1>2 DEF StepsDone
  <2> QED
    BY <1>0, <2>1, <2>2 DEF Lifecycle!Achieve
<1>3. CASE stepStatus'[j][s] # "succeeded" \/ stepStatus[j][s] = "succeeded"
  <2>1. stepStatus[j][s] = "succeeded" => stepStatus'[j][s] = "succeeded"
    BY <1>0, SuccessStep DEF FenceInv
  <2>2. \A k \in Jobs, t \in Steps :
          stepStatus'[k][t] = "succeeded" <=> stepStatus[k][t] = "succeeded"
    BY <1>1, <1>3, <2>1
  <2>3. StepsDone' = StepsDone
    BY <2>2 DEF StepsDone
  <2> QED
    BY <1>0, <2>3 DEF Unseen
<1> QED
  BY <1>2, <1>3

-----------------------------------------------------------------------------
(* The refinement.                                                         *)

\* A worker's step is Take, Achieve, Return or End, or nothing.
LEMMA WorkerStepMaps ==
  ASSUME TypeOK, TypeOK', FenceInv, NEW w \in Workers, WorkerStep(w)
  PROVE  Lifecycle!Next \/ Unseen
<1>0. UNCHANGED submit
  BY WorkersLeaveRequests
<1>1. CASE RowsOnly /\ stepStatus' # stepStatus
  BY <1>1, StepWriteIsAchieve DEF RowsOnly, Lifecycle!Next
<1>2. CASE RowsOnly /\ UNCHANGED stepStatus
  BY <1>0, <1>2, SameProgress, SameRequests DEF RowsOnly, Unseen
<1>3. CASE Claims(w)
  <2>1. PICK j \in Jobs : job[w] = j
    BY <1>3 DEF Claims, TypeOK, WorkerTypeOK, PCs, Busy
  <2> QED
    BY <1>0, <1>3, <2>1, ClaimIsTake DEF Claims, Lifecycle!Next
<1>4. CASE Renews(w)
  BY <1>0, <1>4, SameProgress, SameRequests DEF Renews, ExtendLease, Unseen
<1>5. CASE Releases(w)
  <2>1. PICK j \in Jobs : job[w] = j
    BY <1>5 DEF Releases, TypeOK, WorkerTypeOK, PCs, Busy
  <2>2. PICK S \in SUBSET Jobs : ToPending(S) /\ \A k \in S : status[k] = "running"
    BY <1>5, <2>1 DEF Releases, ReleaseJob, StoreHeld
  <2> QED
    BY <1>0, <2>2, ToPendingIsReturn DEF Lifecycle!Next
<1>6. CASE Ends(w)
  <2>1. PICK j \in Jobs : job[w] = j
    BY <1>6 DEF Ends, TypeOK, WorkerTypeOK, PCs, Busy
  <2> QED
    BY <1>0, <1>6, <2>1, EndsEffect, FinishIsEnd DEF FenceInv, Lifecycle!Next
<1> QED
  BY <1>1, <1>2, <1>3, <1>4, <1>5, <1>6, WorkerStatements

\* A request's step is Open, Answer or Withdraw.
LEMMA SubmitMaps ==
  ASSUME TypeOK, NEW j \in Jobs, Submit(j)
  PROVE  Lifecycle!Next
<1> DEFINE stages == {"none", "created", "failing", "accepted", "rejected"}
<1>0. submit \in [Jobs -> stages] /\ owner \in [Jobs -> Workers \cup {None}]
  BY DEF TypeOK, StoreTypeOK
<1> DEFINE Shown(x) == CASE x = "none" -> "none" [] x = "created" -> "open"
                         [] x = "failing" -> "failing" [] OTHER -> "over"
<1>a. \A k \in Jobs : RequestStage[k] = Shown(submit[k])
  BY DEF RequestStage
<1>b. ASSUME NEW x \in stages, submit' = [submit EXCEPT ![j] = x]
      PROVE  RequestStage' = [RequestStage EXCEPT ![j] = Shown(x)]
  BY <1>0, <1>b DEF RequestStage
<1>1. ASSUME CreateJob(j), submit[j] = "none", NEW x \in {"created", "rejected"},
             submit' = [submit EXCEPT ![j] = x]
      PROVE  Lifecycle!Open(j)
  <2>1. UNCHANGED StepsDone /\ RequestStage[j] = "none"
    BY <1>1, <1>a, SameProgress DEF CreateJob
  <2>2. \E r \in {"open", "over"} : RequestStage' = [RequestStage EXCEPT ![j] = r]
    BY <1>1, <1>b
  <2> QED
    BY <1>1, <2>1, <2>2 DEF CreateJob, Lifecycle!Open
<1>2. ASSUME UNCHANGED storeVars, submit[j] \in {"none", "created", "failing"},
             NEW x \in {"accepted", "failing", "rejected"}, submit' = [submit EXCEPT ![j] = x]
      PROVE  Lifecycle!Answer(j)
  <2>1. UNCHANGED StepsDone /\ RequestStage[j] \in {"none", "open", "failing"}
    BY <1>2, <1>a, SameProgress DEF storeVars
  <2>2. \E r \in {"failing", "over"} : RequestStage' = [RequestStage EXCEPT ![j] = r]
    BY <1>2, <1>b
  <2> QED
    BY <1>2, <2>1, <2>2 DEF storeVars, Lifecycle!Answer
<1>3. CASE FailDispatch(j)
  <2>1. UNCHANGED StepsDone /\ RequestStage[j] = "failing"
    BY <1>3, <1>a, SameProgress DEF FailDispatch, FinishJob
  <2>2. RequestStage' = [RequestStage EXCEPT ![j] = "over"]
    BY <1>3, <1>b DEF FailDispatch
  <2>3. CASE FinishHeld(j, None)
    <3>1. owner[j] = None /\ owner' = [owner EXCEPT ![j] = None]
      BY <1>3, <2>3 DEF FailDispatch, FinishJob, FinishHeld
    <3>2. owner' = owner
      BY <1>0, <3>1
    <3> QED
      BY <1>3, <2>1, <2>2, <2>3, <3>1, <3>2
         DEF FailDispatch, FinishJob, Lifecycle!Next, Lifecycle!Withdraw
  <2>4. CASE ~FinishHeld(j, None)
    BY <1>3, <2>1, <2>2, <2>4
       DEF FailDispatch, FinishJob, Lifecycle!Next, Lifecycle!Answer
  <2> QED
    BY <2>3, <2>4
<1>4. CASE Create(j) \/ CreateFails(j)
  BY <1>1, <1>2, <1>4 DEF Create, CreateFails, Lifecycle!Next
<1>5. CASE Dispatch(j) \/ DispatchFails(j) \/ SubmitDies(j)
  BY <1>2, <1>5 DEF Dispatch, DispatchFails, SubmitDies, Lifecycle!Next
<1> QED
  BY <1>3, <1>4, <1>5 DEF Submit

\* A step of a request, a reaper or time is Open, Answer, Withdraw or Return, or
\* nothing.
LEMMA OtherStepMaps ==
  ASSUME TypeOK, OtherStep
  PROVE  Lifecycle!Next \/ Unseen
<1>1. CASE \E j \in Jobs : Submit(j)
  BY <1>1, SubmitMaps
<1>2. ASSUME NEW j \in Jobs, QueueLapse(j) \/ StoreLapse(j) PROVE Unseen
  <2>1. UNCHANGED <<status, owner, stepStatus, submit>>
    BY <1>2 DEF QueueLapse, StoreLapse, StoreLeaseExpires, storeVars
  <2> QED
    BY <2>1, SameProgress, SameRequests DEF Unseen
<1>3. ASSUME NEW r \in Reapers, Reap(r) \/ ReaperCrash(r) PROVE Lifecycle!Next \/ Unseen
  <2>1. UNCHANGED submit
    BY <1>3 DEF Reap, ReapQueue, ReapStore, ReapStoreFails, PushOrphan, ReapEnds, ReaperCrash
  <2>2. UNCHANGED storeVars \/ \E B \in SUBSET Orphaned : ToPending(B)
    BY <1>3 DEF Reap, ReapQueue, ReapStore, ReapStoreFails, PushOrphan, ReapEnds, ReaperCrash,
                Batches, ReclaimExpiredJobs
  <2>3. CASE UNCHANGED storeVars
    BY <2>1, <2>3, SameProgress, SameRequests DEF storeVars, Unseen
  <2>4. ASSUME NEW B \in SUBSET Orphaned, ToPending(B) PROVE Lifecycle!Next
    BY <2>1, <2>4, ToPendingIsReturn DEF Orphaned, Lifecycle!Next
  <2> QED
    BY <2>2, <2>3, <2>4
<1>4. CASE RedisLoss
  BY <1>4, SameProgress, SameRequests DEF RedisLoss, storeVars, Unseen
<1> QED
  BY <1>1, <1>2, <1>3, <1>4 DEF OtherStep

\* Whatever crashes, stalls, is lost or is delivered twice, a client sees the
\* life of a job that JobLifecycle describes: opened once, under one holder at a
\* time, advanced and ended by its holder only, with successes that accumulate.
THEOREM Refinement == Spec => ImplementsLifecycle
<1>1. Init => Lifecycle!Init
  <2> SUFFICES ASSUME Init PROVE Lifecycle!Init
    OBVIOUS
  <2>1. /\ status = [j \in Jobs |-> "absent"] /\ owner = [j \in Jobs |-> None]
        /\ stepStatus = [j \in Jobs |-> [s \in Steps |-> "pending"]]
        /\ submit = [j \in Jobs |-> "none"]
    BY DEF Init, EmptyStore
  <2>2. StepsDone = [j \in Jobs |-> {}]
    BY <2>1 DEF StepsDone
  <2>3. RequestStage = [j \in Jobs |-> "none"]
    BY <2>1 DEF RequestStage
  <2> QED
    BY <2>1, <2>2, <2>3 DEF Lifecycle!Init
<1>2. TypeOK /\ TypeOK' /\ FenceInv /\ [Next]_vars => [Lifecycle!Next]_(Lifecycle!lifecycleVars)
  <2> SUFFICES ASSUME TypeOK, TypeOK', FenceInv, [Next]_vars
               PROVE  Lifecycle!Next \/ Unseen
    BY DEF Unseen, Lifecycle!lifecycleVars
  <2>1. CASE UNCHANGED vars
    BY <2>1, SameProgress, SameRequests DEF vars, storeVars, Unseen
  <2> QED
    BY <2>1, NextSplit, WorkerStepMaps, OtherStepMaps
<1> QED
  BY <1>1, <1>2, TypeCorrect, FencesHold, PTL DEF Spec, ImplementsLifecycle, Lifecycle!Spec

=============================================================================
