------------------------------ MODULE Service ------------------------------
(***************************************************************************)
(* The job service of internal/jobs/jobs.go: requests that submit jobs,    *)
(* workers that claim and execute them with a heartbeat beside the run,    *)
(* and reapers that recover what dead workers left.  They share the Redis  *)
(* queue and the PostgreSQL store and nothing else.                        *)
(*                                                                         *)
(* Every call on the queue or the store is a step of its own, so any other *)
(* process may act between two of them.  What can go wrong is a set of     *)
(* fault kinds with a common budget:                                       *)
(*   "crash"     a worker's process dies                                   *)
(*   "shutdown"  a worker's context is cancelled                           *)
(*   "pause"     a lease runs out although its worker is alive             *)
(*   "store"     a statement that the caller checks fails                  *)
(*   "write"     a step or event write, whose error is swallowed, fails    *)
(*   "queue"     a queue operation fails                                   *)
(*   "flush"     Redis loses its data                                      *)
(*   "sweep"     a reaper loses a job it has just returned to pending      *)
(*   "submit"    a submitting request fails or dies half way               *)
(* A failed call either took effect and lost its reply or did nothing.     *)
(* The kind "agent" lets agents fail, without a budget.                    *)
(***************************************************************************)
EXTENDS Queue, Store

CONSTANTS
  Reapers,        \* the nodes that run RunReaper
  MaxAttempts,    \* Config.MaxAttempts; 0 is no limit
  Misconfigured,  \* the workers that cannot resolve the workflow's agents
  FaultKinds,     \* the faults that may happen
  MaxFaults       \* and how many of them, all kinds together

ASSUME ServiceAssumption ==
  /\ MaxAttempts \in Nat
  /\ Misconfigured \subseteq Workers
  /\ MaxFaults \in Nat

VARIABLES
  submit,    \* the submitting request: where it stands or how it ended
  pc,        \* worker: the call that process makes next
  job,       \* worker: the job of the delivery it processes
  beat,      \* worker: holdLease, between its two calls or waiting for a tick
  ctx,       \* worker: the run's context and the cause of its cancellation
  stopping,  \* worker: RunWorker's context is cancelled
  verdict,   \* worker: what runJob returned
  results,   \* worker: the results of the run
  phase,     \* worker: what each step of the current wave is doing
  tries,     \* worker: StepResult.Attempts of the wave's steps
  fence,     \* worker: leaseFence.lost
  written,   \* worker: how many results process has persisted at the end
  sweep,     \* reaper: the call that reap makes next
  orphans,   \* reaper: jobs returned to pending and not pushed yet
  faults     \* faults so far

engineVars == <<results, phase, tries, fence>>
workerVars == <<pc, job, beat, ctx, stopping, verdict, written, engineVars>>
reaperVars == <<sweep, orphans>>
vars == <<queueVars, storeVars, submit, workerVars, reaperVars, faults>>

PCs == {"idle", "parked", "claimed", "drop", "deadLetter", "deadLog", "load",
        "run", "abandon", "requeue", "write", "finish", "log", "ack",
        "stopped", "dead"}

Verdicts == {"none", "succeeded", "failed", "config", "infra", "leaseLost"}

\* Where a worker is processing a delivery.
Busy == PCs \ {"idle", "parked", "stopped", "dead"}

WorkerTypeOK ==
  /\ pc \in [Workers -> PCs]
  /\ job \in [Workers -> Jobs \cup {None}]
  /\ \A w \in Workers : pc[w] \in Busy => job[w] \in Jobs
  /\ beat \in [Workers -> {"off", "wait", "held", "lost"}]
  /\ ctx \in [Workers -> {"ok", "canceled", "leaseLost"}]
  /\ stopping \in [Workers -> BOOLEAN]
  /\ verdict \in [Workers -> Verdicts]
  /\ written \in [Workers -> 0..NumSteps]

EngineTypeOK ==
  /\ results \in [Workers -> [Steps -> StepOutcomes \cup {"none"}]]
  /\ phase \in [Workers -> [Steps -> {"off", "unrendered", "claim", "call", "error"}]]
  /\ \A w \in Workers : pc[w] # "run" => phase[w] = [s \in Steps |-> "off"]
  /\ tries \in [Workers -> [Steps -> 0..MaxRetries]]
  /\ fence \in [Workers -> BOOLEAN]

ReaperTypeOK ==
  /\ sweep \in [Reapers -> {"queue", "store", "push"}]
  /\ orphans \in [Reapers -> SUBSET Jobs]

\* Every variable holds a value that the code's types and columns allow, a
\* worker inside process has a job, and no step runs outside a run.
TypeOK ==
  /\ QueueTypeOK
  /\ StoreTypeOK
  /\ submit \in [Jobs -> {"none", "created", "failing", "accepted", "rejected"}]
  /\ WorkerTypeOK
  /\ EngineTypeOK
  /\ ReaperTypeOK
  /\ faults \in 0..MaxFaults

NoResults == [s \in Steps |-> "none"]
AllOff == [s \in Steps |-> "off"]
NoTries == [s \in Steps |-> 0]

Init ==
  /\ EmptyQueue
  /\ EmptyStore
  /\ submit = [j \in Jobs |-> "none"]
  /\ pc = [w \in Workers |-> "idle"]
  /\ job = [w \in Workers |-> None]
  /\ beat = [w \in Workers |-> "off"]
  /\ ctx = [w \in Workers |-> "ok"]
  /\ stopping = [w \in Workers |-> FALSE]
  /\ verdict = [w \in Workers |-> "none"]
  /\ results = [w \in Workers |-> NoResults]
  /\ phase = [w \in Workers |-> AllOff]
  /\ tries = [w \in Workers |-> NoTries]
  /\ fence = [w \in Workers |-> FALSE]
  /\ written = [w \in Workers |-> 0]
  /\ sweep = [r \in Reapers |-> "queue"]
  /\ orphans = [r \in Reapers |-> {}]
  /\ faults = 0

-----------------------------------------------------------------------------

Fault(k) ==
  /\ k \in FaultKinds
  /\ faults < MaxFaults
  /\ faults' = faults + 1

\* A call bound to RunWorker's context fails.
Interrupted(w, k) == IF stopping[w] THEN UNCHANGED faults ELSE Fault(k)

\* A call bound to the run's context fails.
RunInterrupted(w, k) == IF ctx[w] # "ok" THEN UNCHANGED faults ELSE Fault(k)

Goto(w, label) == pc' = [pc EXCEPT ![w] = label]

\* process returns, and with it goes everything it kept on its stack.
Discard(w) ==
  /\ job' = [job EXCEPT ![w] = None]
  /\ beat' = [beat EXCEPT ![w] = "off"]
  /\ ctx' = [ctx EXCEPT ![w] = "ok"]
  /\ verdict' = [verdict EXCEPT ![w] = "none"]
  /\ results' = [results EXCEPT ![w] = NoResults]
  /\ phase' = [phase EXCEPT ![w] = AllOff]
  /\ tries' = [tries EXCEPT ![w] = NoTries]
  /\ fence' = [fence EXCEPT ![w] = FALSE]
  /\ written' = [written EXCEPT ![w] = 0]

\* RunWorker's loop comes round, or ends when its context is cancelled.
NextRound(w) == Goto(w, IF stopping[w] THEN "stopped" ELSE "idle")

Leave(w) == NextRound(w) /\ Discard(w) /\ UNCHANGED stopping

-----------------------------------------------------------------------------
(* Submit.                                                                 *)

Create(j) ==
  /\ submit[j] = "none"
  /\ CreateJob(j)
  /\ submit' = [submit EXCEPT ![j] = "created"]
  /\ UNCHANGED <<queueVars, workerVars, reaperVars, faults>>

\* Create fails; its transaction may have been committed all the same.
CreateFails(j) ==
  /\ submit[j] = "none"
  /\ Fault("submit")
  /\ CreateJob(j) \/ UNCHANGED storeVars
  /\ submit' = [submit EXCEPT ![j] = "rejected"]
  /\ UNCHANGED <<queueVars, workerVars, reaperVars>>

Dispatch(j) ==
  /\ submit[j] = "created"
  /\ Push(j)
  /\ submit' = [submit EXCEPT ![j] = "accepted"]
  /\ UNCHANGED <<storeVars, workerVars, reaperVars, faults>>

\* Push fails; the job may be in the ready list all the same.
DispatchFails(j) ==
  /\ submit[j] = "created"
  /\ Fault("submit")
  /\ Push(j) \/ UNCHANGED queueVars
  /\ submit' = [submit EXCEPT ![j] = "failing"]
  /\ UNCHANGED <<storeVars, workerVars, reaperVars>>

\* The job that was not dispatched is failed in the name of no owner.
FailDispatch(j) ==
  /\ submit[j] = "failing"
  /\ FinishJob(j, None, "failed", "enqueue")
  /\ submit' = [submit EXCEPT ![j] = "rejected"]
  /\ UNCHANGED <<queueVars, workerVars, reaperVars, faults>>

\* The request ends between two of its calls: the first event is not recorded,
\* FinishJob fails, or the process dies.
SubmitDies(j) ==
  /\ submit[j] \in {"created", "failing"}
  /\ Fault("submit")
  /\ submit' = [submit EXCEPT ![j] = "rejected"]
  /\ UNCHANGED <<queueVars, storeVars, workerVars, reaperVars>>

Submit(j) ==
  \/ Create(j)
  \/ CreateFails(j)
  \/ Dispatch(j)
  \/ DispatchFails(j)
  \/ FailDispatch(j)
  \/ SubmitDies(j)

-----------------------------------------------------------------------------
(* RunWorker: the claim loop.                                              *)

QueueClaim(w) ==
  /\ pc[w] = "idle" /\ ~stopping[w]
  /\ Claim(w)
  /\ Goto(w, "claimed")
  /\ job' = [job EXCEPT ![w] = Head(ready)]
  /\ UNCHANGED <<storeVars, submit, beat, ctx, stopping, verdict, written, engineVars,
                 reaperVars, faults>>

\* The claim script ran and its answer was lost: a lease nobody works under.
QueueClaimLost(w) ==
  /\ pc[w] = "idle"
  /\ Claim(w)
  /\ Interrupted(w, "queue")
  /\ NextRound(w)
  /\ UNCHANGED <<storeVars, submit, job, beat, ctx, stopping, verdict, written, engineVars,
                 reaperVars>>

Park(w) ==
  /\ pc[w] = "idle" /\ ~stopping[w]
  /\ ready = <<>>
  /\ Goto(w, "parked")
  /\ UNCHANGED <<queueVars, storeVars, submit, job, beat, ctx, stopping, verdict, written,
                 engineVars, reaperVars, faults>>

Wake(w) ==
  /\ pc[w] = "parked"
  /\ BRPop
  /\ NextRound(w)
  /\ UNCHANGED <<storeVars, submit, job, beat, ctx, stopping, verdict, written, engineVars,
                 reaperVars, faults>>

Stop(w) ==
  /\ pc[w] = "idle" /\ stopping[w]
  /\ Goto(w, "stopped")
  /\ UNCHANGED <<queueVars, storeVars, submit, job, beat, ctx, stopping, verdict, written,
                 engineVars, reaperVars, faults>>

-----------------------------------------------------------------------------
(* process: taking the delivery over.                                      *)

\* attempts > limit, for the attempt number that ClaimJob returns.
Exhausted(j) == MaxAttempts > 0 /\ attempts[j] + 1 > MaxAttempts

TakeJob(w) ==
  /\ pc[w] = "claimed" /\ ~stopping[w]
  /\ ClaimJob(job[w], w)
  /\ IF Exhausted(job[w])
     THEN Goto(w, "deadLetter") /\ UNCHANGED beat
     ELSE Goto(w, "load") /\ beat' = [beat EXCEPT ![w] = "wait"]
  /\ UNCHANGED <<queueVars, submit, job, ctx, stopping, verdict, written, engineVars,
                 reaperVars, faults>>

\* The delivery is a duplicate.
RefuseJob(w) ==
  /\ pc[w] = "claimed" /\ ~stopping[w]
  /\ ~Claimable(job[w], w)
  /\ Goto(w, "drop")
  /\ UNCHANGED <<queueVars, storeVars, submit, job, beat, ctx, stopping, verdict, written,
                 engineVars, reaperVars, faults>>

\* ClaimJob fails: the queue lease is left alone.
TakeJobFails(w) ==
  /\ pc[w] = "claimed"
  /\ Interrupted(w, "store")
  /\ ClaimJob(job[w], w) \/ UNCHANGED storeVars
  /\ Leave(w)
  /\ UNCHANGED <<queueVars, submit, reaperVars>>

\* Mutation of Drop: the duplicate is left in the queue.
DropWithoutAck(w) ==
  /\ pc[w] = "drop"
  /\ Leave(w)
  /\ UNCHANGED <<queueVars, storeVars, submit, reaperVars, faults>>

\* The ack of a duplicate or of a dead letter, in the worker's own context.
Drop(w) ==
  /\ pc[w] = "drop"
  /\ \/ Ack(job[w]) /\ UNCHANGED faults
     \/ UNCHANGED queueVars /\ Interrupted(w, "queue")
  /\ Leave(w)
  /\ UNCHANGED <<storeVars, submit, reaperVars>>

\* deadLetter: whether FinishJob found the job still held is not looked at.
DeadLetter(w) ==
  /\ pc[w] = "deadLetter"
  /\ \/ FinishJob(job[w], w, "failed", "dead letter") /\ UNCHANGED faults
     \/ UNCHANGED storeVars /\ Interrupted(w, "store")
  /\ Goto(w, "deadLog")
  /\ UNCHANGED <<queueVars, submit, job, beat, ctx, stopping, verdict, written, engineVars,
                 reaperVars>>

DeadLog(w) ==
  /\ pc[w] = "deadLog"
  /\ \/ AppendEvent(job[w], "job.dead_lettered") /\ UNCHANGED faults
     \/ UNCHANGED storeVars /\ Interrupted(w, "write")
  /\ Goto(w, "drop")
  /\ UNCHANGED <<queueVars, submit, job, beat, ctx, stopping, verdict, written, engineVars,
                 reaperVars>>

-----------------------------------------------------------------------------
(* runJob, and the engine's Run inside it.                                 *)

\* runJob returns v and the heartbeat is awaited.  A renewal that is under way
\* may still reach the queue.
RunEnds(w, v) ==
  /\ verdict' = [verdict EXCEPT ![w] = v]
  /\ Goto(w, CASE v \in {"infra", "leaseLost"} -> "abandon"
               [] v = "config" -> "finish"
               [] OTHER -> "write")
  /\ beat' = [beat EXCEPT ![w] = "off"]
  /\ \/ UNCHANGED queueVars
     \/ beat[w] \in {"held", "lost"} /\ Extend(job[w], w)

\* resumable: only a step that succeeded is replayed.
Resumable(j) ==
  [s \in Steps |-> IF stepStatus[j][s] = "succeeded" THEN "succeeded" ELSE "none"]

\* Mutation of Load: every step is run again.
LoadReplaysNothing(w) ==
  /\ pc[w] = "load" /\ ctx[w] = "ok" /\ w \notin Misconfigured
  /\ Goto(w, "run")
  /\ UNCHANGED <<queueVars, storeVars, submit, job, beat, ctx, stopping, verdict, written,
                 engineVars, reaperVars, faults>>

\* Get, and a run that starts from what is resumable.
Load(w) ==
  /\ pc[w] = "load" /\ ctx[w] = "ok" /\ w \notin Misconfigured
  /\ Goto(w, "run")
  /\ results' = [results EXCEPT ![w] = Resumable(job[w])]
  /\ UNCHANGED <<queueVars, storeVars, submit, job, beat, ctx, stopping, verdict, written,
                 phase, tries, fence, reaperVars, faults>>

\* resolveSteps fails: a configuration error, which ends the job.
LoadUnresolved(w) ==
  /\ pc[w] = "load" /\ ctx[w] = "ok" /\ w \in Misconfigured
  /\ RunEnds(w, "config")
  /\ UNCHANGED <<storeVars, submit, job, ctx, stopping, written, engineVars, reaperVars, faults>>

\* Get fails.  Its error does not tell a lost lease from a cancelled context.
LoadFails(w) ==
  /\ pc[w] = "load"
  /\ RunInterrupted(w, "store")
  /\ RunEnds(w, "infra")
  /\ UNCHANGED <<storeVars, submit, job, ctx, stopping, written, engineVars, reaperVars>>

Wave(w) == {s \in Steps : phase[w][s] # "off"}

StartWave(w) ==
  /\ pc[w] = "run" /\ Wave(w) = {}
  /\ ReadyWave(results[w]) # {}
  /\ phase' = [phase EXCEPT ![w] = [s \in Steps |->
       IF s \notin ReadyWave(results[w]) THEN "off"
       ELSE IF Renders(s, results[w]) THEN "claim" ELSE "unrendered"]]
  /\ UNCHANGED <<queueVars, storeVars, submit, pc, job, beat, ctx, stopping, verdict, written,
                 results, tries, fence, reaperVars, faults>>

\* Run's drain loop takes the result of s and OnStepState persists it; behind
\* the last result of the wave, skipBlocked.
Drain(w, s, outcome) ==
  LET r == [results[w] EXCEPT ![s] = outcome]
  IN  /\ results' = [results EXCEPT ![w] = IF Wave(w) = {s} THEN SkipBlocked(r) ELSE r]
      /\ phase' = [phase EXCEPT ![w][s] = "off"]
      /\ tries' = [tries EXCEPT ![w][s] = 0]
      /\ \/ UpdateStep(job[w], s, w, outcome) /\ UNCHANGED faults
         \/ UNCHANGED storeVars /\ Fault("write")
      /\ UNCHANGED <<queueVars, submit, pc, job, beat, ctx, stopping, verdict, written, reaperVars>>

\* fencedAgent.Run: the claim is granted and the agent called.
CallAgent(w, s) ==
  /\ phase[w][s] = "claim" /\ ctx[w] = "ok"
  /\ StepClaimable(job[w], s, w)
  /\ ClaimStep(job[w], s, w)
  /\ phase' = [phase EXCEPT ![w][s] = "call"]
  /\ UNCHANGED <<queueVars, submit, pc, job, beat, ctx, stopping, verdict, written, results,
                 tries, fence, reaperVars, faults>>

\* fencedAgent.Run: the claim is refused, which the fence remembers.
RefuseStep(w, s) ==
  /\ phase[w][s] = "claim" /\ ctx[w] = "ok"
  /\ ~StepClaimable(job[w], s, w)
  /\ phase' = [phase EXCEPT ![w][s] = "error"]
  /\ fence' = [fence EXCEPT ![w] = TRUE]
  /\ UNCHANGED <<queueVars, storeVars, submit, pc, job, beat, ctx, stopping, verdict, written,
                 results, tries, reaperVars, faults>>

\* fencedAgent.Run: the claim fails, which the engine takes for an agent error.
ClaimStepFails(w, s) ==
  /\ phase[w][s] = "claim"
  /\ RunInterrupted(w, "store")
  /\ ClaimStep(job[w], s, w) \/ UNCHANGED storeVars
  /\ phase' = [phase EXCEPT ![w][s] = "error"]
  /\ UNCHANGED <<queueVars, submit, pc, job, beat, ctx, stopping, verdict, written, results,
                 tries, fence, reaperVars>>

AgentSucceeds(w, s) ==
  /\ phase[w][s] = "call"
  /\ Drain(w, s, "succeeded")
  /\ UNCHANGED fence

AgentFails(w, s) ==
  /\ phase[w][s] = "call"
  /\ "agent" \in FaultKinds \/ ctx[w] # "ok"
  /\ phase' = [phase EXCEPT ![w][s] = "error"]
  /\ UNCHANGED <<queueVars, storeVars, submit, pc, job, beat, ctx, stopping, verdict, written,
                 results, tries, fence, reaperVars, faults>>

\* runStep runs a failed agent again.
RetryStep(w, s) ==
  /\ phase[w][s] = "error"
  /\ tries[w][s] < MaxRetries
  /\ tries' = [tries EXCEPT ![w][s] = @ + 1]
  /\ phase' = [phase EXCEPT ![w][s] = "claim"]
  /\ UNCHANGED <<queueVars, storeVars, submit, pc, job, beat, ctx, stopping, verdict, written,
                 results, fence, reaperVars, faults>>

\* The step fails: its prompt did not render, it is out of retries, or the
\* context was cancelled during the delay before the next one.
FailStep(w, s) ==
  /\ \/ phase[w][s] = "unrendered"
     \/ phase[w][s] = "error" /\ (tries[w][s] = MaxRetries \/ ctx[w] # "ok")
  /\ Drain(w, s, "failed")
  /\ UNCHANGED fence

RunStep(w, s) ==
  \/ CallAgent(w, s)
  \/ RefuseStep(w, s)
  \/ ClaimStepFails(w, s)
  \/ AgentSucceeds(w, s)
  \/ AgentFails(w, s)
  \/ RetryStep(w, s)
  \/ FailStep(w, s)

\* Mutation of Outcome: only the last step decides.
OutcomeOfLastStep(w) ==
  CASE ctx[w] = "leaseLost" -> "leaseLost"
    [] ctx[w] = "canceled" -> "infra"
    [] fence[w] -> "leaseLost"
    [] results[w][NumSteps] = "failed" -> "failed"
    [] OTHER -> "succeeded"

\* How runJob tells a lost lease, a shutdown and a failed workflow apart.
Outcome(w) ==
  CASE ctx[w] = "leaseLost" -> "leaseLost"
    [] ctx[w] = "canceled" -> "infra"
    [] fence[w] -> "leaseLost"
    [] \E s \in Steps : Ordered(results[w])[s] = "failed" -> "failed"
    [] OTHER -> "succeeded"

EndRun(w) ==
  /\ pc[w] = "run" /\ Wave(w) = {}
  /\ ReadyWave(results[w]) = {}
  /\ RunEnds(w, Outcome(w))
  /\ UNCHANGED <<storeVars, submit, job, ctx, stopping, written, engineVars, reaperVars, faults>>

-----------------------------------------------------------------------------
(* holdLease, beside runJob.                                               *)

BeatStore(w) ==
  /\ pc[w] \in {"load", "run"} /\ ctx[w] = "ok" /\ beat[w] = "wait"
  /\ ExtendLease(job[w], w)
  /\ beat' = [beat EXCEPT ![w] = IF StoreHeld(job[w], w) THEN "held" ELSE "lost"]
  /\ UNCHANGED <<queueVars, submit, pc, job, ctx, stopping, verdict, written, engineVars,
                 reaperVars, faults>>

\* ExtendLease took effect and its answer was lost: the next beat tries again.
\* One that fails without an effect changes nothing.
BeatStoreFails(w) ==
  /\ pc[w] \in {"load", "run"} /\ ctx[w] = "ok" /\ beat[w] = "wait"
  /\ Fault("store")
  /\ ExtendLease(job[w], w)
  /\ UNCHANGED <<queueVars, submit, workerVars, reaperVars>>

\* Both leases are held, or the run is cancelled.
BeatQueue(w) ==
  /\ pc[w] \in {"load", "run"} /\ ctx[w] = "ok" /\ beat[w] \in {"held", "lost"}
  /\ Extend(job[w], w)
  /\ IF beat[w] = "held" /\ QueueHeld(job[w], w)
     THEN beat' = [beat EXCEPT ![w] = "wait"] /\ UNCHANGED ctx
     ELSE beat' = [beat EXCEPT ![w] = "off"] /\ ctx' = [ctx EXCEPT ![w] = "leaseLost"]
  /\ UNCHANGED <<storeVars, submit, pc, job, stopping, verdict, written, engineVars,
                 reaperVars, faults>>

\* Extend fails: the answer of the store is forgotten until the next beat.
BeatQueueFails(w) ==
  /\ pc[w] \in {"load", "run"} /\ ctx[w] = "ok" /\ beat[w] \in {"held", "lost"}
  /\ Fault("queue")
  /\ Extend(job[w], w) \/ UNCHANGED queueVars
  /\ beat' = [beat EXCEPT ![w] = "wait"]
  /\ UNCHANGED <<storeVars, submit, pc, job, ctx, stopping, verdict, written, engineVars,
                 reaperVars>>

Beat(w) == BeatStore(w) \/ BeatStoreFails(w) \/ BeatQueue(w) \/ BeatQueueFails(w)

-----------------------------------------------------------------------------
(* process: the conclusion, in a context detached from the run.            *)

\* abandon of a job whose lease is lost: nothing is touched.
AbandonLost(w) ==
  /\ pc[w] = "abandon" /\ verdict[w] = "leaseLost"
  /\ Leave(w)
  /\ UNCHANGED <<queueVars, storeVars, submit, reaperVars, faults>>

\* abandon of any other job: released in the store, then requeued.
AbandonReleased(w) ==
  /\ pc[w] = "abandon" /\ verdict[w] = "infra"
  /\ ReleaseJob(job[w], w)
  /\ Goto(w, "requeue")
  /\ UNCHANGED <<queueVars, submit, job, beat, ctx, stopping, verdict, written, engineVars,
                 reaperVars, faults>>

AbandonFails(w) ==
  /\ pc[w] = "abandon" /\ verdict[w] = "infra"
  /\ Fault("store")
  /\ ReleaseJob(job[w], w) \/ UNCHANGED storeVars
  /\ Leave(w)
  /\ UNCHANGED <<queueVars, submit, reaperVars>>

RequeueJob(w) ==
  /\ pc[w] = "requeue"
  /\ \/ Requeue(job[w]) /\ UNCHANGED faults
     \/ UNCHANGED queueVars /\ Fault("queue")
  /\ Leave(w)
  /\ UNCHANGED <<storeVars, submit, reaperVars>>

\* Mutation of WriteResult: the last result is not persisted.
WriteResultShort(w) ==
  /\ pc[w] = "write"
  /\ UpdateStep(job[w], written[w] + 1, w, Ordered(results[w])[written[w] + 1])
  /\ written' = [written EXCEPT ![w] = @ + 1]
  /\ IF written[w] + 1 >= NumSteps - 1 THEN Goto(w, "finish") ELSE UNCHANGED pc
  /\ UNCHANGED <<queueVars, submit, job, beat, ctx, stopping, verdict, engineVars, reaperVars,
                 faults>>

\* The results of the run are persisted once more, in declaration order; the
\* steps that skipBlocked skipped, for the first time.
WriteResult(w) ==
  /\ pc[w] = "write"
  /\ written[w] < NumSteps
  /\ LET s == written[w] + 1
     IN  \/ UpdateStep(job[w], s, w, Ordered(results[w])[s]) /\ UNCHANGED faults
         \/ UNCHANGED storeVars /\ Fault("write")
  /\ written' = [written EXCEPT ![w] = @ + 1]
  /\ IF written[w] + 1 = NumSteps THEN Goto(w, "finish") ELSE UNCHANGED pc
  /\ UNCHANGED <<queueVars, submit, job, beat, ctx, stopping, verdict, engineVars, reaperVars>>

\* The status and the error that process records for what runJob returned.
FinalStatus(v) == IF v = "succeeded" THEN "succeeded" ELSE "failed"
FinalError(v) ==
  CASE v = "succeeded" -> "" [] v = "config" -> "config" [] OTHER -> "workflow"

\* Mutation of Finish: the answer of FinishJob is ignored.
FinishUnchecked(w) ==
  /\ pc[w] = "finish"
  /\ FinishJob(job[w], w, FinalStatus(verdict[w]), FinalError(verdict[w]))
  /\ Goto(w, "log")
  /\ UNCHANGED <<queueVars, submit, job, beat, ctx, stopping, verdict, written, engineVars,
                 reaperVars, faults>>

\* A job that is no longer held is left to its new owner.
Finish(w) ==
  /\ pc[w] = "finish"
  /\ FinishJob(job[w], w, FinalStatus(verdict[w]), FinalError(verdict[w]))
  /\ IF FinishHeld(job[w], w)
     THEN /\ Goto(w, "log")
          /\ UNCHANGED <<job, beat, ctx, stopping, verdict, written, engineVars>>
     ELSE Leave(w)
  /\ UNCHANGED <<queueVars, submit, reaperVars, faults>>

FinishFails(w) ==
  /\ pc[w] = "finish"
  /\ Fault("store")
  /\ \/ FinishJob(job[w], w, FinalStatus(verdict[w]), FinalError(verdict[w]))
     \/ UNCHANGED storeVars
  /\ Leave(w)
  /\ UNCHANGED <<queueVars, submit, reaperVars>>

LogCompleted(w) ==
  /\ pc[w] = "log"
  /\ \/ AppendEvent(job[w], "job.completed") /\ UNCHANGED faults
     \/ UNCHANGED storeVars /\ Fault("write")
  /\ Goto(w, "ack")
  /\ UNCHANGED <<queueVars, submit, job, beat, ctx, stopping, verdict, written, engineVars,
                 reaperVars>>

AckJob(w) ==
  /\ pc[w] = "ack"
  /\ \/ Ack(job[w]) /\ UNCHANGED faults
     \/ UNCHANGED queueVars /\ Fault("queue")
  /\ Leave(w)
  /\ UNCHANGED <<storeVars, submit, reaperVars>>

\* One worker's claim loop and everything that process does.
Work(w) ==
  \/ QueueClaim(w) \/ QueueClaimLost(w) \/ Park(w) \/ Wake(w) \/ Stop(w)
  \/ TakeJob(w) \/ RefuseJob(w) \/ TakeJobFails(w) \/ Drop(w)
  \/ DeadLetter(w) \/ DeadLog(w)
  \/ Load(w) \/ LoadUnresolved(w) \/ LoadFails(w)
  \/ StartWave(w) \/ (\E s \in Steps : RunStep(w, s)) \/ EndRun(w)
  \/ AbandonLost(w) \/ AbandonReleased(w) \/ AbandonFails(w) \/ RequeueJob(w)
  \/ WriteResult(w) \/ Finish(w) \/ FinishFails(w) \/ LogCompleted(w) \/ AckJob(w)

-----------------------------------------------------------------------------
(* reap.                                                                   *)

ReapQueue(r) ==
  /\ sweep[r] = "queue"
  /\ \/ \E B \in Batches(ExpiredLeases) : Reclaim(B) /\ UNCHANGED faults
     \/ UNCHANGED queueVars /\ Fault("queue")
  /\ sweep' = [sweep EXCEPT ![r] = "store"]
  /\ UNCHANGED <<storeVars, submit, workerVars, orphans>>

\* Mutation of ReapStore: what it returned to pending is not pushed.
ReapStoreForgets(r) ==
  /\ sweep[r] = "store"
  /\ \E B \in Batches(Orphaned) : ReclaimExpiredJobs(B)
  /\ sweep' = [sweep EXCEPT ![r] = "push"]
  /\ UNCHANGED <<queueVars, submit, workerVars, orphans, faults>>

ReapStore(r) ==
  /\ sweep[r] = "store"
  /\ \E B \in Batches(Orphaned) :
       /\ ReclaimExpiredJobs(B)
       /\ orphans' = [orphans EXCEPT ![r] = B]
  /\ sweep' = [sweep EXCEPT ![r] = "push"]
  /\ UNCHANGED <<queueVars, submit, workerVars, faults>>

\* The statement fails; if it returned jobs to pending they are not reported.
ReapStoreFails(r) ==
  /\ sweep[r] = "store"
  /\ Fault("sweep")
  /\ UNCHANGED storeVars \/ \E B \in Batches(Orphaned) : ReclaimExpiredJobs(B)
  /\ sweep' = [sweep EXCEPT ![r] = "queue"]
  /\ UNCHANGED <<queueVars, submit, workerVars, orphans>>

PushOrphan(r) ==
  /\ sweep[r] = "push"
  /\ \E j \in orphans[r] :
       /\ \/ Push(j) /\ UNCHANGED faults
          \/ UNCHANGED queueVars /\ Fault("sweep")
       /\ orphans' = [orphans EXCEPT ![r] = @ \ {j}]
  /\ UNCHANGED <<storeVars, submit, workerVars, sweep>>

ReapEnds(r) ==
  /\ sweep[r] = "push" /\ orphans[r] = {}
  /\ sweep' = [sweep EXCEPT ![r] = "queue"]
  /\ UNCHANGED <<queueVars, storeVars, submit, workerVars, orphans, faults>>

\* The reaper's process dies and another node's takes its place.
ReaperCrash(r) ==
  /\ Fault("sweep")
  /\ sweep' = [sweep EXCEPT ![r] = "queue"]
  /\ orphans' = [orphans EXCEPT ![r] = {}]
  /\ UNCHANGED <<queueVars, storeVars, submit, workerVars>>

Reap(r) == ReapQueue(r) \/ ReapStore(r) \/ ReapStoreFails(r) \/ PushOrphan(r) \/ ReapEnds(r)

-----------------------------------------------------------------------------
(* The environment.                                                        *)

Alive(w) == pc[w] \notin {"stopped", "dead"}

\* w is processing a delivery of j.
Attends(w, j) == Alive(w) /\ job[w] = j

\* Time passes a lease.  While its holder processes the job, the heartbeat and
\* the timeouts of process keep this from happening unless the holder stalls.
QueueLapse(j) ==
  /\ QueueLeaseExpires(j)
  /\ IF owners[j] \in Workers /\ Attends(owners[j], j) THEN Fault("pause") ELSE UNCHANGED faults
  /\ UNCHANGED <<storeVars, submit, workerVars, reaperVars>>

\* The bearer of another delivery does not keep the grace period from ending.
StoreLapse(j) ==
  /\ StoreLeaseExpires(j)
  /\ IF owner[j] \in Workers /\ Attends(owner[j], j) THEN Fault("pause") ELSE UNCHANGED faults
  /\ UNCHANGED <<queueVars, submit, workerVars, reaperVars>>

Crash(w) ==
  /\ Alive(w)
  /\ Fault("crash")
  /\ Goto(w, "dead")
  /\ Discard(w)
  /\ UNCHANGED <<queueVars, storeVars, submit, stopping, reaperVars>>

\* RunWorker's context is cancelled and with it a run, unless it already was.
Shutdown(w) ==
  /\ Alive(w) /\ ~stopping[w]
  /\ Fault("shutdown")
  /\ stopping' = [stopping EXCEPT ![w] = TRUE]
  /\ ctx' = [ctx EXCEPT ![w] = IF pc[w] \in {"load", "run"} /\ @ = "ok" THEN "canceled" ELSE @]
  /\ UNCHANGED <<queueVars, storeVars, submit, pc, job, beat, verdict, written, engineVars,
                 reaperVars>>

RedisLoss ==
  /\ Fault("flush")
  /\ Flush
  /\ UNCHANGED <<storeVars, submit, workerVars, reaperVars>>

Next ==
  \/ \E j \in Jobs : Submit(j) \/ QueueLapse(j) \/ StoreLapse(j)
  \/ \E w \in Workers : Work(w) \/ Beat(w) \/ Crash(w) \/ Shutdown(w)
  \/ \E r \in Reapers : Reap(r) \/ ReaperCrash(r)
  \/ RedisLoss

Spec == Init /\ [][Next]_vars

-----------------------------------------------------------------------------
(* Safety.                                                                 *)

\* A step recorded as succeeded stays succeeded and is never run again: the
\* fences of ClaimStep and UpdateStep and the replay of resumable together
\* keep a superseded worker and a new owner from undoing it.
StepSuccessIsFinal ==
  [][\A j \in Jobs, s \in Steps :
       stepStatus[j][s] = "succeeded" => stepStatus'[j][s] = "succeeded"]_vars

\* A job that ended is never opened again nor given another outcome, whatever
\* duplicate deliveries, late workers and reapers do.  The one exception is a
\* request whose Push failed and which is about to fail the job it submitted.
TerminalIsFinal ==
  [][\A j \in Jobs : Terminal(j) /\ submit[j] # "failing" =>
       UNCHANGED <<status[j], jobError[j]>>]_vars

\* Between ClaimJob and the statement that gives the job up or ends it.
Holding == {"deadLetter", "load", "run", "abandon", "write", "finish"}

\* As long as no worker stalls for a whole lease, no two workers execute or
\* conclude the same job, however many copies of it the queue delivers.
ExclusiveExecution ==
  \A v, w \in Workers :
    v # w /\ pc[v] \in Holding /\ pc[w] \in Holding => job[v] # job[w]

\* The rows of a job never show a step that succeeded ahead of a step it
\* depends on, at any moment a crash may freeze: what resumable replays is
\* closed under DependsOn.
DependenciesFirst ==
  \A j \in Jobs, s \in Steps :
    stepStatus[j][s] = "succeeded" => DependenciesSucceeded(s, stepStatus[j])

\* A job recorded as succeeded has every one of its steps recorded as
\* succeeded, over however many deliveries they were spread.
SucceededMeansAllSteps ==
  \A j \in Jobs : status[j] = "succeeded" => \A s \in Steps : stepStatus[j][s] = "succeeded"

\* job.completed, which ends the job's event stream, is recorded only once the
\* job has ended.
CompletedIsTruthful ==
  \A j \in Jobs : "job.completed" \in events[j] => Terminal(j)

\* A process has j in hand or will find it in the ready list: no ack of a
\* duplicate takes this away.
Firm(j) ==
  \/ \E i \in DOMAIN ready : ready[i] = j
  \/ \E r \in Reapers : j \in orphans[r]
  \/ \E w \in Workers : pc[w] \in {"claimed", "requeue"} /\ job[w] = j

\* j is where a reaper or a worker will find it.
Recoverable(j) == Firm(j) \/ leases[j] # "none" \/ status[j] = "running"

\* An accepted job that has not ended is in the ready list, under a lease in
\* Redis, running in PostgreSQL, or with a process about to claim or push it.
NoJobLost ==
  \A j \in Jobs : submit[j] = "accepted" => Terminal(j) \/ Recoverable(j)

\* The rows of a job that ended because a step failed tell the whole story: no
\* step is left pending or running, and exactly the steps downstream of a
\* failure are skipped.
ClosedBooks ==
  \A j \in Jobs : jobError[j] = "workflow" =>
    /\ \A s \in Steps : stepStatus[j][s] \in StepOutcomes
    /\ \E s \in Steps : stepStatus[j][s] = "failed"
    /\ \A s \in Steps : stepStatus[j][s] = "skipped" <=> ~DependenciesSucceeded(s, stepStatus[j])

-----------------------------------------------------------------------------
(* The parts of the inductive invariants.                                  *)

\* Only a running job has an owner.
OwnedRuns == \A j \in Jobs : owner[j] # None => status[j] = "running"

\* A step is in the wave only until it has a result.
WaveIsOpen ==
  \A w \in Workers, s \in Steps : phase[w][s] # "off" => results[w][s] = "none"

\* Whoever may still write a job's rows knows every step that has succeeded.
OwnerKnowsProgress ==
  \A w \in Workers : pc[w] \in {"run", "write"} /\ owner[job[w]] = w =>
    \A s \in Steps : stepStatus[job[w]][s] = "succeeded" => results[w][s] = "succeeded"

\* The fences of the store hold off every superseded worker, and what the
\* owner has in memory agrees with the rows that it may overwrite.
FenceInv == OwnedRuns /\ WaveIsOpen /\ OwnerKnowsProgress

\* Where the results of a worker's run count.
InRun(w) == pc[w] \in {"run", "write"} \/ (pc[w] = "finish" /\ verdict[w] # "config")

\* Steps ran behind the steps they depend on, and were skipped behind a failure.
Consistent(r) ==
  \A s \in Steps :
    /\ r[s] \in {"succeeded", "failed"} => DependenciesSucceeded(s, r)
    /\ r[s] = "skipped" => HasFailedDependency(s, r, {})

\* A run's results are consistent, and so is the wave that is under way.
RunsInOrder ==
  \A w \in Workers : InRun(w) =>
    /\ Consistent(results[w])
    /\ \A s \in Wave(w) : DependenciesSucceeded(s, results[w])

\* A success that the owner of a job knows of is in the rows.
RowsFollowRun ==
  \A w \in Workers : InRun(w) /\ owner[job[w]] = w =>
    \A s \in Steps : results[w][s] = "succeeded" => stepStatus[job[w]][s] = "succeeded"

\* The verdict on a run that has come to its end.
VerdictIsRight ==
  \A w \in Workers : InRun(w) /\ pc[w] # "run" =>
    /\ ReadyWave(results[w]) = {}
    /\ verdict[w] = IF \E s \in Steps : results[w][s] = "failed" THEN "failed" ELSE "succeeded"

\* What process has persisted so far, if it is still the owner.
WrittenSoFar ==
  \A w \in Workers :
    /\ pc[w] \notin {"write", "finish", "log", "ack"} => written[w] = 0
    /\ InRun(w) /\ pc[w] = "finish" => written[w] = NumSteps
    /\ InRun(w) /\ owner[job[w]] = w =>
         \A s \in Steps : s <= written[w] => stepStatus[job[w]][s] = Ordered(results[w])[s]

\* Only a job that has ended has an error.
ErrorsEnd == \A j \in Jobs : jobError[j] # "" => Terminal(j)

\* As long as no write is lost, the rows of a job follow the run of its owner,
\* and the run follows the workflow: the books that FinishJob closes are right.
BooksInv ==
  RunsInOrder /\ RowsFollowRun /\ VerdictIsRight /\ WrittenSoFar /\ ErrorsEnd

\* w owns j and its lease has not run out.
Held(j, w) == status[j] = "running" /\ owner[j] = w /\ leaseUntil[j] = "live"

\* A worker between ClaimJob and the end of the job has its lease.
LeaseKept == \A w \in Workers : pc[w] \in Holding => Held(job[w], w)

\* No worker processes j.
Unattended(j) == \A w \in Workers : job[w] # j

\* j is not in the queue and nobody processes it.
Nowhere(j) ==
  /\ leases[j] = "none"
  /\ \A i \in DOMAIN ready : ready[i] # j
  /\ Unattended(j)

\* The only copy of j is in the ready list.
Waiting(j) ==
  /\ status[j] = "pending"
  /\ leases[j] = "none"
  /\ \E i \in DOMAIN ready : ready[i] = j
  /\ \A i, k \in DOMAIN ready : ready[i] = j /\ ready[k] = j => i = k
  /\ Unattended(j)

\* The row of the only delivery of j, which is with w.
RowFits(j, w) ==
  \/ pc[w] \in {"claimed", "requeue"} /\ status[j] = "pending"
  \/ pc[w] \in Holding /\ Held(j, w)
  \/ pc[w] \in {"deadLog", "drop"} /\ stopping[w] /\ Held(j, w)
  \/ pc[w] \in {"deadLog", "drop", "log", "ack"} /\ Terminal(j)

Delivered(j, w) ==
  /\ leases[j] = "live" /\ owners[j] = w
  /\ \A i \in DOMAIN ready : ready[i] # j
  /\ \A v \in Workers : job[v] = j <=> v = w
  /\ RowFits(j, w)

\* One copy of j at most exists, and its whereabouts fit its row.
InOrder(j) ==
  /\ \A r \in Reapers : j \notin orphans[r]
  /\ \/ submit[j] = "none" /\ status[j] = "absent" /\ Nowhere(j)
     \/ submit[j] = "created" /\ status[j] = "pending" /\ Nowhere(j)
     \/ submit[j] = "accepted" /\ Waiting(j)
     \/ submit[j] = "accepted" /\ \E w \in Workers : Delivered(j, w)
     \/ submit[j] = "accepted" /\ Terminal(j) /\ Nowhere(j)

\* No worker has been told that it lost its lease.
NoLeaseLost ==
  \A w \in Workers :
    ~fence[w] /\ ctx[w] # "leaseLost" /\ beat[w] # "lost" /\ verdict[w] # "leaseLost"

\* Nothing has failed yet, but for a shutdown that is still under way.
Calm == faults = 0 \/ \E w \in Workers : stopping[w] /\ Alive(w)

\* Until something fails there are no duplicates.
SingleCopies == Calm => NoLeaseLost /\ \A j \in Jobs : InOrder(j)

\* A pending job that hangs on its lease in Redis alone is safe from acks.
Guarded(j) == Firm(j) \/ (leases[j] # "none" /\ Unattended(j))

PendingGuarded ==
  \A j \in Jobs : submit[j] = "accepted" /\ status[j] = "pending" => Guarded(j)

\* What a sweep returned to pending is pushed before the next sweep.
SweepsEnd == \A r \in Reapers : sweep[r] # "push" => orphans[r] = {}

\* One shutdown at most, and it counts as a fault.
OneShutdown ==
  \A v, w \in Workers : stopping[v] /\ stopping[w] => v = w /\ faults # 0

\* The row of a job outlives its request.
RowsRemain == \A j \in Jobs : submit[j] \in {"created", "accepted"} => status[j] # "absent"

\* With one fault at most, whatever fails finds a single copy of a job, and the
\* duplicates that it causes cannot take the last trace of a pending job away.
LossInv == SingleCopies /\ PendingGuarded /\ SweepsEnd /\ OneShutdown /\ RowsRemain

-----------------------------------------------------------------------------
(* The abstract specification.                                             *)

\* The steps of a job that its rows show as succeeded.
StepsDone == [j \in Jobs |-> {s \in Steps : stepStatus[j][s] = "succeeded"}]

\* How far the submitting request is, as far as the job is concerned.
RequestStage ==
  [j \in Jobs |-> CASE submit[j] = "none" -> "none"
                    [] submit[j] = "created" -> "open"
                    [] submit[j] = "failing" -> "failing"
                    [] OTHER -> "over"]

Lifecycle == INSTANCE JobLifecycle WITH
  state <- status, holder <- owner, done <- StepsDone, request <- RequestStage

\* Deliveries, leases, duplicates, crashes and sweeps amount to the life of a
\* job: opened once, under one holder at a time, advanced and ended only by its
\* holder, with successes that accumulate.
ImplementsLifecycle == Lifecycle!Spec

-----------------------------------------------------------------------------
(* Liveness.                                                               *)

\* Workers and reapers keep running and agents return; a lease that nobody
\* renews runs out.  Nothing is assumed of the heartbeat.
Fairness ==
  /\ \A w \in Workers : WF_vars(Work(w))
  /\ \A r \in Reapers : WF_vars(Reap(r))
  /\ \A j \in Jobs : /\ WF_vars(QueueLapse(j) /\ UNCHANGED faults)
                     /\ WF_vars(StoreLapse(j) /\ UNCHANGED faults)

FairSpec == Spec /\ Fairness

\* Every accepted job ends.
JobsEnd == \A j \in Jobs : submit[j] = "accepted" ~> Terminal(j)

\* Every accepted job ends up out of the queue, whoever crashed before its ack
\* and however many copies the reapers added.
QueueDrains ==
  \A j \in Jobs : submit[j] = "accepted" ~>
    [](leases[j] = "none" /\ \A i \in DOMAIN ready : ready[i] # j)

=============================================================================
