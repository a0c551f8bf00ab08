---------------------------- MODULE LeaseTiming ----------------------------
(***************************************************************************)
(* The timing of one delivery in process and holdLease of                  *)
(* internal/jobs/jobs.go, in ticks of a clock that both leases are         *)
(* measured by: a lease is running as long as its age is below Lease.      *)
(* Service lets a lease lapse under a worker only as a fault, "pause";     *)
(* this module says when that is justified, a shutdown included, which     *)
(* ends holdLease while the run goes on.  Nothing in the code bounds the   *)
(* renewals of holdLease and the calls before the run: Latency does.  Nor  *)
(* is there a bound on how long a run that is cancelled takes to return:   *)
(* its agents have to notice, and then every step of the wave is written   *)
(* with up to stepWriteTimeout, one after the other.  DrainTime is it.     *)
(***************************************************************************)
EXTENDS Naturals

CONSTANTS
  Lease,          \* Config.lease()
  Interval,       \* Config.heartbeat()
  FinishTimeout,  \* finishTimeout
  Latency,        \* bounds the time between two effects of one goroutine
  DrainTime,      \* bounds the time that a cancelled run takes to return
  MaxOutage,      \* bounds the time that failing heartbeats lose in a row
  MaxAge          \* bounds the time after the last renewal

\* The heartbeat is back before its ticker fires again, and what may pass
\* between two renewals leaves room for the writes behind the run.
ASSUME TimingAssumption ==
  /\ Lease \in Nat /\ Interval \in Nat /\ FinishTimeout \in Nat
  /\ Latency \in Nat /\ DrainTime \in Nat /\ MaxOutage \in Nat /\ MaxAge \in Nat
  /\ 2 * Latency < Interval
  /\ MaxOutage + Interval + 5 * Latency + FinishTimeout < Lease

\* There is room for a drain as well.  The assumption does without, since no
\* setting of the configuration has an influence on DrainTime.
DrainFits == MaxOutage + Interval + 5 * Latency + DrainTime + FinishTimeout < Lease

VARIABLES
  worker,    \* where process is; "claim" is Queue.Claim
  stopping,  \* the worker's context is cancelled
  beat,      \* where holdLease is: "off", "wait", or in its call on "store" or "queue"
  stepAge,   \* time since the worker's last effect, or in a run since it started
             \* or was cancelled
  tick,      \* time since the heartbeat's ticker fired
  outage,    \* time lost by heartbeats that failed since one succeeded
  storeAge,  \* time since the now() that lease_expires_at was set from
  queueAge   \* time since the deadline in Redis was computed

leaseVars == <<storeAge, queueAge>>
timingVars == <<worker, stopping, beat, stepAge, tick, outage, leaseVars>>

\* Queue.Claim has computed the deadline that it sends.
Init ==
  /\ worker = "claim" /\ stopping = FALSE /\ beat = "off"
  /\ stepAge = 0 /\ tick = 0 /\ outage = 0 /\ storeAge = 0 /\ queueAge = 0

\* claimScript sets the lease in Redis.
Claim ==
  /\ worker = "claim"
  /\ worker' = "claimed" /\ stepAge' = 0
  /\ UNCHANGED <<stopping, beat, tick, outage, leaseVars>>

\* ClaimJob.  The database reads its clock while the call is under way.
TakeJob ==
  /\ worker = "claimed"
  /\ worker' = "event" /\ stepAge' = 0
  /\ storeAge' \in 0..stepAge
  /\ UNCHANGED <<stopping, beat, tick, outage, queueAge>>

\* job.running is recorded, the ticker and the run start.  In a context that is
\* cancelled, holdLease returns at once.
StartRun ==
  /\ worker = "event"
  /\ worker' = "run" /\ stepAge' = 0
  /\ beat' = IF stopping THEN "off" ELSE "wait"
  /\ tick' = 0
  /\ UNCHANGED <<stopping, outage, leaseVars>>

\* The ticker fires.
Fire ==
  /\ worker = "run" /\ beat = "wait" /\ tick = Interval
  /\ beat' = "store" /\ tick' = 0
  /\ UNCHANGED <<worker, stopping, stepAge, outage, leaseVars>>

\* holdLease is in its call, in a context that is not cancelled.
Renewing(call) == worker = "run" /\ ~stopping /\ beat = call

\* ExtendLease sets the store's lease from a now() behind the tick.
StoreRenewed == storeAge' \in 0..tick

\* Queue.Extend computes its deadline behind ExtendLease.
QueueRenewed == queueAge' \in 0..storeAge

ExtendStore ==
  /\ Renewing("store")
  /\ beat' = "queue" /\ StoreRenewed
  /\ UNCHANGED <<worker, stopping, stepAge, tick, outage, queueAge>>

\* Mutation of ExtendQueue: the lease in Redis is not renewed.
ExtendQueueOmitted ==
  /\ Renewing("queue")
  /\ beat' = "wait" /\ outage' = 0
  /\ UNCHANGED <<worker, stopping, stepAge, tick, leaseVars>>

ExtendQueue ==
  /\ Renewing("queue")
  /\ beat' = "wait" /\ QueueRenewed /\ outage' = 0
  /\ UNCHANGED <<worker, stopping, stepAge, tick, storeAge>>

\* The heartbeat gives up until the next tick.
Miss ==
  /\ outage + Interval <= MaxOutage
  /\ outage' = outage + Interval
  /\ beat' = "wait"
  /\ UNCHANGED <<worker, stopping, stepAge, tick>>

\* Mutation of ExtendStoreFails: the queue is renewed nevertheless.
ExtendStoreFailsOn ==
  /\ Renewing("store")
  /\ beat' = "queue"
  /\ UNCHANGED <<worker, stopping, stepAge, tick, outage, leaseVars>>

\* ExtendLease fails, with or without an effect.
ExtendStoreFails ==
  /\ Renewing("store")
  /\ Miss
  /\ StoreRenewed \/ UNCHANGED storeAge
  /\ UNCHANGED queueAge

ExtendQueueFails ==
  /\ Renewing("queue")
  /\ Miss
  /\ QueueRenewed \/ UNCHANGED queueAge
  /\ UNCHANGED storeAge

\* A signal cancels the context of the worker, and with it a run and its
\* holdLease: it returns, from a call under way as soon as that fails.
Shutdown ==
  /\ worker # "done" /\ ~stopping
  /\ stopping' = TRUE
  /\ beat' = IF beat = "wait" THEN "off" ELSE beat
  /\ stepAge' = IF worker = "run" THEN 0 ELSE stepAge
  /\ UNCHANGED <<worker, tick, outage, leaseVars>>

\* runJob returns, its context is cancelled and the heartbeat is awaited.
RunOver ==
  /\ worker = "run"
  /\ worker' = IF beat \in {"off", "wait"} THEN "finish" ELSE "await"
  /\ beat' = IF beat = "wait" THEN "off" ELSE beat
  /\ stepAge' = 0
  /\ UNCHANGED <<stopping, tick, outage, leaseVars>>

\* The heartbeat that was under way when its context was cancelled returns; the
\* call may have had its effect.  A call made after that has none.
LastBeat ==
  /\ beat \in {"store", "queue"} /\ (worker = "await" \/ stopping)
  /\ beat' = "off"
  /\ worker' = IF worker = "await" THEN "finish" ELSE worker
  /\ stepAge' = IF worker = "await" THEN 0 ELSE stepAge
  /\ \/ UNCHANGED leaseVars
     \/ beat = "store" /\ StoreRenewed /\ UNCHANGED queueAge
     \/ beat = "queue" /\ QueueRenewed /\ UNCHANGED storeAge
  /\ UNCHANGED <<stopping, tick, outage>>

\* FinishJob or ReleaseJob, and then Ack or Requeue, within finishTimeout and in a
\* context that no shutdown cancels.
FinishJob ==
  /\ worker = "finish"
  /\ worker' = "ack"
  /\ UNCHANGED <<stopping, beat, stepAge, tick, outage, leaseVars>>

Ack ==
  /\ worker = "ack"
  /\ worker' = "done"
  /\ UNCHANGED <<stopping, beat, stepAge, tick, outage, leaseVars>>

\* RunWorker or process goes on without the job: Claim failed, ClaimJob failed or
\* refused the job, the job was dead-lettered, or the final context expired.
GiveUp ==
  /\ worker \in {"claim", "claimed", "event", "finish", "ack"}
  /\ worker' = "done"
  /\ UNCHANGED <<stopping, beat, stepAge, tick, outage, leaseVars>>

\* The process dies, and the leases run on.
Crash ==
  /\ worker # "done"
  /\ worker' = "done" /\ beat' = "off"
  /\ UNCHANGED <<stopping, stepAge, tick, outage, leaseVars>>

\* A run that nobody cancels may last, and a worker that is done has no age.
Ageless == worker = "done" \/ (worker = "run" /\ ~stopping /\ stepAge = Lease)

\* Time passes, but nothing that is due is late.
Tick ==
  /\ storeAge < MaxAge
  /\ worker \in {"claim", "claimed", "event"} => stepAge < Latency
  /\ worker = "run" /\ stopping => stepAge < DrainTime
  /\ worker \in {"finish", "ack"} => stepAge < FinishTimeout
  /\ beat = "wait" => tick < Interval
  /\ beat = "store" => tick < Latency
  /\ beat = "queue" => tick < 2 * Latency
  /\ stepAge' = IF Ageless THEN stepAge ELSE stepAge + 1
  /\ tick' = IF beat = "off" THEN tick ELSE tick + 1
  /\ storeAge' = storeAge + 1
  /\ queueAge' = queueAge + 1
  /\ UNCHANGED <<worker, stopping, beat, outage>>

Next ==
  \/ Claim \/ TakeJob \/ StartRun \/ RunOver \/ LastBeat \/ FinishJob \/ Ack \/ GiveUp
  \/ Shutdown \/ Crash \/ Fire \/ ExtendStore \/ ExtendStoreFails \/ ExtendQueue \/ ExtendQueueFails
  \/ Tick

Spec == Init /\ [][Next]_timingVars

-----------------------------------------------------------------------------

\* Nothing is out of its type, and the heartbeat runs beside the run only.
TypeOK ==
  /\ worker \in {"claim", "claimed", "event", "run", "await", "finish", "ack", "done"}
  /\ stopping \in BOOLEAN
  /\ beat \in {"off", "wait", "store", "queue"}
  /\ worker = "run" => (stopping => beat # "wait") /\ (~stopping => beat # "off")
  /\ worker = "await" => beat \in {"store", "queue"}
  /\ worker \notin {"run", "await"} => beat = "off"
  /\ stepAge \in Nat /\ tick \in Nat /\ outage \in 0..MaxOutage
  /\ storeAge \in Nat /\ queueAge \in Nat

\* From its claim to its last write a worker that is alive has both leases:
\* heartbeats that fail for up to MaxOutage, a renewal cut short by the end of
\* the run and writes that take all of finishTimeout included; and in a shutdown,
\* where nothing is renewed while the run drains, if there is room for the drain.
\* How long the run lasts does not matter, where the README of the program (lease_ms)
\* has a job taken away that is slower than its lease.
LeasesCoverWorker ==
  (stopping => DrainFits) =>
    /\ worker \in {"event", "run", "await", "finish"} => storeAge < Lease
    /\ worker \notin {"claim", "done"} => queueAge < Lease

\* However the worker ended, the lease in Redis is past before the grace period
\* of ReclaimExpiredJobs is: the store's sweep never takes a job from a worker
\* whose delivery the queue still protects.
QueueSweepComesFirst == storeAge >= 2 * Lease => queueAge >= Lease

-----------------------------------------------------------------------------
(* The parts of the inductive invariant.                                   *)

\* Before the run, the calls made so far are all that has passed.
BeforeRun ==
  /\ worker = "claim" => stepAge <= Latency /\ queueAge <= stepAge
  /\ worker = "claimed" => stepAge <= Latency /\ queueAge <= Latency + stepAge
  /\ worker = "event" =>
       /\ stepAge <= Latency
       /\ storeAge <= Latency + stepAge
       /\ queueAge <= 2 * Latency + stepAge

\* Beside the run, an age is the time since the ticker fired, the interval before
\* it once the call is due again, the outage, and what passed before the run.
BesideRun ==
  /\ beat = "wait" =>
       /\ tick <= Interval
       /\ storeAge <= outage + tick + 2 * Latency
       /\ queueAge <= outage + tick + 3 * Latency
  /\ beat = "store" =>
       /\ tick <= Latency
       /\ storeAge <= outage + Interval + tick + 2 * Latency
       /\ queueAge <= outage + Interval + tick + 3 * Latency
  /\ beat = "queue" =>
       /\ tick <= 2 * Latency
       /\ storeAge <= tick
       /\ queueAge <= outage + Interval + tick + 3 * Latency

\* What may have passed when holdLease returns.
LongestGap == MaxOutage + Interval + 5 * Latency

\* In a run that drains, nothing is renewed any more.
BesideDrain ==
  worker = "run" /\ stopping =>
    /\ stepAge <= DrainTime
    /\ beat = "off" => storeAge <= LongestGap + stepAge /\ queueAge <= LongestGap + stepAge

Drained == IF stopping THEN DrainTime ELSE 0

\* Behind the run, nothing is renewed either.
BehindRun ==
  worker \in {"finish", "ack"} =>
    /\ stepAge <= FinishTimeout
    /\ storeAge <= LongestGap + Drained + stepAge
    /\ queueAge <= LongestGap + Drained + stepAge

\* The store's lease is renewed first, the queue's right behind it.
StoreLeads == storeAge <= queueAge + 2 * Latency

TimingInv == TypeOK /\ BeforeRun /\ BesideRun /\ BesideDrain /\ BehindRun /\ StoreLeads

=============================================================================
