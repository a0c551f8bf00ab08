------------------------------- MODULE Store -------------------------------
(***************************************************************************)
(* The PostgreSQL store of internal/jobs/store.go: the job rows, the step  *)
(* rows and, of the event log, the entries that end a job's event stream.  *)
(* Every SQL statement is one atomic action; a WHERE clause that selects   *)
(* no row leaves the tables alone and is reported to the caller.           *)
(*                                                                         *)
(* lease_expires_at is abstracted to what a WHERE clause can see of it:    *)
(* NULL, in the future, past, or past by more than the grace period that   *)
(* ReclaimExpiredJobs waits.                                               *)
(***************************************************************************)
EXTENDS Identities, Workflow

VARIABLES
  status,      \* workflow_jobs.status; "absent" is a job without a row
  owner,       \* workflow_jobs.owner
  leaseUntil,  \* workflow_jobs.lease_expires_at
  attempts,    \* workflow_jobs.attempts
  jobError,    \* workflow_jobs.error: which path wrote it, "" when none did
  stepStatus,  \* workflow_steps.status, by job and ordinal
  events       \* terminal types recorded in workflow_events, by job

storeVars == <<status, owner, leaseUntil, attempts, jobError, stepStatus, events>>

\* jobs.IsTerminal.
TerminalEvents == {"job.completed", "job.dead_lettered"}

StoreTypeOK ==
  /\ status \in [Jobs -> {"absent", "pending", "running", "succeeded", "failed"}]
  /\ owner \in [Jobs -> Workers \cup {None}]
  /\ leaseUntil \in [Jobs -> {"null", "live", "expired", "graced"}]
  /\ attempts \in [Jobs -> Nat]
  /\ jobError \in [Jobs -> {"", "workflow", "config", "dead letter", "enqueue"}]
  /\ stepStatus \in [Jobs -> [Steps -> {"pending", "running"} \cup StepOutcomes]]
  /\ events \in [Jobs -> SUBSET TerminalEvents]

EmptyStore ==
  /\ status = [j \in Jobs |-> "absent"]
  /\ owner = [j \in Jobs |-> None]
  /\ leaseUntil = [j \in Jobs |-> "null"]
  /\ attempts = [j \in Jobs |-> 0]
  /\ jobError = [j \in Jobs |-> ""]
  /\ stepStatus = [j \in Jobs |-> [s \in Steps |-> "pending"]]
  /\ events = [j \in Jobs |-> {}]

Terminal(j) == status[j] \in {"succeeded", "failed"}

-----------------------------------------------------------------------------

\* Create: the job and all its steps, in one transaction.
CreateJob(j) ==
  /\ status[j] = "absent"
  /\ status' = [status EXCEPT ![j] = "pending"]
  /\ UNCHANGED <<owner, leaseUntil, attempts, jobError, stepStatus, events>>

\* Mutation of Claimable: the lease that is still running is not looked at.
ClaimableAnyLease(j, w) == status[j] \in {"pending", "running"}

\* The WHERE clause of ClaimJob.
Claimable(j, w) ==
  /\ status[j] \in {"pending", "running"}
  /\ \/ owner[j] \in {None, w}
     \/ leaseUntil[j] \in {"null", "expired", "graced"}

\* ClaimJob: takes the job over and counts the delivery.
ClaimJob(j, w) ==
  /\ Claimable(j, w)
  /\ status' = [status EXCEPT ![j] = "running"]
  /\ owner' = [owner EXCEPT ![j] = w]
  /\ leaseUntil' = [leaseUntil EXCEPT ![j] = "live"]
  /\ attempts' = [attempts EXCEPT ![j] = @ + 1]
  /\ UNCHANGED <<jobError, stepStatus, events>>

\* The WHERE clause of ExtendLease and of ReleaseJob.
StoreHeld(j, w) == owner[j] = w /\ status[j] = "running"

\* ExtendLease.
ExtendLease(j, w) ==
  /\ leaseUntil' = IF StoreHeld(j, w) THEN [leaseUntil EXCEPT ![j] = "live"]
                                      ELSE leaseUntil
  /\ UNCHANGED <<status, owner, attempts, jobError, stepStatus, events>>

\* Mutation of FinishHeld: the outcome is recorded whoever owns the job.
FinishHeldByAnyone(j, who) == status[j] # "absent"

\* The WHERE clause of FinishJob.  The empty owner, None here, matches NULL;
\* the status the row has is not looked at.
FinishHeld(j, who) == status[j] # "absent" /\ owner[j] = who

\* FinishJob.
FinishJob(j, who, st, err) ==
  /\ IF FinishHeld(j, who)
     THEN /\ status' = [status EXCEPT ![j] = st]
          /\ owner' = [owner EXCEPT ![j] = None]
          /\ leaseUntil' = [leaseUntil EXCEPT ![j] = "null"]
          /\ jobError' = [jobError EXCEPT ![j] = err]
     ELSE UNCHANGED <<status, owner, leaseUntil, jobError>>
  /\ UNCHANGED <<attempts, stepStatus, events>>

\* The jobs S go back to pending, unowned: the SET clause that ReleaseJob and
\* ReclaimExpiredJobs share.
ToPending(S) ==
  /\ status' = [j \in Jobs |-> IF j \in S THEN "pending" ELSE status[j]]
  /\ owner' = [j \in Jobs |-> IF j \in S THEN None ELSE owner[j]]
  /\ leaseUntil' = [j \in Jobs |-> IF j \in S THEN "null" ELSE leaseUntil[j]]
  /\ UNCHANGED <<attempts, jobError, stepStatus, events>>

\* ReleaseJob.
ReleaseJob(j, w) == ToPending(IF StoreHeld(j, w) THEN {j} ELSE {})

\* Mutation of Orphaned: the lease is not looked at.
OrphanedAnyLease == {j \in Jobs : status[j] = "running"}

\* The jobs ReclaimExpiredJobs may return to pending.  A job that is already
\* pending is not among them.
Orphaned == {j \in Jobs : status[j] = "running" /\ leaseUntil[j] = "graced"}

\* ReclaimExpiredJobs, for the batch B of orphaned jobs.
ReclaimExpiredJobs(B) == ToPending(B)

\* The WHERE clause of ClaimStep: still the owner, and not succeeded yet.
StepClaimable(j, s, w) == owner[j] = w /\ stepStatus[j][s] # "succeeded"

\* ClaimStep.
ClaimStep(j, s, w) ==
  /\ stepStatus' = IF StepClaimable(j, s, w)
                   THEN [stepStatus EXCEPT ![j][s] = "running"] ELSE stepStatus
  /\ UNCHANGED <<status, owner, leaseUntil, attempts, jobError, events>>

\* Mutation of UpdateStep: the write is not fenced on the lease.
UpdateStepUnfenced(j, s, w, result) ==
  /\ stepStatus' = [stepStatus EXCEPT ![j][s] = result]
  /\ UNCHANGED <<status, owner, leaseUntil, attempts, jobError, events>>

\* UpdateStep, fenced on the lease: it lands only for the owner.
UpdateStep(j, s, w, result) ==
  /\ stepStatus' = IF owner[j] = w THEN [stepStatus EXCEPT ![j][s] = result]
                                   ELSE stepStatus
  /\ UNCHANGED <<status, owner, leaseUntil, attempts, jobError, events>>

\* AppendEvent, for the types that end an event stream.
AppendEvent(j, type) ==
  /\ events' = [events EXCEPT ![j] = @ \cup {type}]
  /\ UNCHANGED <<status, owner, leaseUntil, attempts, jobError, stepStatus>>

\* Time passes the lease, and then the grace period after it.
StoreLeaseExpires(j) ==
  /\ leaseUntil[j] \in {"live", "expired"}
  /\ leaseUntil' = [leaseUntil EXCEPT ![j] = IF @ = "live" THEN "expired" ELSE "graced"]
  /\ UNCHANGED <<status, owner, attempts, jobError, stepStatus, events>>

=============================================================================
