---------------------------- MODULE LossProofs -----------------------------
(***************************************************************************)
(* No accepted job is lost, with any number of jobs, workers and reapers,  *)
(* when one thing fails at most and Redis keeps its data.  Until the fault *)
(* every job has one copy, so the fault finds nothing that an ack could    *)
(* take away; after it nothing fails, and then every pending job stays in  *)
(* the ready list, in a process's hands or under a lease nobody attends to.*)
(***************************************************************************)
EXTENDS FenceProofs

-----------------------------------------------------------------------------
(* What the statements of the store make of a job's status.                *)

\* ClaimJob starts its job and leaves the others alone.
LEMMA ClaimStatus ==
  ASSUME StoreTypeOK, NEW j \in Jobs, NEW k, NEW w, ClaimJob(k, w)
  PROVE  status'[j] = IF j = k THEN "running" ELSE status[j]
<1>1. status' = [status EXCEPT ![k] = "running"]
  BY DEF ClaimJob
<1>2. DOMAIN status = Jobs
  BY DEF StoreTypeOK
<1> QED
  BY <1>1, <1>2

\* FinishJob ends its job, if the caller holds it, and leaves the others alone.
LEMMA FinishStatus ==
  ASSUME StoreTypeOK, NEW j \in Jobs, NEW k, NEW who, NEW st, NEW err, FinishJob(k, who, st, err)
  PROVE  status'[j] = IF j = k /\ FinishHeld(k, who) THEN st ELSE status[j]
<1>1. IF FinishHeld(k, who) THEN status' = [status EXCEPT ![k] = st] ELSE status' = status
  BY DEF FinishJob
<1>2. DOMAIN status = Jobs
  BY DEF StoreTypeOK
<1> QED
  BY <1>1, <1>2

\* Jobs that are returned to pending are pending, and the others keep their status.
LEMMA PendingStatus ==
  ASSUME NEW j \in Jobs, NEW S, ToPending(S)
  PROVE  status'[j] = IF j \in S THEN "pending" ELSE status[j]
BY DEF ToPending

-----------------------------------------------------------------------------
(* The copies of a job in the ready list.                                  *)

Lacks(q, j) == \A i \in DOMAIN q : q[i] # j
Once(q, j) == \A i, k \in DOMAIN q : q[i] = j /\ q[k] = j => i = k

\* A job is pushed behind the others.
LEMMA AppendCopies ==
  ASSUME NEW q \in Seq(Jobs), NEW j \in Jobs, NEW k \in Jobs
  PROVE  /\ ~Lacks(Append(q, j), j)
         /\ Lacks(q, j) => Once(Append(q, j), j)
         /\ ~Lacks(q, k) => ~Lacks(Append(q, j), k)
         /\ j # k => /\ Lacks(q, k) => Lacks(Append(q, j), k)
                     /\ Once(q, k) => Once(Append(q, j), k)
<1> DEFINE p == Append(q, j)
<1>1. /\ DOMAIN p = 1..(Len(q) + 1) /\ DOMAIN q = 1..Len(q) /\ Len(q) \in Nat
      /\ \A i \in 1..Len(q) : p[i] = q[i]
      /\ p[Len(q) + 1] = j
  BY AppendProperties
<1> HIDE DEF p
<1>2. ~Lacks(p, j)
  BY <1>1 DEF Lacks
<1>3. Lacks(q, j) => Once(p, j)
  BY <1>1 DEF Lacks, Once
<1>4. ~Lacks(q, k) => ~Lacks(p, k)
  BY <1>1 DEF Lacks
<1>5. j # k => (Lacks(q, k) => Lacks(p, k)) /\ (Once(q, k) => Once(p, k))
  BY <1>1 DEF Lacks, Once
<1> QED
  BY <1>2, <1>3, <1>4, <1>5 DEF p

\* The job in front is popped.
LEMMA TailCopies ==
  ASSUME NEW q \in Seq(Jobs), q # <<>>, NEW k \in Jobs
  PROVE  /\ ~Lacks(q, Head(q))
         /\ Once(q, Head(q)) => Lacks(Tail(q), Head(q))
         /\ Lacks(q, k) => Lacks(Tail(q), k)
         /\ Head(q) # k => /\ ~Lacks(q, k) => ~Lacks(Tail(q), k)
                           /\ Once(q, k) => Once(Tail(q), k)
<1> DEFINE p == Tail(q)
           n == Len(q)
<1>1. /\ DOMAIN p = 1..(n - 1) /\ DOMAIN q = 1..n /\ n \in Nat /\ n # 0
      /\ \A i \in 1..(n - 1) : p[i] = q[i + 1]
      /\ Head(q) = q[1]
  BY HeadTailProperties
<1> HIDE DEF p, n
<1>2. ~Lacks(q, Head(q))
  BY <1>1 DEF Lacks
<1>3. Once(q, Head(q)) => Lacks(p, Head(q))
  <2> SUFFICES ASSUME Once(q, Head(q)), NEW i \in 1..(n - 1) PROVE p[i] # Head(q)
    BY <1>1 DEF Lacks
  <2>1. i + 1 \in DOMAIN q /\ 1 \in DOMAIN q /\ i + 1 # 1
    BY <1>1
  <2> QED
    BY <1>1, <2>1 DEF Once
<1>4. Lacks(q, k) => Lacks(p, k)
  <2>1. \A i \in 1..(n - 1) : i + 1 \in 1..n
    BY <1>1
  <2> QED
    BY <1>1, <2>1 DEF Lacks
<1>5. ASSUME Head(q) # k, ~Lacks(q, k) PROVE ~Lacks(p, k)
  <2>1. PICK i \in 1..n : q[i] = k
    BY <1>1, <1>5 DEF Lacks
  <2>2. i - 1 \in 1..(n - 1) /\ (i - 1) + 1 = i
    BY <1>1, <1>5, <2>1
  <2>3. p[i - 1] = k
    BY <1>1, <2>1, <2>2
  <2> QED
    BY <1>1, <2>2, <2>3 DEF Lacks
<1>6. ASSUME Head(q) # k, Once(q, k) PROVE Once(p, k)
  <2> SUFFICES ASSUME NEW i \in 1..(n - 1), NEW m \in 1..(n - 1), p[i] = k, p[m] = k PROVE i = m
    BY <1>1 DEF Once
  <2>1. i + 1 \in DOMAIN q /\ m + 1 \in DOMAIN q /\ q[i + 1] = k /\ q[m + 1] = k
    BY <1>1
  <2>2. i + 1 = m + 1
    BY <1>6, <2>1 DEF Once
  <2> QED
    BY <2>2
<1> QED
  BY <1>2, <1>3, <1>4, <1>5, <1>6 DEF p

\* What a sweep pushes is each of the jobs it recovered.
LEMMA SweepListsAll ==
  ASSUME NEW B \in SUBSET Jobs, NEW p \in SetToSeqs(B)
  PROVE  /\ \A i \in DOMAIN p : p[i] \in B
         /\ \A b \in B : \E i \in DOMAIN p : p[i] = b
<1> DEFINE c == Cardinality(B)
<1>1. IsFiniteSet(B) /\ c \in Nat
  BY FS_Subset, FS_CardinalityType, IdentityAssumption DEF IdentityAssumption
<1>2. p \in [1..c -> B] /\ \A i, k \in 1..c : i # k => p[i] # p[k]
  BY DEF SetToSeqs
<1>3. IsFiniteSet(1..c) /\ Cardinality(1..c) = c
  <2>1. c \in Int /\ 1 \in Int
    BY <1>1
  <2> HIDE DEF c
  <2>2. IsFiniteSet(1..c) /\ Cardinality(1..c) = IF 1 > c THEN 0 ELSE c - 1 + 1
    BY <2>1, FS_Interval
  <2> QED
    BY <1>1, <2>2
<1>4. p \in Injection(1..c, B)
  BY <1>2 DEF Injection, IsInjective
<1>5. p \in Surjection(1..c, B)
  BY <1>1, <1>3, <1>4, FS_Injection
<1> QED
  BY <1>2, <1>5 DEF Surjection

\* A sweep pushes the jobs it recovered behind the others.
LEMMA ConcatCopies ==
  ASSUME NEW q \in Seq(Jobs), NEW B \in SUBSET Jobs, NEW p \in SetToSeqs(B), NEW k \in Jobs
  PROVE  /\ ~Lacks(q, k) => ~Lacks(q \o p, k)
         /\ k \in B => ~Lacks(q \o p, k)
         /\ k \notin B => /\ Lacks(q, k) => Lacks(q \o p, k)
                          /\ Once(q, k) => Once(q \o p, k)
<1> DEFINE r == q \o p
           n == Len(q)
           m == Len(p)
<1>1. p \in Seq(Jobs)
  BY SetToSeqsType
<1>2. /\ DOMAIN r = 1..(n + m) /\ DOMAIN q = 1..n /\ DOMAIN p = 1..m /\ n \in Nat /\ m \in Nat
      /\ \A i \in 1..(n + m) : r[i] = IF i <= n THEN q[i] ELSE p[i - n]
  BY <1>1, ConcatProperties
<1>3. /\ \A i \in DOMAIN p : p[i] \in B
      /\ \A b \in B : \E i \in DOMAIN p : p[i] = b
  BY SweepListsAll
<1> HIDE DEF r, n, m
<1>4. \A i \in 1..n : i \in 1..(n + m) /\ r[i] = q[i]
  BY <1>2
<1>5. ~Lacks(q, k) => ~Lacks(r, k)
  BY <1>2, <1>4 DEF Lacks
<1>6. \A i \in 1..m : i + n \in 1..(n + m) /\ r[i + n] = p[i]
  BY <1>2
<1>7. k \in B => ~Lacks(r, k)
  BY <1>2, <1>3, <1>6 DEF Lacks
<1>8. \A i \in 1..(n + m) : i \in 1..n \/ i - n \in 1..m
  BY <1>2
<1>9. k \notin B => \A i \in 1..(n + m) : r[i] = k => i \in 1..n /\ q[i] = k
  <2> SUFFICES ASSUME k \notin B, NEW i \in 1..(n + m), r[i] = k PROVE i \in 1..n /\ q[i] = k
    OBVIOUS
  <2>1. CASE i \in 1..n
    BY <1>4, <2>1
  <2>2. CASE i \notin 1..n
    <3>1. i - n \in 1..m /\ (i - n) + n = i
      BY <1>2, <1>8, <2>2
    <3>2. r[i] = p[i - n]
      BY <1>6, <3>1
    <3> QED
      BY <1>2, <1>3, <3>1, <3>2
  <2> QED
    BY <2>1, <2>2
<1>10. k \notin B => (Lacks(q, k) => Lacks(r, k)) /\ (Once(q, k) => Once(r, k))
  BY <1>2, <1>9 DEF Lacks, Once
<1> QED
  BY <1>5, <1>7, <1>10 DEF r
-----------------------------------------------------------------------------
(* What a step leaves of a job.                                            *)

RowKept(j) == status'[j] = status[j] /\ owner'[j] = owner[j] /\ leaseUntil'[j] = leaseUntil[j]

CopiesKept(j) ==
  /\ leases'[j] = leases[j] /\ owners'[j] = owners[j]
  /\ Lacks(ready', j) <=> Lacks(ready, j)
  /\ Once(ready, j) => Once(ready', j)

HandsKept(j) ==
  /\ \A v \in Workers : /\ job'[v] = j <=> job[v] = j
                        /\ job[v] = j => pc'[v] = pc[v] /\ (stopping[v] => stopping'[v])
  /\ \A r \in Reapers : j \in orphans'[r] <=> j \in orphans[r]

Untouched(j) == submit'[j] = submit[j] /\ RowKept(j) /\ CopiesKept(j) /\ HandsKept(j)

\* A job that a step does not touch stays in order.
LEMMA UntouchedOrder ==
  ASSUME NEW j \in Jobs, Untouched(j), InOrder(j)
  PROVE  InOrder(j)'
<1> USE DEF Untouched, RowKept, CopiesKept, HandsKept, Lacks, Once
<1>1. Nowhere(j) => Nowhere(j)'
  BY DEF Nowhere, Unattended
<1>2. Waiting(j) => Waiting(j)'
  BY DEF Waiting, Unattended
<1>3. ASSUME NEW w \in Workers, Delivered(j, w) PROVE Delivered(j, w)'
  BY <1>3 DEF Delivered, RowFits, Held, Terminal
<1> QED
  BY <1>1, <1>2, <1>3 DEF InOrder, Terminal

\* A job that a step does not touch stays safe.
LEMMA UntouchedGuarded ==
  ASSUME NEW j \in Jobs, Untouched(j), Guarded(j)
  PROVE  Guarded(j)'
BY DEF Untouched, CopiesKept, HandsKept, Guarded, Firm, Unattended, Lacks

\* What a worker does to the queue, it does to the job it processes or to the
\* one it claims; requests and reapers it leaves alone.
LEMMA WorkerQueue ==
  ASSUME TypeOK, NEW w \in Workers, WorkerStep(w)
  PROVE  /\ UNCHANGED <<submit, reaperVars>>
         /\ \A v \in Workers : stopping[v] => stopping'[v]
         /\ \/ /\ job'[w] \in {job[w], None}
               /\ \/ UNCHANGED <<ready, leases, owners>>
                  \/ Extend(job[w], w)
                  \/ Ack(job[w])
                  \/ pc[w] = "requeue" /\ Requeue(job[w])
            \/ QueueClaim(w)
            \/ QueueClaimLost(w)
<1> USE DEF TypeOK, WorkerTypeOK, workerVars, queueVars
<1>1. ASSUME Leave(w) PROVE job'[w] = None /\ UNCHANGED stopping
  BY <1>1 DEF Leave, Discard
<1>2. CASE QueueClaim(w) \/ QueueClaimLost(w) \/ Park(w) \/ Wake(w) \/ Stop(w)
  BY <1>2 DEF QueueClaim, QueueClaimLost, Park, Wake, Stop, BRPop
<1>3. CASE TakeJob(w) \/ RefuseJob(w) \/ TakeJobFails(w)
  BY <1>1, <1>3 DEF TakeJob, RefuseJob, TakeJobFails
<1>4. CASE Drop(w) \/ DeadLetter(w) \/ DeadLog(w)
  BY <1>1, <1>4 DEF Drop, DeadLetter, DeadLog
<1>5. CASE Load(w) \/ LoadUnresolved(w) \/ LoadFails(w) \/ StartWave(w) \/ EndRun(w)
  BY <1>5 DEF Load, LoadUnresolved, LoadFails, StartWave, EndRun, RunEnds
<1>6. CASE \E s \in Steps : RunStep(w, s)
  BY <1>6 DEF RunStep, CallAgent, RefuseStep, ClaimStepFails, AgentSucceeds, AgentFails,
              RetryStep, FailStep, Drain
<1>7. CASE AbandonLost(w) \/ AbandonReleased(w) \/ AbandonFails(w) \/ RequeueJob(w)
  BY <1>1, <1>7 DEF AbandonLost, AbandonReleased, AbandonFails, RequeueJob
<1>8. CASE WriteResult(w) \/ LogCompleted(w) \/ AckJob(w)
  BY <1>1, <1>8 DEF WriteResult, LogCompleted, AckJob
<1>9. CASE Finish(w) \/ FinishFails(w)
  BY <1>1, <1>9 DEF Finish, FinishFails
<1>10. CASE Beat(w)
  BY <1>10 DEF Beat, BeatStore, BeatStoreFails, BeatQueue, BeatQueueFails
<1>11. CASE Crash(w) \/ Shutdown(w)
  BY <1>11 DEF Crash, Shutdown, Discard
<1> QED
  BY <1>2, <1>3, <1>4, <1>5, <1>6, <1>7, <1>8, <1>9, <1>10, <1>11 DEF WorkerStep, Work

\* The row of a job is touched by the worker that processes it.
LEMMA AwayRow ==
  ASSUME TypeOK, NEW w \in Workers, WorkerStep(w), NEW j \in Jobs, job[w] # j
  PROVE  RowKept(j)
<1> USE DEF TypeOK, StoreTypeOK, RowKept
<1>1. CASE RowsOnly
  BY <1>1 DEF RowsOnly
<1>2. CASE Renews(w)
  BY <1>2 DEF Renews, ExtendLease
<1>3. CASE Releases(w)
  BY <1>3 DEF Releases, ReleaseJob, ToPending
<1>4. CASE Claims(w)
  BY <1>4 DEF Claims, ClaimJob
<1>5. CASE Ends(w)
  <2>1. PICK st \in {"succeeded", "failed"}, err \in {"", "workflow", "config", "dead letter"} :
          FinishJob(job[w], w, st, err)
    BY <1>5, EndsEffect
  <2> QED
    BY <2>1 DEF FinishJob
<1> QED
  BY <1>1, <1>2, <1>3, <1>4, <1>5, WorkerStatements

\* A worker's step leaves the jobs alone that it neither processes nor claims.
LEMMA AwayStep ==
  ASSUME TypeOK, NEW w \in Workers, WorkerStep(w), NEW j \in Jobs, job[w] # j,
         QueueClaim(w) \/ QueueClaimLost(w) => Head(ready) # j
  PROVE  Untouched(j)
<1> USE IdentityAssumption DEF IdentityAssumption, TypeOK, QueueTypeOK
<1>1. RowKept(j)
  BY AwayRow
<1>2. UNCHANGED <<submit, reaperVars>> /\ \A v \in Workers : stopping[v] => stopping'[v]
  BY WorkerQueue
<1>3. CASE QueueClaim(w) \/ QueueClaimLost(w)
  <2>1. Claim(w) /\ Head(ready) # j /\ ready \in Seq(Jobs) /\ ready # <<>>
    BY <1>3 DEF QueueClaim, QueueClaimLost, Claim
  <2>2. CopiesKept(j)
    BY <2>1, TailCopies DEF CopiesKept, Claim
  <2>3. job'[w] # j
    BY <1>3 DEF QueueClaim, QueueClaimLost, WorkerTypeOK
  <2> QED
    BY <1>1, <1>2, <2>2, <2>3, OthersKeep DEF Untouched, HandsKept, reaperVars
<1>4. CASE /\ job'[w] \in {job[w], None}
           /\ \/ UNCHANGED <<ready, leases, owners>> \/ Extend(job[w], w)
              \/ Ack(job[w]) \/ (pc[w] = "requeue" /\ Requeue(job[w]))
  <2>1. CopiesKept(j)
    <3>1. CASE UNCHANGED <<ready, leases, owners>> \/ Extend(job[w], w) \/ Ack(job[w])
      BY <3>1 DEF CopiesKept, Extend, Ack, DropLeases
    <3>2. CASE pc[w] = "requeue" /\ Requeue(job[w])
      <4>1. job[w] \in Jobs
        BY <3>2 DEF WorkerTypeOK, PCs, Busy
      <4> QED
        BY <3>2, <4>1, AppendCopies DEF CopiesKept, Requeue, DropLeases
    <3> QED
      BY <1>4, <3>1, <3>2
  <2> QED
    BY <1>1, <1>2, <1>4, <2>1, OthersKeep DEF Untouched, HandsKept, reaperVars
<1> QED
  BY <1>3, <1>4, WorkerQueue
\* A request leaves the other jobs alone.
LEMMA RequestAway ==
  ASSUME TypeOK, NEW j \in Jobs, NEW k \in Jobs, k # j, Submit(k)
  PROVE  Untouched(j)
<1> USE DEF TypeOK
<1>1. UNCHANGED workerVars /\ UNCHANGED reaperVars /\ submit'[j] = submit[j]
  BY DEF Submit, Create, CreateFails, Dispatch, DispatchFails, FailDispatch, SubmitDies
<1>2. HandsKept(j)
  BY <1>1 DEF HandsKept, workerVars, reaperVars
<1>3. UNCHANGED storeVars \/ CreateJob(k) \/ FinishJob(k, None, "failed", "enqueue")
  BY DEF Submit, Create, CreateFails, Dispatch, DispatchFails, FailDispatch, SubmitDies
<1>4. RowKept(j)
  <2>1. CASE UNCHANGED storeVars \/ CreateJob(k)
    BY <2>1 DEF RowKept, storeVars, StoreTypeOK, CreateJob
  <2>2. CASE FinishJob(k, None, "failed", "enqueue")
    BY <2>2 DEF RowKept, StoreTypeOK, FinishJob
  <2> QED
    BY <1>3, <2>1, <2>2
<1>5. UNCHANGED queueVars \/ Push(k)
  BY DEF Submit, Create, CreateFails, Dispatch, DispatchFails, FailDispatch, SubmitDies
<1>6. CopiesKept(j)
  <2>1. CASE UNCHANGED queueVars
    BY <2>1 DEF CopiesKept, queueVars
  <2>2. CASE Push(k)
    BY <2>2, AppendCopies DEF CopiesKept, Push, QueueTypeOK
  <2> QED
    BY <1>5, <2>1, <2>2
<1> QED
  BY <1>1, <1>2, <1>4, <1>6 DEF Untouched

\* So does the passing of time.
LEMMA TimeAway ==
  ASSUME TypeOK, NEW j \in Jobs, NEW k \in Jobs, k # j, QueueLapse(k) \/ StoreLapse(k)
  PROVE  Untouched(j)
<1>1. HandsKept(j) /\ submit'[j] = submit[j]
  BY DEF HandsKept, QueueLapse, StoreLapse, workerVars, reaperVars
<1>2. RowKept(j)
  BY DEF RowKept, QueueLapse, StoreLapse, StoreLeaseExpires, storeVars, TypeOK, StoreTypeOK
<1>3. CopiesKept(j)
  BY DEF CopiesKept, QueueLapse, StoreLapse, QueueLeaseExpires, queueVars, TypeOK, QueueTypeOK
<1> QED
  BY <1>1, <1>2, <1>3 DEF Untouched

\* What the sweeps of a reaper do to a job that they do not recover.
LEMMA ReapAway ==
  ASSUME TypeOK, NEW j \in Jobs, NEW r \in Reapers, Reap(r) \/ ReaperCrash(r),
         leases[j] # "expired", j \notin Orphaned, \A q \in Reapers : j \notin orphans[q]
  PROVE  Untouched(j)
<1> USE DEF TypeOK, ReaperTypeOK
<1>1. UNCHANGED <<submit, workerVars>>
  BY DEF Reap, ReapQueue, ReapStore, ReapStoreFails, PushOrphan, ReapEnds, ReaperCrash
<1>2. \A q \in Reapers : j \notin orphans'[q]
  BY DEF Reap, ReapQueue, ReapStore, ReapStoreFails, PushOrphan, ReapEnds, ReaperCrash, Batches
<1>3. HandsKept(j)
  BY <1>1, <1>2 DEF HandsKept, workerVars
<1>4. UNCHANGED storeVars \/ \E B \in SUBSET Orphaned : ReclaimExpiredJobs(B)
  BY DEF Reap, ReapQueue, ReapStore, ReapStoreFails, PushOrphan, ReapEnds, ReaperCrash, Batches
<1>5. RowKept(j)
  BY <1>4 DEF RowKept, storeVars, ReclaimExpiredJobs, ToPending
<1>6. \/ UNCHANGED queueVars
      \/ \E B \in SUBSET ExpiredLeases : Reclaim(B)
      \/ \E k \in orphans[r] : Push(k)
  BY DEF Reap, ReapQueue, ReapStore, ReapStoreFails, PushOrphan, ReapEnds, ReaperCrash, Batches
<1>7. CopiesKept(j)
  <2> USE DEF QueueTypeOK
  <2>1. CASE UNCHANGED queueVars
    BY <2>1 DEF CopiesKept, queueVars
  <2>2. ASSUME NEW B \in SUBSET ExpiredLeases, Reclaim(B) PROVE CopiesKept(j)
    <3>1. B \in SUBSET Jobs /\ j \notin B
      BY DEF ExpiredLeases
    <3>2. PICK q \in SetToSeqs(B) : ready' = ready \o q
      BY <2>2 DEF Reclaim
    <3> QED
      BY <2>2, <3>1, <3>2, ConcatCopies DEF CopiesKept, Reclaim, DropLeases
  <2>3. ASSUME NEW k \in orphans[r], Push(k) PROVE CopiesKept(j)
    <3>1. k \in Jobs /\ k # j
      BY <2>3
    <3> QED
      BY <2>3, <3>1, AppendCopies DEF CopiesKept, Push
  <2> QED
    BY <1>6, <2>1, <2>2, <2>3
<1> QED
  BY <1>1, <1>3, <1>5, <1>7 DEF Untouched

-----------------------------------------------------------------------------
(* Until something fails there is one copy of a job.                       *)

\* Nothing fails after the first fault.
LEMMA FaultEndsCalm ==
  ASSUME TypeOK, OneShutdown, MaxFaults <= 1, UNCHANGED stopping, NEW k, Fault(k)
  PROVE  ~Calm'
<1>1. faults = 0 /\ faults' = 1
  BY ServiceAssumption DEF TypeOK, Fault, ServiceAssumption
<1>2. \A w \in Workers : ~stopping[w]
  BY <1>1 DEF OneShutdown
<1> QED
  BY <1>1, <1>2 DEF Calm

\* The worker whose shutdown was the fault has come to its end, or a call of
\* another one has failed.
LEMMA MishapEndsCalm ==
  ASSUME TypeOK, OneShutdown, MaxFaults <= 1, UNCHANGED stopping, NEW k,
         NEW w \in Workers, Interrupted(w, k), NextRound(w)
  PROVE  ~Calm'
<1>1. CASE ~stopping[w]
  BY <1>1, FaultEndsCalm DEF Interrupted
<1>2. CASE stopping[w]
  <2>1. faults' = faults /\ faults # 0 /\ \A v \in Workers : stopping[v] => v = w
    BY <1>2 DEF Interrupted, OneShutdown
  <2>2. pc'[w] = "stopped"
    BY <1>2 DEF NextRound, Goto, TypeOK, WorkerTypeOK
  <2> QED
    BY <2>1, <2>2 DEF Calm, Alive
<1> QED
  BY <1>1, <1>2

\* A job in order is safe.
LEMMA OrderIsGuarded ==
  ASSUME NEW j \in Jobs, InOrder(j), submit[j] = "accepted", status[j] = "pending"
  PROVE  Guarded(j)
<1>1. Waiting(j) => Firm(j)
  BY DEF Waiting, Firm
<1>2. ASSUME NEW w \in Workers, Delivered(j, w) PROVE Firm(j)
  BY <1>2 DEF Delivered, RowFits, Held, Terminal, Firm
<1> QED
  BY <1>1, <1>2 DEF InOrder, Guarded, Terminal

\* The step leaves j in order, or ends the calm and leaves j safe.
Kept(j) ==
  \/ InOrder(j)'
  \/ ~Calm' /\ (submit'[j] = "accepted" /\ status'[j] = "pending" => Guarded(j)')
\* A request creates a job without a copy and pushes the first one.
LEMMA CalmRequest ==
  ASSUME TypeOK, OneShutdown, MaxFaults <= 1, NEW j \in Jobs, InOrder(j), Submit(j)
  PROVE  Kept(j)
<1> USE DEF TypeOK
<1>1. CASE Create(j)
  <2>1. Nowhere(j) /\ \A r \in Reapers : j \notin orphans[r]
    BY <1>1 DEF Create, InOrder
  <2>2. Nowhere(j)' /\ submit'[j] = "created" /\ status'[j] = "pending"
        /\ \A r \in Reapers : j \notin orphans'[r]
    BY <1>1, <2>1 DEF Create, CreateJob, StoreTypeOK, Nowhere, Unattended, queueVars, workerVars, reaperVars
  <2> QED
    BY <2>2 DEF Kept, InOrder
<1>2. CASE Dispatch(j)
  <2>1. /\ Nowhere(j) /\ status[j] = "pending"
        /\ \A r \in Reapers : j \notin orphans[r]
    BY <1>2 DEF Dispatch, InOrder
  <2>2. /\ leases'[j] = "none" /\ status'[j] = "pending" /\ submit'[j] = "accepted"
        /\ Unattended(j)' /\ ready' = Append(ready, j)
        /\ \A r \in Reapers : j \notin orphans'[r]
    BY <1>2, <2>1 DEF Dispatch, Push, Nowhere, Unattended, storeVars, workerVars, reaperVars
  <2>3. ~Lacks(ready', j) /\ Once(ready', j)
    BY <2>1, <2>2, AppendCopies DEF QueueTypeOK, Nowhere, Lacks
  <2> QED
    BY <2>2, <2>3 DEF Kept, InOrder, Waiting, Lacks, Once
<1>3. CASE CreateFails(j) \/ DispatchFails(j) \/ SubmitDies(j)
  <2>1. Fault("submit") /\ UNCHANGED stopping /\ submit'[j] # "accepted"
    BY <1>3 DEF CreateFails, DispatchFails, SubmitDies, workerVars
  <2> QED
    BY <2>1, FaultEndsCalm DEF Kept
<1>4. ~FailDispatch(j)
  BY DEF FailDispatch, InOrder
<1> QED
  BY <1>1, <1>2, <1>3, <1>4 DEF Submit

\* The leases of a delivery do not run out while its worker is about, unless
\* it stalls.
LEMMA CalmTime ==
  ASSUME TypeOK, OneShutdown, MaxFaults <= 1, NEW j \in Jobs, InOrder(j),
         QueueLapse(j) \/ StoreLapse(j)
  PROVE  Kept(j)
<1> USE DEF TypeOK
<1>1. /\ UNCHANGED <<submit, workerVars, reaperVars, ready, owners, status, owner>>
      /\ leases[j] # "none" => leases'[j] # "none"
  BY DEF QueueLapse, StoreLapse, QueueLeaseExpires, StoreLeaseExpires, queueVars, storeVars,
         QueueTypeOK, StoreTypeOK
<1>2. CASE \E k : Fault(k)
  <2>1. ~Calm'
    BY <1>1, <1>2, FaultEndsCalm DEF workerVars
  <2>2. submit[j] = "accepted" /\ status[j] = "pending" => Guarded(j)
    BY OrderIsGuarded
  <2>3. Guarded(j) => Guarded(j)'
    BY <1>1 DEF Guarded, Firm, Unattended, workerVars, reaperVars
  <2> QED
    BY <1>1, <2>1, <2>2, <2>3 DEF Kept
<1>3. CASE ~\E k : Fault(k)
  <2>1. ~QueueLapse(j)
    <3> SUFFICES ASSUME QueueLapse(j) PROVE FALSE
      OBVIOUS
    <3>1. PICK w \in Workers : Delivered(j, w)
      BY DEF QueueLapse, QueueLeaseExpires, InOrder, Waiting, Nowhere
    <3>2. owners[j] \in Workers /\ Attends(owners[j], j)
      BY <3>1 DEF Delivered, RowFits, Attends, Alive, Holding
    <3> QED
      BY <1>3, <3>2 DEF QueueLapse
  <2>2. StoreLapse(j) /\ UNCHANGED leases
    BY <2>1 DEF StoreLapse, queueVars
  <2>3. ASSUME NEW w \in Workers, Delivered(j, w) PROVE Delivered(j, w)'
    <3>1. ~Held(j, w)
      BY <1>3, <2>2, <2>3 DEF StoreLapse, Held, Delivered, RowFits, Attends, Alive, Holding
    <3> QED
      BY <1>1, <2>2, <2>3, <3>1 DEF Delivered, RowFits, Terminal, workerVars
  <2>4. (Waiting(j) => Waiting(j)') /\ (Nowhere(j) => Nowhere(j)') /\ (Terminal(j) => Terminal(j)')
    BY <1>1, <2>2 DEF Waiting, Nowhere, Unattended, Terminal, workerVars
  <2>5. InOrder(j)'
    BY <1>1, <2>3, <2>4 DEF InOrder, reaperVars
  <2> QED
    BY <2>5 DEF Kept
<1> QED
  BY <1>2, <1>3

\* A reaper finds nothing to do.
LEMMA CalmReap ==
  ASSUME TypeOK, NEW j \in Jobs, InOrder(j), NEW r \in Reapers, Reap(r) \/ ReaperCrash(r)
  PROVE  InOrder(j)'
<1>1. leases[j] # "expired" /\ j \notin Orphaned
  BY DEF InOrder, Nowhere, Waiting, Delivered, RowFits, Held, Terminal, Orphaned
<1>2. Untouched(j)
  BY <1>1, ReapAway DEF InOrder
<1> QED
  BY <1>2, UntouchedOrder

\* A worker that claims the only copy has the only delivery.
LEMMA CalmClaim ==
  ASSUME TypeOK, OneShutdown, MaxFaults <= 1, NEW j \in Jobs, InOrder(j), NEW w \in Workers,
         QueueClaim(w) \/ QueueClaimLost(w), Head(ready) = j
  PROVE  Kept(j)
<1> USE DEF TypeOK, QueueTypeOK, WorkerTypeOK
<1>1. /\ Claim(w) /\ ready # <<>> /\ leases'[j] = "live" /\ owners'[j] = w /\ ready' = Tail(ready)
      /\ UNCHANGED <<submit, storeVars, stopping, reaperVars>>
  BY DEF QueueClaim, QueueClaimLost, Claim
<1>2. ~Lacks(ready, j)
  BY <1>1, TailCopies
<1>3. Waiting(j) /\ submit[j] = "accepted"
  BY <1>2 DEF InOrder, Nowhere, Delivered, Lacks
<1>4. Lacks(ready', j)
  BY <1>1, <1>3, TailCopies DEF Waiting, Once
<1>5. CASE QueueClaim(w)
  <2>1. \A v \in Workers : job'[v] = j <=> v = w
    BY <1>3, <1>5 DEF QueueClaim, Waiting, Unattended
  <2>2. RowFits(j, w)'
    BY <1>1, <1>3, <1>5 DEF RowFits, QueueClaim, Goto, Waiting, storeVars
  <2>3. Delivered(j, w)'
    BY <1>1, <1>4, <2>1, <2>2 DEF Delivered, Lacks
  <2> QED
    BY <1>1, <1>3, <2>3 DEF Kept, InOrder, reaperVars
<1>6. CASE QueueClaimLost(w)
  <2>1. ~Calm'
    BY <1>6, MishapEndsCalm DEF QueueClaimLost
  <2>2. Guarded(j)'
    BY <1>1, <1>3, <1>6 DEF Guarded, QueueClaimLost, Waiting, Unattended
  <2> QED
    BY <2>1, <2>2 DEF Kept
<1> QED
  BY <1>5, <1>6
\* The worker with the only delivery of a job takes it from ClaimJob to the end
\* or back into the ready list, or fails with the job safe.
LEMMA CalmOwn ==
  ASSUME TypeOK, OwnedRuns, OneShutdown, MaxFaults <= 1, NoLeaseLost,
         NEW j \in Jobs, InOrder(j), NEW w \in Workers, job[w] = j, WorkerStep(w)
  PROVE  Kept(j)
<1> USE IdentityAssumption DEF IdentityAssumption, TypeOK, WorkerTypeOK
<1>1. Delivered(j, w) /\ submit[j] = "accepted" /\ \A r \in Reapers : j \notin orphans[r]
  BY DEF InOrder, Waiting, Nowhere, Unattended, Delivered
<1>2. /\ leases[j] = "live" /\ owners[j] = w /\ \A i \in DOMAIN ready : ready[i] # j
      /\ \A v \in Workers : job[v] = j <=> v = w
      /\ RowFits(j, w)
  BY <1>1 DEF Delivered
<1>3. submit'[j] = "accepted" /\ \A r \in Reapers : j \notin orphans'[r]
  BY <1>1, WorkerQueue DEF reaperVars
<1>4. ASSUME ready' = ready, leases'[j] = "live", owners' = owners, job' = job, RowFits(j, w)'
      PROVE  Kept(j)
  BY <1>2, <1>3, <1>4 DEF Kept, InOrder, Delivered
<1>5. ASSUME ~Calm', leases'[j] # "none", Discard(w) PROVE Kept(j)
  BY <1>2, <1>5 DEF Kept, Guarded, Discard, Unattended
<1>6. ASSUME ~Calm', status'[j] # "pending" PROVE Kept(j)
  BY <1>6 DEF Kept
<1>7. ASSUME Discard(w), Terminal(j)', leases'[j] = "none", ready' = ready PROVE Kept(j)
  BY <1>2, <1>3, <1>7 DEF Kept, InOrder, Nowhere, Unattended, Discard
<1>8. ~(QueueClaim(w) \/ QueueClaimLost(w) \/ Park(w) \/ Wake(w) \/ Stop(w))
  BY <1>2 DEF RowFits, Holding, QueueClaim, QueueClaimLost, Park, Wake, Stop
<1>9. CASE TakeJob(w)
  <2>1. RowFits(j, w)'
    <3>1. ClaimJob(j, w) /\ pc'[w] \in Holding
      BY <1>9 DEF TakeJob, Goto, Holding
    <3>2. owner'[j] = w /\ leaseUntil'[j] = "live"
      BY <3>1 DEF ClaimJob, StoreTypeOK
    <3> QED
      BY <3>1, <3>2, ClaimStatus DEF RowFits, Held
  <2> QED
    BY <1>2, <1>4, <1>9, <2>1 DEF TakeJob, queueVars
<1>10. ~RefuseJob(w)
  BY <1>2 DEF RefuseJob, Claimable, OwnedRuns, RowFits, Holding
<1>11. CASE TakeJobFails(w)
  BY <1>2, <1>5, <1>11, MishapEndsCalm DEF TakeJobFails, Leave, queueVars
<1>12. CASE Drop(w)
  <2>1. status[j] # "pending" /\ UNCHANGED storeVars
    BY <1>2, <1>12 DEF Drop, RowFits, Holding, Held, Terminal
  <2>2. CASE Ack(j) /\ Terminal(j)
    BY <1>7, <1>12, <2>1, <2>2 DEF Drop, Leave, Ack, DropLeases, Terminal, storeVars
  <2>3. CASE Ack(j) /\ ~Terminal(j) /\ UNCHANGED faults
    <3>1. stopping[w]
      BY <1>2, <1>12, <2>3 DEF Drop, RowFits, Holding
    <3>2. Interrupted(w, "queue")
      BY <2>3, <3>1 DEF Interrupted
    <3> QED
      BY <1>6, <1>12, <2>1, <3>2, MishapEndsCalm DEF Drop, Leave, storeVars
  <2>4. CASE Interrupted(w, "queue")
    BY <1>6, <1>12, <2>1, <2>4, MishapEndsCalm DEF Drop, Leave, storeVars
  <2> QED
    BY <1>12, <2>2, <2>3, <2>4 DEF Drop
<1>13. CASE DeadLetter(w)
  <2>1. Held(j, w)
    BY <1>2, <1>13 DEF DeadLetter, RowFits
  <2>2. CASE FinishJob(j, w, "failed", "dead letter")
    <3>1. RowFits(j, w)'
      <4>1. pc'[w] = "deadLog"
        BY <1>13 DEF DeadLetter, Goto
      <4>2. FinishHeld(j, w)
        BY <2>1 DEF FinishHeld, Held
      <4>3. status'[j] = "failed"
        BY <2>2, <4>2, FinishStatus
      <4> QED
        BY <4>1, <4>3 DEF RowFits, Terminal
    <3> QED
      BY <1>2, <1>4, <1>13, <3>1 DEF DeadLetter, queueVars
  <2>3. CASE UNCHANGED storeVars /\ stopping[w]
    <3>1. RowFits(j, w)'
      BY <1>13, <2>1, <2>3 DEF DeadLetter, Goto, RowFits, Held, storeVars
    <3> QED
      BY <1>2, <1>4, <1>13, <3>1 DEF DeadLetter, queueVars
  <2>4. CASE UNCHANGED storeVars /\ Fault("store")
    BY <1>6, <1>13, <2>1, <2>4, FaultEndsCalm DEF DeadLetter, Held, storeVars
  <2> QED
    BY <1>13, <2>2, <2>3, <2>4 DEF DeadLetter, Interrupted
<1>14. CASE DeadLog(w)
  <2>1. RowFits(j, w)'
    BY <1>2, <1>14 DEF DeadLog, Goto, RowFits, AppendEvent, Held, Terminal, Holding, storeVars
  <2> QED
    BY <1>2, <1>4, <1>14, <2>1 DEF DeadLog, queueVars
<1>15. ASSUME pc[w] \in {"load", "run"} PROVE Held(j, w)
  BY <1>2, <1>15 DEF RowFits
<1>16. ASSUME pc[w] \in {"load", "run"}, UNCHANGED <<status, owner, leaseUntil>>, pc'[w] \in Holding
       PROVE  RowFits(j, w)'
  BY <1>15, <1>16 DEF RowFits, Held
<1>17. ASSUME Extend(j, w) \/ UNCHANGED queueVars
       PROVE  ready' = ready /\ leases'[j] = "live" /\ owners' = owners
  BY <1>2, <1>17 DEF Extend, queueVars, QueueTypeOK
<1>18. CASE Load(w) \/ StartWave(w)
  BY <1>4, <1>16, <1>17, <1>18 DEF Load, StartWave, storeVars, Goto, Holding
<1>19. CASE LoadUnresolved(w) \/ LoadFails(w) \/ EndRun(w)
  <2>1. PICK v : RunEnds(w, v)
    BY <1>19 DEF LoadUnresolved, LoadFails, EndRun
  <2>2. pc[w] \in {"load", "run"} /\ UNCHANGED storeVars /\ job' = job
    BY <1>19 DEF LoadUnresolved, LoadFails, EndRun
  <2>3. pc'[w] \in Holding
    BY <2>1 DEF RunEnds, Goto, Holding
  <2>4. ready' = ready /\ leases'[j] = "live" /\ owners' = owners
    BY <1>17, <2>1 DEF RunEnds
  <2> QED
    BY <1>4, <1>16, <2>2, <2>3, <2>4 DEF storeVars
<1>20. CASE \E s \in Steps : RunStep(w, s)
  <2>1. pc' = pc /\ job' = job /\ UNCHANGED <<queueVars, status, owner, leaseUntil>>
    BY <1>20 DEF RunStep, CallAgent, RefuseStep, ClaimStepFails, AgentSucceeds, AgentFails,
                 RetryStep, FailStep, Drain, UpdateStep, ClaimStep, storeVars
  <2>2. pc[w] = "run"
    BY <1>20, WaveRuns DEF RunStep, CallAgent, RefuseStep, ClaimStepFails, AgentSucceeds, AgentFails,
                 RetryStep, FailStep
  <2> QED
    BY <1>4, <1>16, <1>17, <2>1, <2>2 DEF Holding
<1>21. CASE AbandonLost(w)
  BY <1>21 DEF AbandonLost, NoLeaseLost
<1>22. ASSUME pc[w] = "abandon" PROVE Held(j, w)
  BY <1>2, <1>22 DEF RowFits
<1>23. CASE AbandonReleased(w)
  <2>1. RowFits(j, w)'
    BY <1>22, <1>23 DEF AbandonReleased, ReleaseJob, ToPending, StoreHeld, Held, Goto, RowFits, StoreTypeOK
  <2> QED
    BY <1>4, <1>17, <1>23, <2>1 DEF AbandonReleased
<1>24. CASE AbandonFails(w)
  BY <1>2, <1>5, <1>24, FaultEndsCalm DEF AbandonFails, Leave, queueVars
<1>25. CASE RequeueJob(w)
  <2>1. status'[j] = "pending"
    BY <1>2, <1>25 DEF RequeueJob, RowFits, Holding, storeVars
  <2>2. CASE Requeue(j)
    <3>1. ~Lacks(ready', j) /\ Once(ready', j) /\ leases'[j] = "none"
      <4>1. ready \in Seq(Jobs) /\ Lacks(ready, j)
        BY <1>2 DEF QueueTypeOK, Lacks
      <4>2. ready' = Append(ready, j) /\ leases'[j] = "none"
        BY <2>2 DEF Requeue, DropLeases, QueueTypeOK
      <4> QED
        BY <4>1, <4>2, AppendCopies
    <3>2. Unattended(j)'
      BY <1>2, <1>25 DEF RequeueJob, Leave, Discard, Unattended
    <3>3. Waiting(j)'
      BY <2>1, <3>1, <3>2 DEF Waiting, Lacks, Once
    <3> QED
      BY <1>3, <3>3 DEF Kept, InOrder
  <2>3. CASE UNCHANGED queueVars /\ Fault("queue")
    BY <1>2, <1>5, <1>25, <2>3, FaultEndsCalm DEF RequeueJob, Leave, queueVars
  <2> QED
    BY <1>25, <2>2, <2>3 DEF RequeueJob
<1>26. CASE WriteResult(w)
  <2>1. RowFits(j, w)'
    BY <1>2, <1>26 DEF WriteResult, UpdateStep, Goto, RowFits, Holding, Held, storeVars
  <2> QED
    BY <1>4, <1>17, <1>26, <2>1 DEF WriteResult
<1>27. ASSUME pc[w] = "finish" PROVE Held(j, w) /\ FinishHeld(j, w)
  BY <1>2, <1>27 DEF RowFits, Held, FinishHeld
<1>28. CASE Finish(w)
  <2>1. FinishHeld(j, w)
    BY <1>27, <1>28 DEF Finish
  <2>2. pc'[w] = "log" /\ job' = job
    BY <1>28, <2>1 DEF Finish, Goto
  <2>3. PICK st \in {"succeeded", "failed"} : status' = [status EXCEPT ![j] = st]
    BY <1>28, <2>1 DEF Finish, FinishJob, FinalStatus
  <2>4. RowFits(j, w)'
    BY <2>2, <2>3 DEF RowFits, Terminal, StoreTypeOK
  <2> QED
    BY <1>4, <1>17, <1>28, <2>2, <2>4 DEF Finish
<1>29. CASE FinishFails(w)
  <2>1. status'[j] # "pending"
    <3>1. status[j] # "pending"
      BY <1>27, <1>29 DEF FinishFails, Held
    <3>2. UNCHANGED status \/ \E st \in {"succeeded", "failed"} : \E err : FinishJob(j, w, st, err)
      BY <1>29 DEF FinishFails, FinalStatus, storeVars
    <3> QED
      BY <3>1, <3>2, FinishStatus
  <2> QED
    BY <1>6, <1>29, <2>1, FaultEndsCalm DEF FinishFails, Leave
<1>30. CASE LogCompleted(w)
  <2>1. RowFits(j, w)'
    BY <1>2, <1>30 DEF LogCompleted, AppendEvent, Goto, RowFits, Terminal, Holding, storeVars
  <2> QED
    BY <1>4, <1>17, <1>30, <2>1 DEF LogCompleted
<1>31. CASE AckJob(w)
  <2>1. Terminal(j) /\ Terminal(j)' /\ status'[j] # "pending"
    BY <1>2, <1>31 DEF AckJob, RowFits, Holding, Terminal, storeVars
  <2>2. CASE Ack(j)
    BY <1>7, <1>31, <2>1, <2>2 DEF AckJob, Leave, Ack, DropLeases
  <2>3. CASE Fault("queue")
    BY <1>6, <1>31, <2>1, <2>3, FaultEndsCalm DEF AckJob, Leave
  <2> QED
    BY <1>31, <2>2, <2>3 DEF AckJob
<1>32. CASE Beat(w)
  <2>1. pc[w] \in {"load", "run"} /\ pc' = pc /\ job' = job
    BY <1>32 DEF Beat, BeatStore, BeatStoreFails, BeatQueue, BeatQueueFails, workerVars
  <2>2. UNCHANGED queueVars \/ Extend(j, w)
    BY <1>32 DEF Beat, BeatStore, BeatStoreFails, BeatQueue, BeatQueueFails
  <2>3. Held(j, w)'
    BY <1>15, <1>32, <2>1 DEF Beat, BeatStore, BeatStoreFails, BeatQueue, BeatQueueFails, ExtendLease,
         StoreHeld, Held, storeVars, StoreTypeOK
  <2>4. RowFits(j, w)'
    BY <2>1, <2>3 DEF RowFits, Holding
  <2> QED
    BY <1>4, <1>17, <2>1, <2>2, <2>4
<1>33. CASE Crash(w)
  BY <1>2, <1>5, <1>33, FaultEndsCalm DEF Crash, queueVars
<1>34. CASE Shutdown(w)
  <2>1. RowFits(j, w)'
    BY <1>2, <1>34 DEF Shutdown, RowFits, Held, Terminal, storeVars
  <2> QED
    BY <1>4, <1>17, <1>34, <2>1 DEF Shutdown
<1> QED
  BY <1>8, <1>9, <1>10, <1>11, <1>12, <1>13, <1>14, <1>18, <1>19, <1>20, <1>21, <1>23, <1>24, <1>25,
     <1>26, <1>28, <1>29, <1>30, <1>31, <1>32, <1>33, <1>34 DEF WorkerStep, Work
\* Until something fails, every step keeps every job in order or safe.
LEMMA CalmStep ==
  ASSUME TypeOK, OwnedRuns, OneShutdown, MaxFaults <= 1, "flush" \notin FaultKinds,
         NoLeaseLost, Next, NEW j \in Jobs, InOrder(j)
  PROVE  Kept(j)
<1>1. Untouched(j) => Kept(j)
  BY UntouchedOrder DEF Kept
<1>2. ASSUME NEW w \in Workers, WorkerStep(w) PROVE Kept(j)
  <2>1. CASE job[w] = j
    BY <1>2, <2>1, CalmOwn
  <2>2. CASE (QueueClaim(w) \/ QueueClaimLost(w)) /\ Head(ready) = j
    BY <2>2, CalmClaim
  <2>3. CASE job[w] # j /\ ~((QueueClaim(w) \/ QueueClaimLost(w)) /\ Head(ready) = j)
    BY <1>1, <1>2, <2>3, AwayStep
  <2> QED
    BY <2>1, <2>2, <2>3
<1>3. ASSUME NEW k \in Jobs, Submit(k) \/ QueueLapse(k) \/ StoreLapse(k) PROVE Kept(j)
  BY <1>1, <1>3, RequestAway, TimeAway, CalmRequest, CalmTime
<1>4. ASSUME NEW r \in Reapers, Reap(r) \/ ReaperCrash(r) PROVE Kept(j)
  BY <1>4, CalmReap DEF Kept
<1>5. ~RedisLoss
  BY DEF RedisLoss, Fault
<1> QED
  BY <1>2, <1>3, <1>4, <1>5, NextSplit DEF OtherStep

\* A job in order that a worker processes is delivered to that worker alone.
LEMMA SoleDelivery ==
  ASSUME NEW w \in Workers, NEW j \in Jobs, job[w] = j, InOrder(j)
  PROVE  Delivered(j, w)
BY DEF InOrder, Waiting, Nowhere, Unattended, Delivered

\* As long as there is one copy of each job, no worker is told that it lost its
\* lease: neither by a heartbeat nor by the claim of a step.
LEMMA NoLeaseLostStep ==
  ASSUME TypeOK, FenceInv, NoLeaseLost, \A j \in Jobs : InOrder(j), [Next]_vars
  PROVE  NoLeaseLost'
<1> USE DEF NoLeaseLost
<1>1. ASSUME UNCHANGED <<fence, ctx, beat, verdict>> PROVE NoLeaseLost'
  BY <1>1
<1>2. OtherStep \/ UNCHANGED vars => UNCHANGED workerVars
  BY OtherStatements DEF vars
<1>3. ASSUME NEW w \in Workers, WorkerStep(w) PROVE NoLeaseLost'
  <2> USE DEF TypeOK, WorkerTypeOK, EngineTypeOK, engineVars, workerVars
  <2>1. ASSUME Discard(w) PROVE NoLeaseLost'
    BY <2>1 DEF Discard
  <2>2. CASE QueueClaim(w) \/ QueueClaimLost(w) \/ Park(w) \/ Wake(w) \/ Stop(w)
    BY <1>1, <2>2 DEF QueueClaim, QueueClaimLost, Park, Wake, Stop
  <2>3. CASE TakeJob(w) \/ RefuseJob(w) \/ DeadLetter(w) \/ DeadLog(w)
    <3>1. UNCHANGED <<fence, ctx, verdict>> /\ (UNCHANGED beat \/ beat' = [beat EXCEPT ![w] = "wait"])
      BY <2>3 DEF TakeJob, RefuseJob, DeadLetter, DeadLog
    <3> QED
      BY <3>1
  <2>4. CASE Load(w) \/ StartWave(w)
    BY <1>1, <2>4 DEF Load, StartWave
  <2>5. CASE LoadUnresolved(w) \/ LoadFails(w) \/ EndRun(w)
    <3>1. PICK v : RunEnds(w, v) /\ v # "leaseLost"
      <4>1. Outcome(w) # "leaseLost"
        BY DEF Outcome
      <4> QED
        BY <2>5, <4>1 DEF LoadUnresolved, LoadFails, EndRun
    <3> QED
      BY <2>5, <3>1 DEF LoadUnresolved, LoadFails, EndRun, RunEnds
  <2>6. ASSUME NEW s \in Steps, RunStep(w, s) PROVE NoLeaseLost'
    <3>1. CASE RefuseStep(w, s)
      <4>1. phase[w][s] # "off" /\ pc[w] = "run" /\ job[w] \in Jobs
        BY <3>1, WaveRuns DEF RefuseStep
      <4>2. Delivered(job[w], w)
        BY <4>1, SoleDelivery
      <4>3. owner[job[w]] = w
        BY <4>1, <4>2 DEF Delivered, RowFits, Held
      <4>4. stepStatus[job[w]][s] = "succeeded"
        BY <3>1, <4>3 DEF RefuseStep, StepClaimable
      <4>5. results[w][s] = "succeeded" /\ results[w][s] = "none"
        BY <4>1, <4>3, <4>4 DEF FenceInv, OwnerKnowsProgress, WaveIsOpen
      <4> QED
        BY <4>5
    <3>2. ~RefuseStep(w, s) => UNCHANGED <<fence, ctx, beat, verdict>>
      BY <2>6 DEF RunStep, CallAgent, ClaimStepFails, AgentSucceeds, AgentFails,
                  RetryStep, FailStep, Drain
    <3> QED
      BY <1>1, <3>1, <3>2
  <2>7. CASE AbandonReleased(w) \/ WriteResult(w) \/ LogCompleted(w)
    BY <1>1, <2>7 DEF AbandonReleased, WriteResult, LogCompleted
  <2>8. CASE Finish(w)
    BY <1>1, <2>1, <2>8 DEF Finish, Leave
  <2>9. CASE Beat(w)
    <3>1. pc[w] \in {"load", "run"} /\ job[w] \in Jobs
      BY <2>9 DEF Beat, BeatStore, BeatStoreFails, BeatQueue, BeatQueueFails, Busy, PCs
    <3>2. Delivered(job[w], w)
      BY <3>1, SoleDelivery
    <3>3. StoreHeld(job[w], w) /\ QueueHeld(job[w], w)
      BY <3>1, <3>2 DEF Delivered, RowFits, Held, StoreHeld, QueueHeld
    <3>4. CASE BeatStore(w)
      BY <3>3, <3>4 DEF BeatStore
    <3>5. CASE BeatStoreFails(w)
      BY <1>1, <3>5 DEF BeatStoreFails
    <3>6. CASE BeatQueue(w)
      <4>1. beat[w] = "held"
        BY <3>6 DEF BeatQueue
      <4> QED
        BY <3>3, <3>6, <4>1 DEF BeatQueue
    <3>7. CASE BeatQueueFails(w)
      BY <3>7 DEF BeatQueueFails
    <3> QED
      BY <2>9, <3>4, <3>5, <3>6, <3>7 DEF Beat
  <2>10. CASE Shutdown(w)
    BY <2>10 DEF Shutdown
  <2>11. Crash(w) \/ TakeJobFails(w) \/ Drop(w) \/ AbandonLost(w) \/ AbandonFails(w) \/ RequeueJob(w)
           \/ FinishFails(w) \/ AckJob(w) => Discard(w)
    BY DEF Crash, TakeJobFails, Drop, AbandonLost, AbandonFails, RequeueJob, FinishFails, AckJob, Leave
  <2> QED
    BY <1>3, <2>1, <2>2, <2>3, <2>4, <2>5, <2>6, <2>7, <2>8, <2>9, <2>10, <2>11 DEF WorkerStep, Work
<1> QED
  BY <1>1, <1>2, <1>3, NextSplit DEF workerVars, engineVars
-----------------------------------------------------------------------------
(* Only a fault takes the last trace of a pending job away.                *)

\* Nothing fails in this step, and no worker is shutting down.
Smoothly == faults' = faults /\ \A w \in Workers : stopping[w] => ~Alive(w)

\* A call that fails is a fault.
LEMMA SmoothCalls ==
  ASSUME TypeOK, Smoothly, NEW k
  PROVE  /\ ~Fault(k)
         /\ \A w \in Workers : Alive(w) => ~Interrupted(w, k)
<1>1. faults \in Nat
  BY ServiceAssumption DEF TypeOK, ServiceAssumption
<1>2. ~Fault(k)
  BY <1>1 DEF Smoothly, Fault
<1> QED
  BY <1>2 DEF Smoothly, Interrupted

\* What a worker that nothing happens to does with a delivery of a pending job.
LEMMA SmoothHands ==
  ASSUME TypeOK, OwnedRuns, Smoothly, NEW j \in Jobs, status[j] = "pending",
         NEW w \in Workers, job[w] = j, pc[w] \in {"claimed", "requeue"}, WorkerStep(w)
  PROVE  status'[j] # "pending" \/ Firm(j)'
<1> USE DEF TypeOK, WorkerTypeOK
<1>1. Alive(w) /\ \A k : ~Fault(k) /\ ~Interrupted(w, k)
  BY SmoothCalls DEF Alive
<1>2. ~RefuseJob(w)
  BY DEF RefuseJob, Claimable, OwnedRuns
<1>3. ~(TakeJobFails(w) \/ Crash(w) \/ Shutdown(w))
  BY <1>1 DEF TakeJobFails, Crash, Shutdown
<1>4. CASE TakeJob(w)
  BY <1>4 DEF TakeJob, ClaimJob, StoreTypeOK
<1>5. CASE RequeueJob(w)
  <2>1. Requeue(j)
    BY <1>1, <1>5 DEF RequeueJob
  <2>2. ~Lacks(ready', j)
    BY <2>1, AppendCopies DEF Requeue, QueueTypeOK
  <2> QED
    BY <2>2 DEF Lacks, Firm
<1>6. ~(QueueClaim(w) \/ QueueClaimLost(w) \/ Park(w) \/ Wake(w) \/ Stop(w) \/ Drop(w)
        \/ DeadLetter(w) \/ DeadLog(w) \/ Load(w) \/ LoadUnresolved(w) \/ LoadFails(w)
        \/ StartWave(w) \/ EndRun(w))
  BY DEF QueueClaim, QueueClaimLost, Park, Wake, Stop, Drop, DeadLetter, DeadLog, Load,
         LoadUnresolved, LoadFails, StartWave, EndRun
<1>7. ~(AbandonLost(w) \/ AbandonReleased(w) \/ AbandonFails(w) \/ WriteResult(w) \/ Finish(w)
        \/ FinishFails(w) \/ LogCompleted(w) \/ AckJob(w) \/ Beat(w))
  BY DEF AbandonLost, AbandonReleased, AbandonFails, WriteResult, Finish, FinishFails, LogCompleted,
         AckJob, Beat, BeatStore, BeatStoreFails, BeatQueue, BeatQueueFails
<1>8. ~\E s \in Steps : RunStep(w, s)
  BY WaveRuns DEF RunStep, CallAgent, RefuseStep, ClaimStepFails, AgentSucceeds, AgentFails,
         RetryStep, FailStep
<1> QED
  BY <1>2, <1>3, <1>4, <1>5, <1>6, <1>7, <1>8 DEF WorkerStep, Work

\* No worker loses a pending job, whatever duplicates it acknowledges.
LEMMA WorkersKeepPending ==
  ASSUME TypeOK, OwnedRuns, Smoothly, NEW j \in Jobs, status[j] = "pending", Guarded(j),
         NEW w \in Workers, WorkerStep(w), status'[j] = "pending"
  PROVE  Guarded(j)'
<1> USE DEF TypeOK, WorkerTypeOK
<1>1. CASE (QueueClaim(w) \/ QueueClaimLost(w)) /\ Head(ready) = j
  <2>1. pc[w] = "idle"
    BY <1>1 DEF QueueClaim, QueueClaimLost
  <2>2. QueueClaim(w)
    BY <1>1, <2>1, SmoothCalls DEF QueueClaimLost, Alive
  <2>3. pc'[w] = "claimed" /\ job'[w] = j
    BY <1>1, <2>2 DEF QueueClaim, Goto
  <2> QED
    BY <2>3 DEF Guarded, Firm
<1>2. CASE job[w] # j /\ ~((QueueClaim(w) \/ QueueClaimLost(w)) /\ Head(ready) = j)
  BY <1>2, AwayStep, UntouchedGuarded
<1>3. CASE job[w] = j /\ ~((QueueClaim(w) \/ QueueClaimLost(w)) /\ Head(ready) = j)
  <2>1. Firm(j)
    BY <1>3 DEF Guarded, Unattended
  <2>2. UNCHANGED reaperVars
    BY WorkerQueue
  <2>3. CASE \E r \in Reapers : j \in orphans[r]
    BY <2>2, <2>3 DEF reaperVars, Guarded, Firm
  <2>4. CASE ~Lacks(ready, j)
    <3>1. ~Lacks(ready', j)
      <4>1. CASE QueueClaim(w) \/ QueueClaimLost(w)
        <5>1. Claim(w) /\ Head(ready) # j
          BY <1>3, <4>1 DEF QueueClaim, QueueClaimLost
        <5> QED
          BY <2>4, <5>1, TailCopies DEF Claim, QueueTypeOK
      <4>2. CASE UNCHANGED ready \/ Requeue(j)
        <5>1. ready \in Seq(Jobs)
          BY DEF QueueTypeOK
        <5>2. ~Lacks(Append(ready, j), j)
          BY <5>1, AppendCopies
        <5> QED
          BY <2>4, <4>2, <5>2 DEF Requeue
      <4> QED
        BY <1>3, <4>1, <4>2, WorkerQueue DEF Extend, Ack
    <3> QED
      BY <3>1 DEF Guarded, Firm, Lacks
  <2>5. ASSUME NEW v \in Workers, pc[v] \in {"claimed", "requeue"}, job[v] = j PROVE Guarded(j)'
    <3>1. CASE v = w
      BY <2>5, <3>1, SmoothHands DEF Guarded
    <3>2. CASE v # w
      BY <2>5, <3>2, OthersKeep DEF Guarded, Firm
    <3> QED
      BY <3>1, <3>2
  <2> QED
    BY <2>1, <2>3, <2>4, <2>5 DEF Firm, Lacks
<1> QED
  BY <1>1, <1>2, <1>3
\* A worker that gives a job up is about to push it.
LEMMA WorkersReturnPending ==
  ASSUME TypeOK, Smoothly, NEW j \in Jobs, status[j] # "pending", NEW w \in Workers, WorkerStep(w),
         status'[j] = "pending"
  PROVE  Guarded(j)'
<1> USE DEF TypeOK, WorkerTypeOK, StoreTypeOK
<1>1. ~RowsOnly /\ ~Renews(w)
  BY DEF RowsOnly, Renews, ExtendLease
<1>2. ~Claims(w)
  BY ClaimStatus DEF Claims
<1>3. ~Ends(w)
  <2> SUFFICES ASSUME Ends(w) PROVE FALSE
    OBVIOUS
  <2>1. PICK st \in {"succeeded", "failed"}, err \in {"", "workflow", "config", "dead letter"} :
          FinishJob(job[w], w, st, err)
    BY EndsEffect
  <2> QED
    BY <2>1, FinishStatus
<1>4. Releases(w)
  BY <1>1, <1>2, <1>3, WorkerStatements
<1>5. job[w] = j
  BY <1>4 DEF Releases, ReleaseJob, ToPending
<1>6. CASE AbandonReleased(w)
  BY <1>5, <1>6 DEF AbandonReleased, Goto, Guarded, Firm
<1>7. ~(AbandonFails(w) \/ Crash(w) \/ Shutdown(w))
  BY SmoothCalls DEF AbandonFails, Crash, Shutdown
<1>8. pc[w] = "abandon"
  BY <1>4 DEF Releases
<1>9. ~(QueueClaim(w) \/ QueueClaimLost(w) \/ Park(w) \/ Wake(w) \/ Stop(w) \/ TakeJob(w)
        \/ RefuseJob(w) \/ TakeJobFails(w) \/ Drop(w) \/ DeadLetter(w) \/ DeadLog(w) \/ Load(w)
        \/ LoadUnresolved(w) \/ LoadFails(w) \/ StartWave(w) \/ EndRun(w))
  BY <1>8 DEF QueueClaim, QueueClaimLost, Park, Wake, Stop, TakeJob, RefuseJob, TakeJobFails, Drop,
         DeadLetter, DeadLog, Load, LoadUnresolved, LoadFails, StartWave, EndRun
<1>10. ~(RequeueJob(w) \/ WriteResult(w) \/ Finish(w) \/ FinishFails(w) \/ LogCompleted(w)
        \/ AckJob(w) \/ Beat(w))
  BY <1>8 DEF RequeueJob, WriteResult, Finish, FinishFails, LogCompleted,
         AckJob, Beat, BeatStore, BeatStoreFails, BeatQueue, BeatQueueFails
<1>11. ~AbandonLost(w)
  BY DEF AbandonLost, storeVars
<1>12. ~\E s \in Steps : RunStep(w, s)
  BY <1>8, WaveRuns DEF RunStep, CallAgent, RefuseStep, ClaimStepFails, AgentSucceeds, AgentFails,
         RetryStep, FailStep
<1> QED
  BY <1>6, <1>7, <1>9, <1>10, <1>11, <1>12 DEF WorkerStep, Work

\* A request that dispatches its job puts it into the ready list, and no later
\* step of a request loses it.
LEMMA RequestsKeepPending ==
  ASSUME TypeOK, NEW j \in Jobs, Submit(j), submit'[j] = "accepted"
  PROVE  Guarded(j)'
<1>1. Dispatch(j)
  BY DEF Submit, Create, CreateFails, Dispatch, DispatchFails, FailDispatch, SubmitDies, TypeOK
<1>2. ~Lacks(ready', j)
  BY <1>1, AppendCopies DEF Dispatch, Push, TypeOK, QueueTypeOK
<1> QED
  BY <1>2 DEF Lacks, Guarded, Firm

\* The passing of time loses nothing.
LEMMA TimeKeepsPending ==
  ASSUME TypeOK, NEW j \in Jobs, Guarded(j), QueueLapse(j) \/ StoreLapse(j)
  PROVE  Guarded(j)'
<1>1. /\ UNCHANGED <<workerVars, reaperVars, ready>>
      /\ leases[j] # "none" => leases'[j] # "none"
  BY DEF QueueLapse, StoreLapse, QueueLeaseExpires, queueVars, TypeOK, QueueTypeOK
<1> QED
  BY <1>1 DEF Guarded, Firm, Unattended, workerVars, reaperVars

\* A reaper has the jobs in hand that it returns to pending, and pushes them.
LEMMA ReapersKeepPending ==
  ASSUME TypeOK, SweepsEnd, Smoothly, NEW j \in Jobs, NEW r \in Reapers, Reap(r) \/ ReaperCrash(r),
         status[j] = "pending" => Guarded(j), status'[j] = "pending"
  PROVE  Guarded(j)'
<1> USE DEF TypeOK, ReaperTypeOK
<1>1. ~(ReapStoreFails(r) \/ ReaperCrash(r))
  BY SmoothCalls DEF ReapStoreFails, ReaperCrash
<1>2. CASE ReapQueue(r)
  <2>1. UNCHANGED <<storeVars, workerVars, orphans>>
    BY <1>2 DEF ReapQueue
  <2>2. PICK B \in SUBSET ExpiredLeases : Reclaim(B)
    BY <1>2, SmoothCalls DEF ReapQueue, Batches
  <2>3. B \in SUBSET Jobs
    BY DEF ExpiredLeases
  <2>4. PICK q \in SetToSeqs(B) : ready' = ready \o q
    BY <2>2 DEF Reclaim
  <2>5. (~Lacks(ready, j) => ~Lacks(ready', j)) /\ (j \in B => ~Lacks(ready', j))
    BY <2>3, <2>4, ConcatCopies DEF QueueTypeOK
  <2>6. j \notin B => leases'[j] = leases[j]
    BY <2>2 DEF Reclaim, DropLeases
  <2>7. Guarded(j)
    BY <2>1 DEF storeVars
  <2> QED
    BY <2>1, <2>5, <2>6, <2>7 DEF Guarded, Firm, Unattended, Lacks, workerVars
<1>3. CASE ReapStore(r)
  <2>1. PICK B \in SUBSET Orphaned : ReclaimExpiredJobs(B) /\ orphans' = [orphans EXCEPT ![r] = B]
    BY <1>3 DEF ReapStore, Batches
  <2>2. CASE j \in B
    BY <2>1, <2>2 DEF Guarded, Firm
  <2>3. CASE j \notin B
    <3>1. status[j] = "pending"
      BY <2>1, <2>3 DEF ReclaimExpiredJobs, ToPending
    <3>2. orphans[r] = {}
      BY <1>3 DEF ReapStore, SweepsEnd
    <3>3. \A q \in Reapers : j \in orphans[q] => j \in orphans'[q]
      BY <2>1, <3>2
    <3> QED
      BY <1>3, <3>1, <3>3 DEF ReapStore, Guarded, Firm, Unattended, queueVars, workerVars
  <2> QED
    BY <2>2, <2>3
<1>4. CASE PushOrphan(r)
  <2>1. UNCHANGED <<storeVars, workerVars>>
    BY <1>4 DEF PushOrphan
  <2>2. PICK k \in orphans[r] : Push(k) /\ orphans' = [orphans EXCEPT ![r] = @ \ {k}]
    BY <1>4, SmoothCalls DEF PushOrphan
  <2>3. k \in Jobs
    OBVIOUS
  <2>4. (~Lacks(ready, j) => ~Lacks(ready', j)) /\ (k = j => ~Lacks(ready', j))
    BY <2>2, <2>3, AppendCopies DEF Push, QueueTypeOK
  <2>5. k # j => \A q \in Reapers : j \in orphans[q] => j \in orphans'[q]
    BY <2>2
  <2>6. Guarded(j) /\ UNCHANGED leases
    BY <2>1, <2>2 DEF storeVars, Push
  <2> QED
    BY <2>1, <2>4, <2>5, <2>6 DEF Guarded, Firm, Unattended, Lacks, workerVars
<1>5. CASE ReapEnds(r)
  BY <1>5 DEF ReapEnds, Guarded, Firm, Unattended, queueVars, storeVars, workerVars
<1> QED
  BY <1>1, <1>2, <1>3, <1>4, <1>5 DEF Reap

\* In a step in which nothing fails, an accepted job that becomes pending is in
\* somebody's hands, and one that is pending stays safe.
LEMMA SmoothStep ==
  ASSUME TypeOK, OwnedRuns, SweepsEnd, Next, Smoothly, NEW j \in Jobs,
         submit[j] = "accepted" /\ status[j] = "pending" => Guarded(j),
         submit'[j] = "accepted", status'[j] = "pending"
  PROVE  Guarded(j)'
<1>1. ASSUME Untouched(j) PROVE Guarded(j)'
  BY <1>1, UntouchedGuarded DEF Untouched, RowKept
<1>2. ASSUME NEW w \in Workers, WorkerStep(w) PROVE Guarded(j)'
  <2>1. submit[j] = "accepted"
    BY <1>2, WorkerQueue
  <2> QED
    BY <1>2, <2>1, WorkersKeepPending, WorkersReturnPending
<1>3. ASSUME NEW k \in Jobs, Submit(k) PROVE Guarded(j)'
  BY <1>1, <1>3, RequestAway, RequestsKeepPending
<1>4. ASSUME NEW k \in Jobs, QueueLapse(k) \/ StoreLapse(k) PROVE Guarded(j)'
  <2>1. CASE k # j
    BY <1>1, <1>4, <2>1, TimeAway
  <2>2. CASE k = j
    <3>1. UNCHANGED <<submit, status>>
      BY <1>4 DEF QueueLapse, StoreLapse, StoreLeaseExpires, storeVars
    <3> QED
      BY <1>4, <2>2, <3>1, TimeKeepsPending
  <2> QED
    BY <2>1, <2>2
<1>5. ASSUME NEW r \in Reapers, Reap(r) \/ ReaperCrash(r) PROVE Guarded(j)'
  <2>1. UNCHANGED submit
    BY <1>5 DEF Reap, ReapQueue, ReapStore, ReapStoreFails, PushOrphan, ReapEnds, ReaperCrash
  <2> QED
    BY <1>5, <2>1, ReapersKeepPending
<1>6. ~RedisLoss
  BY SmoothCalls DEF RedisLoss
<1> QED
  BY <1>2, <1>3, <1>4, <1>5, <1>6, NextSplit DEF OtherStep
\* A reaper has pushed everything before it sweeps again.
LEMMA SweepsEndStep ==
  ASSUME TypeOK, SweepsEnd, [Next]_vars
  PROVE  SweepsEnd'
<1> USE DEF TypeOK, ReaperTypeOK, SweepsEnd
<1>1. ASSUME UNCHANGED reaperVars PROVE SweepsEnd'
  BY <1>1 DEF reaperVars
<1>2. ASSUME NEW r \in Reapers, Reap(r) \/ ReaperCrash(r) PROVE SweepsEnd'
  BY <1>2 DEF Reap, ReapQueue, ReapStore, ReapStoreFails, PushOrphan, ReapEnds, ReaperCrash
<1>3. ASSUME NEW w \in Workers, WorkerStep(w) PROVE UNCHANGED reaperVars
  BY <1>3, WorkerQueue
<1>4. ASSUME NEW j \in Jobs, Submit(j) \/ QueueLapse(j) \/ StoreLapse(j) PROVE UNCHANGED reaperVars
  BY <1>4 DEF Submit, Create, CreateFails, Dispatch, DispatchFails, FailDispatch, SubmitDies,
              QueueLapse, StoreLapse
<1>5. RedisLoss \/ UNCHANGED vars => UNCHANGED reaperVars
  BY DEF RedisLoss, vars
<1> QED
  BY <1>1, <1>2, <1>3, <1>4, <1>5, NextSplit DEF OtherStep

\* Whatever fails, faults are counted.
LEMMA FaultsCounted ==
  ASSUME Next
  PROVE  faults' = faults \/ \E k : Fault(k)
<1> USE DEF Interrupted, RunInterrupted
<1>1. ASSUME NEW j \in Jobs, Submit(j) \/ QueueLapse(j) \/ StoreLapse(j)
      PROVE  faults' = faults \/ \E k : Fault(k)
  BY <1>1 DEF Submit, Create, CreateFails, Dispatch, DispatchFails, FailDispatch, SubmitDies,
              QueueLapse, StoreLapse
<1>2. ASSUME NEW r \in Reapers, Reap(r) \/ ReaperCrash(r)
      PROVE  faults' = faults \/ \E k : Fault(k)
  BY <1>2 DEF Reap, ReapQueue, ReapStore, ReapStoreFails, PushOrphan, ReapEnds, ReaperCrash
<1>3. ASSUME NEW w \in Workers, WorkerStep(w)
      PROVE  faults' = faults \/ \E k : Fault(k)
  <2>1. CASE QueueClaim(w) \/ QueueClaimLost(w) \/ Park(w) \/ Wake(w) \/ Stop(w)
    BY <2>1 DEF QueueClaim, QueueClaimLost, Park, Wake, Stop
  <2>2. CASE TakeJob(w) \/ RefuseJob(w) \/ TakeJobFails(w) \/ Drop(w) \/ DeadLetter(w) \/ DeadLog(w)
    BY <2>2 DEF TakeJob, RefuseJob, TakeJobFails, Drop, DeadLetter, DeadLog
  <2>3. CASE Load(w) \/ LoadUnresolved(w) \/ LoadFails(w) \/ StartWave(w) \/ EndRun(w)
    BY <2>3 DEF Load, LoadUnresolved, LoadFails, StartWave, EndRun
  <2>4. CASE \E s \in Steps : RunStep(w, s)
    BY <2>4 DEF RunStep, CallAgent, RefuseStep, ClaimStepFails, AgentSucceeds, AgentFails,
                RetryStep, FailStep, Drain
  <2>5. CASE AbandonLost(w) \/ AbandonReleased(w) \/ AbandonFails(w) \/ RequeueJob(w)
    BY <2>5 DEF AbandonLost, AbandonReleased, AbandonFails, RequeueJob
  <2>6. CASE WriteResult(w) \/ Finish(w) \/ FinishFails(w) \/ LogCompleted(w) \/ AckJob(w)
    BY <2>6 DEF WriteResult, Finish, FinishFails, LogCompleted, AckJob
  <2>7. CASE Beat(w) \/ Crash(w) \/ Shutdown(w)
    BY <2>7 DEF Beat, BeatStore, BeatStoreFails, BeatQueue, BeatQueueFails, Crash, Shutdown
  <2> QED
    BY <1>3, <2>1, <2>2, <2>3, <2>4, <2>5, <2>6, <2>7 DEF WorkerStep, Work
<1>4. CASE RedisLoss
  BY <1>4 DEF RedisLoss
<1> QED
  BY <1>1, <1>2, <1>3, <1>4, NextSplit DEF OtherStep

\* Only Shutdown cancels the context of a worker.
LEMMA OnlyShutdownStops ==
  ASSUME NEW w \in Workers, WorkerStep(w)
  PROVE  UNCHANGED stopping \/ Shutdown(w)
<1> USE DEF workerVars
<1>1. CASE QueueClaim(w) \/ QueueClaimLost(w) \/ Park(w) \/ Wake(w) \/ Stop(w)
  BY <1>1 DEF QueueClaim, QueueClaimLost, Park, Wake, Stop
<1>2. CASE TakeJob(w) \/ RefuseJob(w) \/ TakeJobFails(w) \/ Drop(w) \/ DeadLetter(w) \/ DeadLog(w)
  BY <1>2 DEF TakeJob, RefuseJob, TakeJobFails, Drop, DeadLetter, DeadLog, Leave
<1>3. CASE Load(w) \/ LoadUnresolved(w) \/ LoadFails(w) \/ StartWave(w) \/ EndRun(w)
  BY <1>3 DEF Load, LoadUnresolved, LoadFails, StartWave, EndRun
<1>4. CASE \E s \in Steps : RunStep(w, s)
  BY <1>4 DEF RunStep, CallAgent, RefuseStep, ClaimStepFails, AgentSucceeds, AgentFails,
              RetryStep, FailStep, Drain
<1>5. CASE AbandonLost(w) \/ AbandonReleased(w) \/ AbandonFails(w) \/ RequeueJob(w)
  BY <1>5 DEF AbandonLost, AbandonReleased, AbandonFails, RequeueJob, Leave
<1>6. CASE WriteResult(w) \/ Finish(w) \/ FinishFails(w) \/ LogCompleted(w) \/ AckJob(w)
  BY <1>6 DEF WriteResult, Finish, FinishFails, LogCompleted, AckJob, Leave
<1>7. CASE Beat(w) \/ Crash(w)
  BY <1>7 DEF Beat, BeatStore, BeatStoreFails, BeatQueue, BeatQueueFails, Crash
<1> QED
  BY <1>1, <1>2, <1>3, <1>4, <1>5, <1>6, <1>7 DEF WorkerStep, Work

\* With one fault at most, one worker at most is shut down.
LEMMA OneShutdownStep ==
  ASSUME TypeOK, OneShutdown, MaxFaults <= 1, [Next]_vars
  PROVE  OneShutdown'
<1>1. faults \in Nat
  BY ServiceAssumption DEF TypeOK, ServiceAssumption
<1>2. faults # 0 => faults' # 0
  BY <1>1, FaultsCounted DEF Fault, vars
<1>3. CASE UNCHANGED stopping
  BY <1>2, <1>3 DEF OneShutdown
<1>4. ASSUME NEW w \in Workers, Shutdown(w) PROVE OneShutdown'
  <2>1. faults = 0 /\ faults' = 1 /\ stopping' = [stopping EXCEPT ![w] = TRUE]
    BY <1>1, <1>4, ServiceAssumption DEF Shutdown, Fault, ServiceAssumption
  <2>2. \A v \in Workers : ~stopping[v]
    BY <2>1 DEF OneShutdown
  <2> QED
    BY <2>1, <2>2 DEF OneShutdown, TypeOK, WorkerTypeOK
<1> QED
  BY <1>3, <1>4, NextSplit, OtherStatements, OnlyShutdownStops DEF vars, workerVars

\* No statement removes the row of a job.
LEMMA RowsRemainStep ==
  ASSUME TypeOK, RowsRemain, [Next]_vars
  PROVE  RowsRemain'
<1> SUFFICES ASSUME NEW j \in Jobs, submit'[j] \in {"created", "accepted"}
             PROVE  status'[j] # "absent"
  BY DEF RowsRemain
<1> USE DEF TypeOK, StoreTypeOK
<1>1. ASSUME Untouched(j) \/ (submit'[j] = submit[j] /\ (status'[j] = status[j] \/ status'[j] # "absent"))
      PROVE  status'[j] # "absent"
  BY <1>1 DEF Untouched, RowKept, RowsRemain
<1>2. ASSUME NEW w \in Workers, WorkerStep(w) PROVE status'[j] # "absent"
  <2>1. UNCHANGED submit
    BY <1>2, WorkerQueue
  <2>2. CASE RowsOnly \/ Renews(w)
    BY <1>1, <2>1, <2>2 DEF RowsOnly, Renews, ExtendLease
  <2>3. CASE Claims(w)
    BY <1>1, <2>1, <2>3, ClaimStatus DEF Claims
  <2>4. CASE Releases(w)
    <3>1. PICK S : ToPending(S)
      BY <2>4 DEF Releases, ReleaseJob
    <3>2. status'[j] = status[j] \/ status'[j] # "absent"
      BY <3>1, PendingStatus
    <3> QED
      BY <1>1, <2>1, <3>2
  <2>5. CASE Ends(w)
    <3>1. PICK st \in {"succeeded", "failed"}, err \in {"", "workflow", "config", "dead letter"} :
            FinishJob(job[w], w, st, err)
      BY <2>5, EndsEffect
    <3>2. status'[j] = status[j] \/ status'[j] = st
      BY <3>1, FinishStatus
    <3> QED
      BY <1>1, <2>1, <3>2
  <2> QED
    BY <1>2, <2>2, <2>3, <2>4, <2>5, WorkerStatements
<1>3. ASSUME NEW k \in Jobs, Submit(k) PROVE status'[j] # "absent"
  <2>1. CASE k # j
    BY <1>1, <1>3, <2>1, RequestAway
  <2>2. CASE k = j
    <3>1. Create(j) \/ Dispatch(j)
      BY <1>3, <2>2 DEF Submit, Create, CreateFails, Dispatch, DispatchFails, FailDispatch, SubmitDies
    <3> QED
      BY <3>1 DEF Create, Dispatch, CreateJob, RowsRemain, storeVars
  <2> QED
    BY <2>1, <2>2
<1>4. ASSUME NEW k \in Jobs, QueueLapse(k) \/ StoreLapse(k) PROVE status'[j] # "absent"
  BY <1>1, <1>4 DEF QueueLapse, StoreLapse, StoreLeaseExpires, storeVars
<1>5. ASSUME NEW r \in Reapers, Reap(r) \/ ReaperCrash(r) PROVE status'[j] # "absent"
  <2>1. UNCHANGED submit
    BY <1>5 DEF Reap, ReapQueue, ReapStore, ReapStoreFails, PushOrphan, ReapEnds, ReaperCrash
  <2>2. UNCHANGED storeVars \/ \E B \in SUBSET Orphaned : ReclaimExpiredJobs(B)
    BY <1>5 DEF Reap, ReapQueue, ReapStore, ReapStoreFails, PushOrphan, ReapEnds, ReaperCrash, Batches
  <2> QED
    BY <1>1, <2>1, <2>2, PendingStatus DEF ReclaimExpiredJobs, storeVars
<1>6. CASE RedisLoss \/ UNCHANGED vars
  BY <1>1, <1>6 DEF RedisLoss, vars, storeVars
<1> QED
  BY <1>2, <1>3, <1>4, <1>5, <1>6, NextSplit DEF OtherStep
\* A worker that has come to its end takes no step.
LEMMA EndedWorkers ==
  ASSUME TypeOK, NEW w \in Workers, ~Alive(w)
  PROVE  ~WorkerStep(w)
<1> USE DEF Alive
<1>1. ~(QueueClaim(w) \/ QueueClaimLost(w) \/ Park(w) \/ Wake(w) \/ Stop(w) \/ TakeJob(w)
        \/ RefuseJob(w) \/ TakeJobFails(w) \/ Drop(w) \/ DeadLetter(w) \/ DeadLog(w) \/ Load(w)
        \/ LoadUnresolved(w) \/ LoadFails(w) \/ StartWave(w) \/ EndRun(w))
  BY DEF QueueClaim, QueueClaimLost, Park, Wake, Stop, TakeJob, RefuseJob, TakeJobFails, Drop,
         DeadLetter, DeadLog, Load, LoadUnresolved, LoadFails, StartWave, EndRun
<1>2. ~(AbandonLost(w) \/ AbandonReleased(w) \/ AbandonFails(w) \/ RequeueJob(w) \/ WriteResult(w)
        \/ Finish(w) \/ FinishFails(w) \/ LogCompleted(w) \/ AckJob(w) \/ Beat(w) \/ Crash(w)
        \/ Shutdown(w))
  BY DEF AbandonLost, AbandonReleased, AbandonFails, RequeueJob, WriteResult, Finish, FinishFails,
         LogCompleted, AckJob, Beat, BeatStore, BeatStoreFails, BeatQueue, BeatQueueFails, Crash, Shutdown
<1>3. ~\E s \in Steps : RunStep(w, s)
  BY WaveRuns DEF RunStep, CallAgent, RefuseStep, ClaimStepFails, AgentSucceeds, AgentFails,
         RetryStep, FailStep
<1> QED
  BY <1>1, <1>2, <1>3 DEF WorkerStep, Work

\* Once the one fault has happened and a shutdown has come to its end, nothing
\* fails any more.
LEMMA AfterTheFault ==
  ASSUME TypeOK, MaxFaults <= 1, ~Calm, Next
  PROVE  Smoothly /\ ~Calm'
<1>1. faults # 0 /\ \A k : ~Fault(k)
  BY ServiceAssumption DEF Calm, TypeOK, Fault, ServiceAssumption
<1>2. faults' = faults /\ \A w \in Workers : stopping[w] => ~Alive(w)
  BY <1>1, FaultsCounted DEF Calm
<1>3. \A w \in Workers : ~Shutdown(w)
  BY <1>1 DEF Shutdown
<1>4. UNCHANGED stopping
  BY <1>3, NextSplit, OtherStatements, OnlyShutdownStops DEF workerVars
<1>5. ASSUME NEW v \in Workers, stopping[v] PROVE pc'[v] = pc[v]
  BY <1>2, <1>5, NextSplit, EndedWorkers, OthersKeep, OtherStatements DEF workerVars
<1> QED
  BY <1>1, <1>2, <1>4, <1>5 DEF Smoothly, Calm, Alive

\* A job that is in order in the next state is safe in it.
LEMMA OrderIsGuardedNext ==
  ASSUME NEW j \in Jobs, InOrder(j)', submit'[j] = "accepted", status'[j] = "pending"
  PROVE  Guarded(j)'
<1>1. Waiting(j)' => Firm(j)'
  BY DEF Waiting, Firm
<1>2. ASSUME NEW w \in Workers, Delivered(j, w)' PROVE Firm(j)'
  BY <1>2 DEF Delivered, RowFits, Held, Terminal, Firm
<1> QED
  BY <1>1, <1>2 DEF InOrder, Guarded, Terminal

\* The invariant holds in the next state too: as long as all is calm because
\* every job has one copy, and after the fault because nothing else fails.
LEMMA LossInvStep ==
  ASSUME TypeOK, FenceInv, LossInv, MaxFaults <= 1, "flush" \notin FaultKinds, [Next]_vars
  PROVE  LossInv'
<1> USE DEF LossInv
<1>1. SweepsEnd' /\ OneShutdown' /\ RowsRemain'
  BY SweepsEndStep, OneShutdownStep, RowsRemainStep
<1>2. CASE Next /\ Calm
  <2>1. NoLeaseLost /\ \A j \in Jobs : InOrder(j)
    BY <1>2 DEF SingleCopies
  <2>2. \A j \in Jobs : Kept(j)
    BY <1>2, <2>1, CalmStep DEF FenceInv
  <2>3. NoLeaseLost'
    BY <2>1, NoLeaseLostStep
  <2>4. SingleCopies'
    BY <2>2, <2>3 DEF SingleCopies, Kept
  <2>5. PendingGuarded'
    BY <2>2, OrderIsGuardedNext DEF Kept, PendingGuarded
  <2> QED
    BY <1>1, <2>4, <2>5
<1>3. CASE Next /\ ~Calm
  <2>1. Smoothly /\ ~Calm'
    BY <1>3, AfterTheFault
  <2>2. PendingGuarded'
    BY <1>3, <2>1, SmoothStep DEF PendingGuarded, FenceInv
  <2> QED
    BY <1>1, <2>1, <2>2 DEF SingleCopies
<1>4. CASE UNCHANGED vars
  <2>1. SingleCopies'
    <3>1. \A j \in Jobs : Untouched(j)
      BY <1>4 DEF vars, queueVars, storeVars, workerVars, reaperVars, Untouched, RowKept, CopiesKept, HandsKept
    <3>2. Calm' = Calm /\ NoLeaseLost' = NoLeaseLost
      BY <1>4 DEF vars, workerVars, engineVars, Calm, Alive, NoLeaseLost
    <3> QED
      BY <3>1, <3>2, UntouchedOrder DEF SingleCopies
  <2>2. PendingGuarded'
    BY <1>4 DEF vars, queueVars, storeVars, workerVars, reaperVars, PendingGuarded, Guarded, Firm, Unattended
  <2> QED
    BY <1>1, <2>1, <2>2
<1> QED
  BY <1>2, <1>3, <1>4

\* If one thing fails at most, and Redis keeps its data, a fault finds a single
\* copy of every job and leaves every pending job where no ack can lose it.
THEOREM OneFaultIsSafe ==
  ASSUME MaxFaults <= 1, "flush" \notin FaultKinds
  PROVE  Spec => []LossInv
<1>1. Init => LossInv
  <2> SUFFICES ASSUME Init PROVE LossInv
    OBVIOUS
  <2>1. \A i \in DOMAIN ready : FALSE
    <3>1. ready \in Seq(Jobs) /\ Len(ready) = 0
      BY EmptySeq DEF Init, EmptyQueue
    <3>2. DOMAIN ready = 1..0
      BY <3>1, LenProperties
    <3> QED
      BY <3>2
  <2>2. leases = [j \in Jobs |-> "none"] /\ job = [w \in Workers |-> None]
    BY DEF Init, EmptyQueue
  <2>3. \A j \in Jobs : Nowhere(j)
    BY <2>1, <2>2, IdentityAssumption DEF IdentityAssumption, Nowhere, Unattended
  <2>4. \A j \in Jobs : InOrder(j)
    BY <2>3 DEF InOrder, Init, EmptyStore
  <2>5. NoLeaseLost /\ PendingGuarded /\ SweepsEnd /\ OneShutdown /\ RowsRemain
    BY DEF Init, NoLeaseLost, PendingGuarded, SweepsEnd, OneShutdown, RowsRemain
  <2> QED
    BY <2>4, <2>5 DEF LossInv, SingleCopies
<1>2. TypeOK /\ FenceInv /\ LossInv /\ [Next]_vars => LossInv'
  BY LossInvStep
<1> QED
  BY <1>1, <1>2, TypeCorrect, FencesHold, PTL DEF Spec

\* No accepted job is lost by a single crash, shutdown, stall, failed statement,
\* failed queue operation or failed sweep, at whatever moment it comes.
THEOREM NothingIsLost ==
  ASSUME MaxFaults <= 1, "flush" \notin FaultKinds
  PROVE  Spec => []NoJobLost
<1>1. TypeOK /\ LossInv => NoJobLost
  <2> SUFFICES ASSUME TypeOK, LossInv, NEW j \in Jobs, submit[j] = "accepted"
               PROVE  Terminal(j) \/ Recoverable(j)
    BY DEF NoJobLost
  <2>1. status[j] # "absent"
    BY DEF LossInv, RowsRemain
  <2>2. CASE status[j] = "pending"
    BY <2>2 DEF LossInv, PendingGuarded, Guarded, Recoverable
  <2> QED
    BY <2>1, <2>2 DEF TypeOK, StoreTypeOK, Terminal, Recoverable
<1> QED
  BY <1>1, TypeCorrect, OneFaultIsSafe, PTL

\* However much has failed before, a step in which nothing fails loses nothing.
LossNeedsFault ==
  [][Smoothly =>
       \A j \in Jobs :
         (submit[j] = "accepted" /\ status[j] = "pending" => Guarded(j)) =>
           (submit'[j] = "accepted" /\ status'[j] = "pending" => Guarded(j)')]_vars

\* For every set of faults and every budget: a pending job that is safe is put
\* at risk only by a step that fails or while a worker is shutting down, and a
\* job that becomes pending in any other step is safe.
THEOREM OnlyFaultsLose == Spec => LossNeedsFault
<1>1. Init => SweepsEnd
  BY DEF Init, SweepsEnd
<1>2. TypeOK /\ SweepsEnd /\ [Next]_vars => SweepsEnd'
  BY SweepsEndStep
<1>3. TypeOK /\ FenceInv /\ SweepsEnd /\ [Next]_vars =>
        [Smoothly =>
           \A j \in Jobs :
             (submit[j] = "accepted" /\ status[j] = "pending" => Guarded(j)) =>
               (submit'[j] = "accepted" /\ status'[j] = "pending" => Guarded(j)')]_vars
  BY SmoothStep DEF FenceInv
<1> QED
  BY <1>1, <1>2, <1>3, TypeCorrect, FencesHold, PTL DEF Spec, LossNeedsFault


=============================================================================
