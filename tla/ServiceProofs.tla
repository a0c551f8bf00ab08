--------------------------- MODULE ServiceProofs ---------------------------
(***************************************************************************)
(* Theorems about Service for every value of its constants.                *)
(***************************************************************************)
EXTENDS Service, FiniteSetTheorems, SequenceTheorems, TLAPS

-----------------------------------------------------------------------------
(* The operations of the queue and of the store keep the types.            *)

\* The successor of a natural number is one.
LEMMA NatSucc == ASSUME NEW n \in Nat PROVE n + 1 \in Nat
OBVIOUS

\* What a sweep pushes is a sequence of jobs.
LEMMA SetToSeqsType ==
  ASSUME NEW B \in SUBSET Jobs, NEW q \in SetToSeqs(B)
  PROVE  q \in Seq(Jobs)
<1>1. IsFiniteSet(B)
  BY FS_Subset, IdentityAssumption DEF IdentityAssumption
<1>2. Cardinality(B) \in Nat
  BY <1>1, FS_CardinalityType
<1>3. q \in [1..Cardinality(B) -> Jobs]
  BY DEF SetToSeqs
<1> QED
  BY <1>2, <1>3, SeqDef

\* Every Lua script leaves the four keys well formed.
LEMMA QueueOpsType ==
  ASSUME QueueTypeOK
  PROVE  /\ \A j \in Jobs : Push(j) => QueueTypeOK'
         /\ \A w \in Workers : Claim(w) => QueueTypeOK' /\ Head(ready) \in Jobs
         /\ BRPop => QueueTypeOK'
         /\ \A j \in Jobs : Ack(j) => QueueTypeOK'
         /\ \A j \in Jobs : Requeue(j) => QueueTypeOK'
         /\ \A j \in Jobs, w \in Workers : Extend(j, w) => QueueTypeOK'
         /\ \A B \in SUBSET Jobs : Reclaim(B) => QueueTypeOK'
         /\ \A j \in Jobs : QueueLeaseExpires(j) => QueueTypeOK'
         /\ Flush => QueueTypeOK'
<1> USE QueueAssumption DEF QueueAssumption
<1>1. Hint => notify' \in 0..(NotifyBacklog + 1)
  BY DEF QueueTypeOK, Hint
<1>2. ASSUME NEW S \in SUBSET Jobs, DropLeases(S)
      PROVE  /\ leases' \in [Jobs -> {"none", "live", "expired"}]
             /\ owners' \in [Jobs -> Workers \cup {None}]
  BY <1>2 DEF QueueTypeOK, DropLeases
<1>3. ready \in Seq(Jobs) /\ \A j \in Jobs : Append(ready, j) \in Seq(Jobs)
  BY DEF QueueTypeOK
<1>4. \A j \in Jobs : Push(j) => QueueTypeOK'
  BY <1>1, <1>3 DEF QueueTypeOK, Push
<1>5. \A w \in Workers : Claim(w) => QueueTypeOK' /\ Head(ready) \in Jobs
  BY <1>3 DEF QueueTypeOK, Claim
<1>6. BRPop => QueueTypeOK'
  BY DEF QueueTypeOK, BRPop
<1>7. \A j \in Jobs : Ack(j) => QueueTypeOK'
  BY <1>2 DEF QueueTypeOK, Ack
<1>8. \A j \in Jobs : Requeue(j) => QueueTypeOK'
  BY <1>1, <1>2, <1>3 DEF QueueTypeOK, Requeue
<1>9. \A j \in Jobs, w \in Workers : Extend(j, w) => QueueTypeOK'
  BY DEF QueueTypeOK, Extend
<1>10. ASSUME NEW B \in SUBSET Jobs, Reclaim(B) PROVE QueueTypeOK'
  <2>1. PICK q \in SetToSeqs(B) : ready' = ready \o q
    BY <1>10 DEF Reclaim
  <2>2. ready' \in Seq(Jobs)
    BY <1>3, <2>1, SetToSeqsType
  <2>3. notify' \in 0..(NotifyBacklog + 1)
    BY <1>1, <1>10 DEF Reclaim, QueueTypeOK
  <2> QED
    BY <1>2, <1>10, <2>2, <2>3 DEF Reclaim, QueueTypeOK
<1>11. \A j \in Jobs : QueueLeaseExpires(j) => QueueTypeOK'
  BY DEF QueueTypeOK, QueueLeaseExpires
<1>12. Flush => QueueTypeOK'
  BY DEF QueueTypeOK, Flush
<1> QED
  BY <1>4, <1>5, <1>6, <1>7, <1>8, <1>9, <1>10, <1>11, <1>12

\* Every statement leaves the tables well formed.
LEMMA StoreOpsType ==
  ASSUME StoreTypeOK
  PROVE  /\ \A j \in Jobs : CreateJob(j) => StoreTypeOK'
         /\ \A j \in Jobs, w \in Workers : ClaimJob(j, w) => StoreTypeOK'
         /\ \A j \in Jobs, w \in Workers : ExtendLease(j, w) => StoreTypeOK'
         /\ \A j \in Jobs : \A who \in Workers \cup {None} :
              \A st \in {"succeeded", "failed"} :
                \A err \in {"", "workflow", "config", "dead letter", "enqueue"} :
                  FinishJob(j, who, st, err) => StoreTypeOK'
         /\ \A j \in Jobs, w \in Workers : ReleaseJob(j, w) => StoreTypeOK'
         /\ \A B \in SUBSET Jobs : ReclaimExpiredJobs(B) => StoreTypeOK'
         /\ \A j \in Jobs, s \in Steps, w \in Workers : ClaimStep(j, s, w) => StoreTypeOK'
         /\ \A j \in Jobs, s \in Steps, w \in Workers, outcome \in StepOutcomes :
              UpdateStep(j, s, w, outcome) => StoreTypeOK'
         /\ \A j \in Jobs, type \in TerminalEvents : AppendEvent(j, type) => StoreTypeOK'
         /\ \A j \in Jobs : StoreLeaseExpires(j) => StoreTypeOK'
<1> DEFINE Row == [Steps -> {"pending", "running"} \cup StepOutcomes]
<1>1. \A j \in Jobs : CreateJob(j) => StoreTypeOK'
  BY DEF StoreTypeOK, CreateJob
<1>2. ASSUME NEW j \in Jobs, NEW w \in Workers, ClaimJob(j, w)
      PROVE  StoreTypeOK'
  <2>1. attempts \in [Jobs -> Nat] /\ attempts[j] \in Nat
    BY DEF StoreTypeOK
  <2>2. attempts[j] + 1 \in Nat
    BY <2>1, NatSucc
  <2>3. attempts' = [attempts EXCEPT ![j] = attempts[j] + 1]
    BY <1>2 DEF ClaimJob
  <2>4. attempts' \in [Jobs -> Nat]
    BY <2>1, <2>2, <2>3
  <2> QED
    BY <1>2, <2>4 DEF StoreTypeOK, ClaimJob
<1>3. \A j \in Jobs, w \in Workers : ExtendLease(j, w) => StoreTypeOK'
  BY DEF StoreTypeOK, ExtendLease
<1>4. ASSUME NEW j \in Jobs, NEW who \in Workers \cup {None}, NEW st \in {"succeeded", "failed"},
             NEW err \in {"", "workflow", "config", "dead letter", "enqueue"},
             FinishJob(j, who, st, err)
      PROVE  StoreTypeOK'
  BY <1>4 DEF StoreTypeOK, FinishJob
<1>5. ASSUME NEW S \in SUBSET Jobs, ToPending(S) PROVE StoreTypeOK'
  BY <1>5 DEF StoreTypeOK, ToPending
<1>6. \A j \in Jobs, w \in Workers : ReleaseJob(j, w) => StoreTypeOK'
  BY <1>5 DEF ReleaseJob
<1>7. \A B \in SUBSET Jobs : ReclaimExpiredJobs(B) => StoreTypeOK'
  BY <1>5 DEF ReclaimExpiredJobs
<1>8. ASSUME NEW j \in Jobs, NEW s \in Steps, NEW w \in Workers, ClaimStep(j, s, w)
      PROVE  StoreTypeOK'
  <2>1. [stepStatus[j] EXCEPT ![s] = "running"] \in Row
    BY DEF StoreTypeOK
  <2>2. stepStatus' \in [Jobs -> Row]
    BY <1>8, <2>1 DEF StoreTypeOK, ClaimStep
  <2> QED
    BY <1>8, <2>2 DEF StoreTypeOK, ClaimStep
<1>9. ASSUME NEW j \in Jobs, NEW s \in Steps, NEW w \in Workers, NEW outcome \in StepOutcomes,
             UpdateStep(j, s, w, outcome)
      PROVE  StoreTypeOK'
  <2>1. [stepStatus[j] EXCEPT ![s] = outcome] \in Row
    BY DEF StoreTypeOK
  <2>2. stepStatus' \in [Jobs -> Row]
    BY <1>9, <2>1 DEF StoreTypeOK, UpdateStep
  <2> QED
    BY <1>9, <2>2 DEF StoreTypeOK, UpdateStep
<1>10. ASSUME NEW j \in Jobs, NEW type \in TerminalEvents, AppendEvent(j, type)
       PROVE  StoreTypeOK'
  <2>1. events[j] \cup {type} \in SUBSET TerminalEvents
    BY DEF StoreTypeOK
  <2>2. events' \in [Jobs -> SUBSET TerminalEvents]
    BY <1>10, <2>1 DEF StoreTypeOK, AppendEvent
  <2> QED
    BY <1>10, <2>2 DEF StoreTypeOK, AppendEvent
<1>11. \A j \in Jobs : StoreLeaseExpires(j) => StoreTypeOK'
  BY DEF StoreTypeOK, StoreLeaseExpires
<1> QED
  BY <1>1, <1>2, <1>3, <1>4, <1>6, <1>7, <1>8, <1>9, <1>10, <1>11

-----------------------------------------------------------------------------
(* Type correctness.                                                       *)

\* A fault stays within the budget.
LEMMA FaultType ==
  ASSUME faults \in 0..MaxFaults
  PROVE  /\ \A k : Fault(k) => faults' \in 0..MaxFaults
         /\ \A w, k : Interrupted(w, k) => faults' \in 0..MaxFaults
         /\ \A w, k : RunInterrupted(w, k) => faults' \in 0..MaxFaults
BY ServiceAssumption DEF ServiceAssumption, Fault, Interrupted, RunInterrupted

\* A worker that moves on with its job, outside a run before and after.
LEMMA GotoType ==
  ASSUME TypeOK, NEW w \in Workers, NEW label \in PCs, Goto(w, label),
         label \in Busy => job[w] \in Jobs, pc[w] = "run" => label = "run",
         UNCHANGED <<job, ctx, stopping, verdict, written, engineVars>>,
         UNCHANGED beat \/ \E b \in {"off", "wait", "held", "lost"} : beat' = [beat EXCEPT ![w] = b]
  PROVE  WorkerTypeOK' /\ EngineTypeOK'
<1> USE DEF TypeOK, Goto
<1>1. pc' \in [Workers -> PCs] /\ pc' = [pc EXCEPT ![w] = label]
  BY DEF WorkerTypeOK
<1>2. \A v \in Workers : pc'[v] \in Busy => job'[v] \in Jobs
  BY <1>1 DEF WorkerTypeOK
<1>3. beat' \in [Workers -> {"off", "wait", "held", "lost"}]
  BY DEF WorkerTypeOK
<1>4. WorkerTypeOK'
  BY <1>1, <1>2, <1>3 DEF WorkerTypeOK
<1>5. \A v \in Workers : pc'[v] # "run" => phase'[v] = [s \in Steps |-> "off"]
  BY <1>1 DEF WorkerTypeOK, EngineTypeOK, engineVars
<1>6. EngineTypeOK'
  BY <1>5 DEF EngineTypeOK, engineVars
<1> QED
  BY <1>4, <1>6

\* A worker that drops what it had, and ends or looks for the next delivery.
LEMMA DiscardType ==
  ASSUME TypeOK, NEW w \in Workers, NEW label \in PCs \ Busy, Goto(w, label),
         Discard(w), UNCHANGED stopping
  PROVE  WorkerTypeOK' /\ EngineTypeOK'
<1> USE DEF TypeOK, Goto, Discard
<1>1. pc' \in [Workers -> PCs] /\ pc' = [pc EXCEPT ![w] = label]
  BY DEF WorkerTypeOK
<1>2. job' \in [Workers -> Jobs \cup {None}] /\ job' = [job EXCEPT ![w] = None]
  BY DEF WorkerTypeOK
<1>3. \A v \in Workers : pc'[v] \in Busy => job'[v] \in Jobs
  BY <1>1, <1>2 DEF WorkerTypeOK
<1>4. written' \in [Workers -> 0..NumSteps]
  <2>1. 0 \in 0..NumSteps
    BY WorkflowAssumption DEF WorkflowAssumption
  <2> QED
    BY <2>1 DEF WorkerTypeOK
<1>5. WorkerTypeOK'
  BY <1>1, <1>2, <1>3, <1>4 DEF WorkerTypeOK, Verdicts
<1>6. /\ NoResults \in [Steps -> StepOutcomes \cup {"none"}]
      /\ AllOff \in [Steps -> {"off", "unrendered", "claim", "call", "error"}]
      /\ NoTries \in [Steps -> 0..MaxRetries]
  <2>1. 0 \in 0..MaxRetries
    BY WorkflowAssumption DEF WorkflowAssumption
  <2> QED
    BY <2>1 DEF NoResults, AllOff, NoTries
<1>7. \A v \in Workers : pc'[v] # "run" => phase'[v] = [s \in Steps |-> "off"]
  BY <1>1 DEF WorkerTypeOK, EngineTypeOK, AllOff
<1>8. EngineTypeOK'
  BY <1>6, <1>7 DEF EngineTypeOK
<1> QED
  BY <1>5, <1>8

\* process returns.
LEMMA LeaveType ==
  ASSUME TypeOK, NEW w \in Workers, Leave(w)
  PROVE  WorkerTypeOK' /\ EngineTypeOK'
BY DiscardType DEF Leave, NextRound, PCs, Busy

\* The variables of a process that does not move keep their types.
LEMMA UnchangedType ==
  ASSUME TypeOK
  PROVE  /\ UNCHANGED queueVars => QueueTypeOK'
         /\ UNCHANGED storeVars => StoreTypeOK'
         /\ UNCHANGED workerVars => WorkerTypeOK' /\ EngineTypeOK'
         /\ UNCHANGED reaperVars => ReaperTypeOK'
<1>1. UNCHANGED queueVars => QueueTypeOK'
  BY DEF TypeOK, QueueTypeOK, queueVars
<1>2. UNCHANGED storeVars => StoreTypeOK'
  BY DEF TypeOK, StoreTypeOK, storeVars
<1>3. UNCHANGED workerVars => WorkerTypeOK' /\ EngineTypeOK'
  BY DEF TypeOK, WorkerTypeOK, EngineTypeOK, workerVars, engineVars
<1>4. UNCHANGED reaperVars => ReaperTypeOK'
  BY DEF TypeOK, ReaperTypeOK, reaperVars
<1> QED
  BY <1>1, <1>2, <1>3, <1>4

\* A step of a submitting request preserves the types.
LEMMA SubmitType ==
  ASSUME TypeOK, NEW j \in Jobs, Submit(j)
  PROVE  TypeOK'
<1>1. QueueTypeOK'
  BY QueueOpsType, UnchangedType
     DEF TypeOK, Submit, Create, CreateFails, Dispatch, DispatchFails, FailDispatch, SubmitDies
<1>2. StoreTypeOK'
  BY StoreOpsType, UnchangedType
     DEF TypeOK, Submit, Create, CreateFails, Dispatch, DispatchFails, FailDispatch, SubmitDies
<1>3. submit' \in [Jobs -> {"none", "created", "failing", "accepted", "rejected"}]
  BY DEF TypeOK, Submit, Create, CreateFails, Dispatch, DispatchFails, FailDispatch, SubmitDies
<1>4. WorkerTypeOK' /\ EngineTypeOK' /\ ReaperTypeOK'
  BY UnchangedType
     DEF Submit, Create, CreateFails, Dispatch, DispatchFails, FailDispatch, SubmitDies
<1>5. faults' \in 0..MaxFaults
  BY FaultType, UnchangedType
     DEF TypeOK, Submit, Create, CreateFails, Dispatch, DispatchFails, FailDispatch, SubmitDies
<1> QED
  BY <1>1, <1>2, <1>3, <1>4, <1>5 DEF TypeOK

\* A step of RunWorker's claim loop preserves the types.
LEMMA ClaimLoopType ==
  ASSUME TypeOK, NEW w \in Workers,
         QueueClaim(w) \/ QueueClaimLost(w) \/ Park(w) \/ Wake(w) \/ Stop(w)
  PROVE  TypeOK'
<1>1. CASE QueueClaim(w)
  <2>1. QueueTypeOK' /\ Head(ready) \in Jobs
    BY <1>1, QueueOpsType DEF TypeOK, QueueClaim
  <2>2. StoreTypeOK' /\ ReaperTypeOK'
    BY <1>1, UnchangedType DEF QueueClaim
  <2>3. /\ pc' \in [Workers -> PCs] /\ pc' = [pc EXCEPT ![w] = "claimed"]
        /\ job' \in [Workers -> Jobs \cup {None}] /\ job' = [job EXCEPT ![w] = Head(ready)]
    BY <1>1, <2>1 DEF TypeOK, WorkerTypeOK, QueueClaim, Goto, PCs
  <2>4. \A v \in Workers : pc'[v] \in Busy => job'[v] \in Jobs
    BY <2>1, <2>3 DEF TypeOK, WorkerTypeOK
  <2>5. WorkerTypeOK'
    BY <1>1, <2>3, <2>4 DEF TypeOK, WorkerTypeOK, QueueClaim
  <2>6. EngineTypeOK'
    <3>1. UNCHANGED engineVars /\ pc[w] = "idle"
      BY <1>1 DEF QueueClaim
    <3>2. \A v \in Workers : pc'[v] # "run" => phase'[v] = [s \in Steps |-> "off"]
      BY <2>3, <3>1 DEF TypeOK, WorkerTypeOK, EngineTypeOK, engineVars
    <3> QED
      BY <3>1, <3>2 DEF TypeOK, EngineTypeOK, engineVars
  <2> QED
    BY <1>1, <2>1, <2>2, <2>5, <2>6 DEF TypeOK, QueueClaim
<1>2. CASE QueueClaimLost(w)
  <2>1. WorkerTypeOK' /\ EngineTypeOK'
    BY <1>2, GotoType DEF QueueClaimLost, NextRound, PCs, Busy
  <2> QED
    BY <1>2, <2>1, QueueOpsType, UnchangedType, FaultType DEF TypeOK, QueueClaimLost
<1>3. CASE Park(w) \/ Stop(w)
  <2>1. WorkerTypeOK' /\ EngineTypeOK'
    BY <1>3, GotoType DEF Park, Stop, PCs, Busy
  <2> QED
    BY <1>3, <2>1, UnchangedType DEF TypeOK, Park, Stop
<1>4. CASE Wake(w)
  <2>1. WorkerTypeOK' /\ EngineTypeOK'
    BY <1>4, GotoType DEF Wake, NextRound, PCs, Busy
  <2> QED
    BY <1>4, <2>1, QueueOpsType, UnchangedType DEF TypeOK, Wake
<1> QED
  BY <1>1, <1>2, <1>3, <1>4

\* A step of process up to the run, and of deadLetter, preserves the types.
LEMMA TakeOverType ==
  ASSUME TypeOK, NEW w \in Workers,
         \/ TakeJob(w) \/ RefuseJob(w) \/ TakeJobFails(w) \/ Drop(w)
         \/ DeadLetter(w) \/ DeadLog(w)
  PROVE  TypeOK'
<1>0. job[w] \in Jobs
  BY DEF TypeOK, WorkerTypeOK, TakeJob, RefuseJob, TakeJobFails, Drop, DeadLetter, DeadLog, PCs, Busy
<1>1. CASE TakeJob(w)
  <2>1. StoreTypeOK'
    BY <1>0, <1>1, StoreOpsType DEF TypeOK, TakeJob
  <2>2. WorkerTypeOK' /\ EngineTypeOK'
    BY <1>0, <1>1, GotoType DEF TakeJob, PCs
  <2> QED
    BY <1>1, <2>1, <2>2, UnchangedType DEF TypeOK, TakeJob
<1>2. CASE RefuseJob(w)
  <2>1. WorkerTypeOK' /\ EngineTypeOK'
    BY <1>0, <1>2, GotoType DEF RefuseJob, PCs
  <2> QED
    BY <1>2, <2>1, UnchangedType DEF TypeOK, RefuseJob
<1>3. CASE TakeJobFails(w)
  <2>1. StoreTypeOK'
    BY <1>0, <1>3, StoreOpsType, UnchangedType DEF TypeOK, TakeJobFails
  <2>2. WorkerTypeOK' /\ EngineTypeOK'
    BY <1>3, LeaveType DEF TakeJobFails
  <2> QED
    BY <1>3, <2>1, <2>2, UnchangedType, FaultType DEF TypeOK, TakeJobFails
<1>4. CASE Drop(w)
  <2>1. QueueTypeOK'
    BY <1>0, <1>4, QueueOpsType, UnchangedType DEF TypeOK, Drop
  <2>2. WorkerTypeOK' /\ EngineTypeOK'
    BY <1>4, LeaveType DEF Drop
  <2> QED
    BY <1>4, <2>1, <2>2, UnchangedType, FaultType DEF TypeOK, Drop
<1>5. CASE DeadLetter(w)
  <2>1. StoreTypeOK'
    BY <1>0, <1>5, StoreOpsType, UnchangedType DEF TypeOK, DeadLetter
  <2>2. WorkerTypeOK' /\ EngineTypeOK'
    BY <1>0, <1>5, GotoType DEF DeadLetter, PCs
  <2> QED
    BY <1>5, <2>1, <2>2, UnchangedType, FaultType DEF TypeOK, DeadLetter
<1>6. CASE DeadLog(w)
  <2>1. StoreTypeOK'
    BY <1>0, <1>6, StoreOpsType, UnchangedType DEF TypeOK, DeadLog, TerminalEvents
  <2>2. WorkerTypeOK' /\ EngineTypeOK'
    BY <1>0, <1>6, GotoType DEF DeadLog, PCs
  <2> QED
    BY <1>6, <2>1, <2>2, UnchangedType, FaultType DEF TypeOK, DeadLog
<1> QED
  BY <1>1, <1>2, <1>3, <1>4, <1>5, <1>6

\* The run is over, with a verdict.
LEMMA RunEndsType ==
  ASSUME TypeOK, NEW w \in Workers, NEW v \in Verdicts \ {"none"}, RunEnds(w, v),
         job[w] \in Jobs, phase[w] = [s \in Steps |-> "off"],
         UNCHANGED <<job, ctx, stopping, written, engineVars>>
  PROVE  QueueTypeOK' /\ WorkerTypeOK' /\ EngineTypeOK'
<1>1. QueueTypeOK'
  BY QueueOpsType, UnchangedType DEF TypeOK, RunEnds
<1>2. pc' \in [Workers -> PCs] /\ \E label \in Busy : pc' = [pc EXCEPT ![w] = label]
  <2> DEFINE label == CASE v \in {"infra", "leaseLost"} -> "abandon"
                        [] v = "config" -> "finish"
                        [] OTHER -> "write"
  <2>1. label \in {"abandon", "finish", "write"}
    OBVIOUS
  <2>2. label \in Busy /\ label \in PCs
    BY <2>1 DEF PCs, Busy
  <2>3. pc' = [pc EXCEPT ![w] = label]
    BY DEF RunEnds, Goto
  <2> HIDE DEF label
  <2> QED
    BY <2>2, <2>3 DEF TypeOK, WorkerTypeOK
<1>3. \A u \in Workers : pc'[u] \in Busy => job'[u] \in Jobs
  BY <1>2 DEF TypeOK, WorkerTypeOK
<1>4. verdict' \in [Workers -> Verdicts] /\ beat' \in [Workers -> {"off", "wait", "held", "lost"}]
  BY DEF TypeOK, WorkerTypeOK, RunEnds
<1>5. WorkerTypeOK'
  BY <1>2, <1>3, <1>4 DEF TypeOK, WorkerTypeOK
<1>6. \A u \in Workers : pc'[u] # "run" => phase'[u] = [s \in Steps |-> "off"]
  BY <1>2 DEF TypeOK, WorkerTypeOK, EngineTypeOK, engineVars
<1>7. EngineTypeOK'
  BY <1>6 DEF TypeOK, EngineTypeOK, engineVars
<1> QED
  BY <1>1, <1>5, <1>7

\* Loading a job, or failing to, preserves the types.
LEMMA LoadType ==
  ASSUME TypeOK, NEW w \in Workers, Load(w) \/ LoadUnresolved(w) \/ LoadFails(w)
  PROVE  TypeOK'
<1>0. job[w] \in Jobs /\ pc[w] = "load" /\ phase[w] = [s \in Steps |-> "off"]
  BY DEF TypeOK, WorkerTypeOK, EngineTypeOK, Load, LoadUnresolved, LoadFails, PCs, Busy
<1>1. CASE Load(w)
  <2>1. /\ pc' \in [Workers -> PCs] /\ pc' = [pc EXCEPT ![w] = "run"]
        /\ results' \in [Workers -> [Steps -> StepOutcomes \cup {"none"}]]
    BY <1>1 DEF TypeOK, WorkerTypeOK, EngineTypeOK, Load, Resumable, Goto, PCs, StepOutcomes
  <2>2. \A v \in Workers : /\ pc'[v] \in Busy => job'[v] \in Jobs
                           /\ pc'[v] # "run" => phase'[v] = [s \in Steps |-> "off"]
    BY <1>0, <1>1, <2>1 DEF TypeOK, WorkerTypeOK, EngineTypeOK, Load
  <2>3. WorkerTypeOK'
    BY <1>1, <2>1, <2>2 DEF TypeOK, WorkerTypeOK, Load
  <2>4. EngineTypeOK'
    BY <1>1, <2>1, <2>2 DEF TypeOK, EngineTypeOK, Load
  <2> QED
    BY <1>1, <2>3, <2>4, UnchangedType DEF TypeOK, Load
<1>2. CASE LoadUnresolved(w)
  <2>1. QueueTypeOK' /\ WorkerTypeOK' /\ EngineTypeOK'
    BY <1>0, <1>2, RunEndsType DEF LoadUnresolved, Verdicts
  <2> QED
    BY <1>2, <2>1, UnchangedType DEF TypeOK, LoadUnresolved
<1>3. CASE LoadFails(w)
  <2>1. QueueTypeOK' /\ WorkerTypeOK' /\ EngineTypeOK'
    BY <1>0, <1>3, RunEndsType DEF LoadFails, Verdicts
  <2> QED
    BY <1>3, <2>1, UnchangedType, FaultType DEF TypeOK, LoadFails
<1> QED
  BY <1>1, <1>2, <1>3

\* Only a worker inside a run has a wave.
LEMMA WaveRuns ==
  ASSUME TypeOK, NEW w \in Workers, NEW s \in Steps, phase[w][s] # "off"
  PROVE  pc[w] = "run" /\ job[w] \in Jobs
<1>1. pc[w] = "run"
  BY DEF TypeOK, EngineTypeOK
<1> QED
  BY <1>1 DEF TypeOK, WorkerTypeOK, PCs, Busy

\* A result that the drain loop takes preserves the types.
LEMMA DrainType ==
  ASSUME TypeOK, NEW w \in Workers, NEW s \in Steps, NEW outcome \in StepOutcomes,
         phase[w][s] # "off", Drain(w, s, outcome), UNCHANGED fence
  PROVE  TypeOK'
<1>1. pc[w] = "run" /\ job[w] \in Jobs
  BY WaveRuns
<1>2. StoreTypeOK'
  BY <1>1, StoreOpsType, UnchangedType DEF TypeOK, Drain
<1>3. results' \in [Workers -> [Steps -> StepOutcomes \cup {"none"}]]
  <2> DEFINE r == [results[w] EXCEPT ![s] = outcome]
  <2>1. r \in [Steps -> StepOutcomes \cup {"none"}]
    BY DEF TypeOK, EngineTypeOK
  <2>2. SkipBlocked(r) \in [Steps -> StepOutcomes \cup {"none"}]
    BY <2>1 DEF SkipBlocked, StepOutcomes
  <2>3. results' = [results EXCEPT ![w] = IF Wave(w) = {s} THEN SkipBlocked(r) ELSE r]
    BY DEF Drain
  <2> QED
    BY <2>1, <2>2, <2>3 DEF TypeOK, EngineTypeOK
<1>4. phase' \in [Workers -> [Steps -> {"off", "unrendered", "claim", "call", "error"}]]
  BY DEF TypeOK, EngineTypeOK, Drain
<1>5. tries' \in [Workers -> [Steps -> 0..MaxRetries]]
  <2>1. [tries[w] EXCEPT ![s] = 0] \in [Steps -> 0..MaxRetries]
    BY WorkflowAssumption DEF TypeOK, EngineTypeOK, WorkflowAssumption
  <2> QED
    BY <2>1 DEF TypeOK, EngineTypeOK, Drain
<1>6. \A v \in Workers : pc'[v] # "run" => phase'[v] = [t \in Steps |-> "off"]
  BY <1>1 DEF TypeOK, EngineTypeOK, Drain
<1>7. EngineTypeOK'
  BY <1>3, <1>4, <1>5, <1>6 DEF TypeOK, EngineTypeOK
<1>8. WorkerTypeOK'
  BY DEF TypeOK, WorkerTypeOK, Drain
<1>9. faults' \in 0..MaxFaults
  BY FaultType DEF TypeOK, Drain
<1> QED
  BY <1>2, <1>7, <1>8, <1>9, UnchangedType DEF TypeOK, Drain

\* A step of a wave moves on without a result.
LEMMA PhaseType ==
  ASSUME TypeOK, NEW w \in Workers, NEW s \in Steps, phase[w][s] # "off",
         NEW p \in {"claim", "call", "error"}, phase' = [phase EXCEPT ![w][s] = p],
         UNCHANGED <<pc, job, beat, ctx, stopping, verdict, written, results>>,
         tries' \in [Workers -> [Steps -> 0..MaxRetries]], fence' \in [Workers -> BOOLEAN]
  PROVE  WorkerTypeOK' /\ EngineTypeOK'
<1>1. pc[w] = "run"
  BY WaveRuns
<1>2. phase' \in [Workers -> [Steps -> {"off", "unrendered", "claim", "call", "error"}]]
  BY DEF TypeOK, EngineTypeOK
<1>3. \A v \in Workers : pc'[v] # "run" => phase'[v] = [t \in Steps |-> "off"]
  BY <1>1 DEF TypeOK, EngineTypeOK
<1>4. EngineTypeOK'
  BY <1>2, <1>3 DEF TypeOK, EngineTypeOK
<1> QED
  BY <1>4 DEF TypeOK, WorkerTypeOK

\* A step of runStep and of fencedAgent preserves the types.
LEMMA RunStepType ==
  ASSUME TypeOK, NEW w \in Workers, NEW s \in Steps, RunStep(w, s)
  PROVE  TypeOK'
<1>0. phase[w][s] # "off" /\ job[w] \in Jobs
  BY WaveRuns DEF RunStep, CallAgent, RefuseStep, ClaimStepFails, AgentSucceeds, AgentFails,
                  RetryStep, FailStep
<1>1. CASE CallAgent(w, s) \/ ClaimStepFails(w, s)
  <2>1. StoreTypeOK'
    BY <1>0, <1>1, StoreOpsType, UnchangedType DEF TypeOK, CallAgent, ClaimStepFails
  <2>2. tries' \in [Workers -> [Steps -> 0..MaxRetries]] /\ fence' \in [Workers -> BOOLEAN]
    BY <1>1 DEF TypeOK, EngineTypeOK, CallAgent, ClaimStepFails
  <2>3. WorkerTypeOK' /\ EngineTypeOK'
    BY <1>0, <1>1, <2>2, PhaseType DEF CallAgent, ClaimStepFails
  <2> QED
    BY <1>1, <2>1, <2>3, UnchangedType, FaultType DEF TypeOK, CallAgent, ClaimStepFails
<1>2. CASE RefuseStep(w, s) \/ AgentFails(w, s)
  <2>1. tries' \in [Workers -> [Steps -> 0..MaxRetries]] /\ fence' \in [Workers -> BOOLEAN]
    BY <1>2 DEF TypeOK, EngineTypeOK, RefuseStep, AgentFails
  <2>2. WorkerTypeOK' /\ EngineTypeOK'
    BY <1>0, <1>2, <2>1, PhaseType DEF RefuseStep, AgentFails
  <2> QED
    BY <1>2, <2>2, UnchangedType DEF TypeOK, RefuseStep, AgentFails
<1>3. CASE RetryStep(w, s)
  <2>1. [tries[w] EXCEPT ![s] = @ + 1] \in [Steps -> 0..MaxRetries]
    <3>1. tries[w] \in [Steps -> 0..MaxRetries] /\ tries[w][s] \in 0..MaxRetries
      BY DEF TypeOK, EngineTypeOK
    <3>2. tries[w][s] + 1 \in 0..MaxRetries
      BY <1>3, <3>1, WorkflowAssumption DEF RetryStep, WorkflowAssumption
    <3> QED
      BY <3>1, <3>2
  <2>2. tries' \in [Workers -> [Steps -> 0..MaxRetries]] /\ fence' \in [Workers -> BOOLEAN]
    BY <1>3, <2>1 DEF TypeOK, EngineTypeOK, RetryStep
  <2>3. WorkerTypeOK' /\ EngineTypeOK'
    BY <1>0, <1>3, <2>2, PhaseType DEF RetryStep
  <2> QED
    BY <1>3, <2>3, UnchangedType DEF TypeOK, RetryStep
<1>4. CASE AgentSucceeds(w, s) \/ FailStep(w, s)
  BY <1>0, <1>4, DrainType DEF AgentSucceeds, FailStep, StepOutcomes
<1> QED
  BY <1>1, <1>2, <1>3, <1>4 DEF RunStep

\* The start of a wave and the end of a run preserve the types.
LEMMA RunType ==
  ASSUME TypeOK, NEW w \in Workers, StartWave(w) \/ EndRun(w)
  PROVE  TypeOK'
<1>0. pc[w] = "run" /\ job[w] \in Jobs
  BY DEF TypeOK, WorkerTypeOK, StartWave, EndRun, PCs, Busy
<1>1. CASE StartWave(w)
  <2>1. phase' \in [Workers -> [Steps -> {"off", "unrendered", "claim", "call", "error"}]]
    BY <1>1 DEF TypeOK, EngineTypeOK, StartWave
  <2>2. \A v \in Workers : pc'[v] # "run" => phase'[v] = [t \in Steps |-> "off"]
    BY <1>0, <1>1 DEF TypeOK, EngineTypeOK, StartWave
  <2>3. EngineTypeOK'
    BY <1>1, <2>1, <2>2 DEF TypeOK, EngineTypeOK, StartWave
  <2>4. WorkerTypeOK'
    BY <1>1 DEF TypeOK, WorkerTypeOK, StartWave
  <2> QED
    BY <1>1, <2>3, <2>4, UnchangedType DEF TypeOK, StartWave
<1>2. CASE EndRun(w)
  <2>1. phase[w] = [s \in Steps |-> "off"]
    BY <1>2 DEF TypeOK, EngineTypeOK, EndRun, Wave
  <2>2. Outcome(w) \in Verdicts \ {"none"}
    BY DEF Outcome, Verdicts
  <2>3. QueueTypeOK' /\ WorkerTypeOK' /\ EngineTypeOK'
    BY <1>0, <1>2, <2>1, <2>2, RunEndsType DEF EndRun
  <2> QED
    BY <1>2, <2>3, UnchangedType DEF TypeOK, EndRun
<1> QED
  BY <1>1, <1>2

\* A call of holdLease preserves the types.
LEMMA BeatType ==
  ASSUME TypeOK, NEW w \in Workers, Beat(w)
  PROVE  TypeOK'
<1>0. job[w] \in Jobs
  BY DEF TypeOK, WorkerTypeOK, Beat, BeatStore, BeatStoreFails, BeatQueue, BeatQueueFails, PCs, Busy
<1>1. QueueTypeOK'
  BY <1>0, QueueOpsType, UnchangedType DEF TypeOK, Beat, BeatStore, BeatStoreFails, BeatQueue, BeatQueueFails
<1>2. StoreTypeOK'
  BY <1>0, StoreOpsType, UnchangedType DEF TypeOK, Beat, BeatStore, BeatStoreFails, BeatQueue, BeatQueueFails
<1>3. /\ beat' \in [Workers -> {"off", "wait", "held", "lost"}]
      /\ ctx' \in [Workers -> {"ok", "canceled", "leaseLost"}]
  BY DEF TypeOK, WorkerTypeOK, Beat, BeatStore, BeatStoreFails, BeatQueue, BeatQueueFails, workerVars
<1>4. WorkerTypeOK'
  BY <1>3 DEF TypeOK, WorkerTypeOK, Beat, BeatStore, BeatStoreFails, BeatQueue, BeatQueueFails, workerVars
<1>5. EngineTypeOK'
  BY DEF TypeOK, EngineTypeOK, Beat, BeatStore, BeatStoreFails, BeatQueue, BeatQueueFails, engineVars, workerVars
<1> QED
  BY <1>1, <1>2, <1>4, <1>5, UnchangedType, FaultType
     DEF TypeOK, Beat, BeatStore, BeatStoreFails, BeatQueue, BeatQueueFails

\* A step of process behind the run, and of abandon, preserves the types.
LEMMA ConclusionType ==
  ASSUME TypeOK, NEW w \in Workers,
         \/ AbandonLost(w) \/ AbandonReleased(w) \/ AbandonFails(w) \/ RequeueJob(w)
         \/ WriteResult(w) \/ Finish(w) \/ FinishFails(w) \/ LogCompleted(w) \/ AckJob(w)
  PROVE  TypeOK'
<1>0. job[w] \in Jobs /\ pc[w] # "run"
  BY DEF TypeOK, WorkerTypeOK, AbandonLost, AbandonReleased, AbandonFails, RequeueJob,
         WriteResult, Finish, FinishFails, LogCompleted, AckJob, PCs, Busy
<1>1. CASE AbandonLost(w)
  BY <1>1, LeaveType, UnchangedType DEF TypeOK, AbandonLost
<1>2. CASE AbandonReleased(w)
  <2>1. StoreTypeOK'
    BY <1>0, <1>2, StoreOpsType DEF TypeOK, AbandonReleased
  <2>2. WorkerTypeOK' /\ EngineTypeOK'
    BY <1>0, <1>2, GotoType DEF AbandonReleased, PCs
  <2> QED
    BY <1>2, <2>1, <2>2, UnchangedType DEF TypeOK, AbandonReleased
<1>3. CASE AbandonFails(w)
  <2>1. StoreTypeOK'
    BY <1>0, <1>3, StoreOpsType, UnchangedType DEF TypeOK, AbandonFails
  <2> QED
    BY <1>3, <2>1, LeaveType, UnchangedType, FaultType DEF TypeOK, AbandonFails
<1>4. CASE RequeueJob(w)
  <2>1. QueueTypeOK'
    BY <1>0, <1>4, QueueOpsType, UnchangedType DEF TypeOK, RequeueJob
  <2> QED
    BY <1>4, <2>1, LeaveType, UnchangedType, FaultType DEF TypeOK, RequeueJob
<1>5. CASE WriteResult(w)
  <2> DEFINE s == written[w] + 1
  <2>1. written[w] \in 0..NumSteps /\ written \in [Workers -> 0..NumSteps]
    BY DEF TypeOK, WorkerTypeOK
  <2>2. s \in Steps /\ s \in 0..NumSteps
    BY <1>5, <2>1, WorkflowAssumption DEF WriteResult, Steps, WorkflowAssumption
  <2>3. Ordered(results[w])[s] \in StepOutcomes
    BY <2>2 DEF TypeOK, EngineTypeOK, Ordered, StepOutcomes
  <2>4. StoreTypeOK' /\ faults' \in 0..MaxFaults
    <3>1. \/ UpdateStep(job[w], s, w, Ordered(results[w])[s]) /\ UNCHANGED faults
          \/ UNCHANGED storeVars /\ Fault("write")
      BY <1>5 DEF WriteResult
    <3> HIDE DEF s
    <3> QED
      BY <1>0, <2>2, <2>3, <3>1, StoreOpsType, UnchangedType, FaultType DEF TypeOK
  <2>5. written' \in [Workers -> 0..NumSteps]
    BY <1>5, <2>1, <2>2 DEF WriteResult
  <2>6. /\ pc' \in [Workers -> PCs]
        /\ \A v \in Workers : pc'[v] \in Busy => job'[v] \in Jobs
        /\ \A v \in Workers : pc'[v] # "run" => phase'[v] = [t \in Steps |-> "off"]
    BY ZenonT(40), <1>0, <1>5
       DEF TypeOK, WorkerTypeOK, EngineTypeOK, WriteResult, Goto, PCs, engineVars
  <2>7. WorkerTypeOK'
    BY <1>5, <2>5, <2>6 DEF TypeOK, WorkerTypeOK, WriteResult
  <2>8. EngineTypeOK'
    BY <1>5, <2>6 DEF TypeOK, EngineTypeOK, WriteResult, engineVars
  <2> QED
    BY <1>5, <2>4, <2>7, <2>8, UnchangedType DEF TypeOK, WriteResult
<1>6. CASE Finish(w)
  <2>1. StoreTypeOK'
    BY <1>0, <1>6, StoreOpsType DEF TypeOK, Finish, FinalStatus, FinalError
  <2>2. WorkerTypeOK' /\ EngineTypeOK'
    BY <1>0, <1>6, GotoType, LeaveType DEF Finish, PCs
  <2> QED
    BY <1>6, <2>1, <2>2, UnchangedType DEF TypeOK, Finish
<1>7. CASE FinishFails(w)
  <2>1. StoreTypeOK'
    BY <1>0, <1>7, StoreOpsType, UnchangedType DEF TypeOK, FinishFails, FinalStatus, FinalError
  <2> QED
    BY <1>7, <2>1, LeaveType, UnchangedType, FaultType DEF TypeOK, FinishFails
<1>8. CASE LogCompleted(w)
  <2>1. StoreTypeOK'
    BY <1>0, <1>8, StoreOpsType, UnchangedType DEF TypeOK, LogCompleted, TerminalEvents
  <2>2. WorkerTypeOK' /\ EngineTypeOK'
    BY <1>0, <1>8, GotoType DEF LogCompleted, PCs
  <2> QED
    BY <1>8, <2>1, <2>2, UnchangedType, FaultType DEF TypeOK, LogCompleted
<1>9. CASE AckJob(w)
  <2>1. QueueTypeOK'
    BY <1>0, <1>9, QueueOpsType, UnchangedType DEF TypeOK, AckJob
  <2> QED
    BY <1>9, <2>1, LeaveType, UnchangedType, FaultType DEF TypeOK, AckJob
<1> QED
  BY <1>1, <1>2, <1>3, <1>4, <1>5, <1>6, <1>7, <1>8, <1>9

\* A step of reap preserves the types.
LEMMA ReapType ==
  ASSUME TypeOK, NEW r \in Reapers, Reap(r) \/ ReaperCrash(r)
  PROVE  TypeOK'
<1>1. /\ \A B \in Batches(ExpiredLeases) : B \in SUBSET Jobs
      /\ \A B \in Batches(Orphaned) : B \in SUBSET Jobs
  BY DEF Batches, ExpiredLeases, Orphaned
<1>2. CASE ReapQueue(r)
  <2>1. QueueTypeOK' /\ faults' \in 0..MaxFaults
    BY <1>1, <1>2, QueueOpsType, UnchangedType, FaultType DEF TypeOK, ReapQueue
  <2>2. ReaperTypeOK'
    BY <1>2 DEF TypeOK, ReaperTypeOK, ReapQueue
  <2> QED
    BY <1>2, <2>1, <2>2, UnchangedType DEF TypeOK, ReapQueue
<1>3. CASE ReapStore(r)
  <2>1. PICK B \in Batches(Orphaned) :
          ReclaimExpiredJobs(B) /\ orphans' = [orphans EXCEPT ![r] = B]
    BY <1>3 DEF ReapStore
  <2>2. B \in SUBSET Jobs /\ StoreTypeOK'
    BY <1>1, <2>1, StoreOpsType DEF TypeOK
  <2>3. ReaperTypeOK'
    BY <1>3, <2>1, <2>2 DEF TypeOK, ReaperTypeOK, ReapStore
  <2> QED
    BY <1>3, <2>2, <2>3, UnchangedType DEF TypeOK, ReapStore
<1>4. CASE ReapStoreFails(r)
  <2>1. StoreTypeOK'
    BY <1>1, <1>4, StoreOpsType, UnchangedType DEF TypeOK, ReapStoreFails
  <2>2. ReaperTypeOK'
    BY <1>4 DEF TypeOK, ReaperTypeOK, ReapStoreFails
  <2> QED
    BY <1>4, <2>1, <2>2, UnchangedType, FaultType DEF TypeOK, ReapStoreFails
<1>5. CASE PushOrphan(r)
  <2>1. PICK j \in orphans[r] : /\ \/ Push(j) /\ UNCHANGED faults
                                   \/ UNCHANGED queueVars /\ Fault("sweep")
                                /\ orphans' = [orphans EXCEPT ![r] = @ \ {j}]
    BY <1>5 DEF PushOrphan
  <2>2. orphans[r] \in SUBSET Jobs /\ j \in Jobs
    BY <2>1 DEF TypeOK, ReaperTypeOK
  <2>3. QueueTypeOK' /\ faults' \in 0..MaxFaults
    BY <2>1, <2>2, QueueOpsType, UnchangedType, FaultType DEF TypeOK
  <2>4. ReaperTypeOK'
    BY <1>5, <2>1, <2>2 DEF TypeOK, ReaperTypeOK, PushOrphan
  <2> QED
    BY <1>5, <2>3, <2>4, UnchangedType DEF TypeOK, PushOrphan
<1>6. CASE ReapEnds(r)
  <2>1. ReaperTypeOK'
    BY <1>6 DEF TypeOK, ReaperTypeOK, ReapEnds
  <2> QED
    BY <1>6, <2>1, UnchangedType DEF TypeOK, ReapEnds
<1>7. CASE ReaperCrash(r)
  <2>1. ReaperTypeOK'
    BY <1>7 DEF TypeOK, ReaperTypeOK, ReaperCrash
  <2> QED
    BY <1>7, <2>1, UnchangedType, FaultType DEF TypeOK, ReaperCrash
<1> QED
  BY <1>2, <1>3, <1>4, <1>5, <1>6, <1>7 DEF Reap

\* Time, crashes, shutdowns and the loss of Redis preserve the types.
LEMMA EnvironmentType ==
  ASSUME TypeOK,
         \/ \E j \in Jobs : QueueLapse(j) \/ StoreLapse(j)
         \/ \E w \in Workers : Crash(w) \/ Shutdown(w)
         \/ RedisLoss
  PROVE  TypeOK'
<1>1. ASSUME NEW j \in Jobs, QueueLapse(j) \/ StoreLapse(j) PROVE TypeOK'
  BY <1>1, QueueOpsType, StoreOpsType, UnchangedType, FaultType DEF TypeOK, QueueLapse, StoreLapse
<1>2. ASSUME NEW w \in Workers, Crash(w) PROVE TypeOK'
  <2>1. WorkerTypeOK' /\ EngineTypeOK'
    BY <1>2, DiscardType DEF Crash, PCs, Busy
  <2> QED
    BY <1>2, <2>1, UnchangedType, FaultType DEF TypeOK, Crash
<1>3. ASSUME NEW w \in Workers, Shutdown(w) PROVE TypeOK'
  <2>1. stopping' \in [Workers -> BOOLEAN] /\ ctx' \in [Workers -> {"ok", "canceled", "leaseLost"}]
    BY <1>3 DEF TypeOK, WorkerTypeOK, Shutdown
  <2>2. WorkerTypeOK' /\ EngineTypeOK'
    BY <1>3, <2>1 DEF TypeOK, WorkerTypeOK, EngineTypeOK, Shutdown, engineVars
  <2> QED
    BY <1>3, <2>2, UnchangedType, FaultType DEF TypeOK, Shutdown
<1>4. CASE RedisLoss
  BY <1>4, QueueOpsType, UnchangedType, FaultType DEF TypeOK, RedisLoss
<1> QED
  BY <1>1, <1>2, <1>3, <1>4

\* Every variable keeps its type, a worker inside process has a job and no step
\* runs outside a run, for any number of jobs, workers, reapers and steps and
\* any mix of faults.
THEOREM TypeCorrect == Spec => []TypeOK
<1>1. Init => TypeOK
  <2> SUFFICES ASSUME Init PROVE TypeOK
    OBVIOUS
  <2>1. QueueTypeOK
    BY QueueAssumption DEF Init, EmptyQueue, QueueTypeOK, QueueAssumption
  <2>2. StoreTypeOK
    BY DEF Init, EmptyStore, StoreTypeOK
  <2>3. WorkerTypeOK
    BY WorkflowAssumption DEF Init, WorkerTypeOK, WorkflowAssumption, PCs, Busy, Verdicts
  <2>4. EngineTypeOK
    BY WorkflowAssumption
       DEF Init, EngineTypeOK, NoResults, AllOff, NoTries, WorkflowAssumption
  <2> QED
    BY <2>1, <2>2, <2>3, <2>4, ServiceAssumption
       DEF Init, TypeOK, ReaperTypeOK, ServiceAssumption
<1>2. TypeOK /\ [Next]_vars => TypeOK'
  <2> SUFFICES ASSUME TypeOK, [Next]_vars PROVE TypeOK'
    OBVIOUS
  <2>1. CASE UNCHANGED vars
    BY <2>1, UnchangedType DEF TypeOK, vars
  <2>2. ASSUME NEW w \in Workers, Work(w) PROVE TypeOK'
    BY <2>2, ClaimLoopType, TakeOverType, LoadType, RunType, RunStepType, ConclusionType DEF Work
  <2> QED
    BY <2>1, <2>2, SubmitType, BeatType, ReapType, EnvironmentType DEF Next
<1> QED
  BY <1>1, <1>2, PTL DEF Spec

=============================================================================
