------------------------------- MODULE Queue -------------------------------
(***************************************************************************)
(* The Redis work queue of internal/jobs/queue.go: a list of ready job IDs,*)
(* a set of leases scored by their deadline, a hash of the leases' owners  *)
(* and a list of wakeup hints.  Every Lua script is one atomic action.     *)
(*                                                                         *)
(* A deadline is abstracted to what a script can see of it: a lease is     *)
(* "live" while its deadline lies ahead and "expired" once it has passed.  *)
(* The module holds the state and the operations; Service composes them    *)
(* with the PostgreSQL store and the processes that call them.             *)
(***************************************************************************)
EXTENDS Identities, Naturals, FiniteSets, Sequences, SequencesExt

CONSTANTS
  NotifyBacklog,  \* notifyBacklog, the LTRIM bound of the hint list
  ReclaimBatch    \* how many jobs one sweep recovers

ASSUME QueueAssumption ==
  /\ NotifyBacklog \in Nat
  /\ ReclaimBatch \in Nat \ {0}

VARIABLES
  ready,    \* LIST of ready job IDs; the head is the next one RPOP returns
  leases,   \* ZSET: job -> lease, "none" when the job has no member
  owners,   \* HASH: job -> worker, None when the job has no field
  notify    \* length of the LIST of hints

queueVars == <<ready, leases, owners, notify>>

QueueTypeOK ==
  /\ ready \in Seq(Jobs)
  /\ leases \in [Jobs -> {"none", "live", "expired"}]
  /\ owners \in [Jobs -> Workers \cup {None}]
  /\ notify \in 0..(NotifyBacklog + 1)

\* An empty Redis database; also what a restart without persistence leaves.
EmptyQueue ==
  /\ ready = <<>>
  /\ leases = [j \in Jobs |-> "none"]
  /\ owners = [j \in Jobs |-> None]
  /\ notify = 0

-----------------------------------------------------------------------------

\* Mutation of Hint: the list is not trimmed.
HintUntrimmed == notify' = notify + 1

\* LPUSH notify '1'; LTRIM notify 0 notifyBacklog.  LTRIM's bounds are
\* inclusive, so notifyBacklog + 1 hints survive.
Hint == notify' = IF notify > NotifyBacklog THEN notify ELSE notify + 1

\* ZREM and HDEL: the lease leaves the set together with its owner.
DropLeases(S) ==
  /\ leases' = [j \in Jobs |-> IF j \in S THEN "none" ELSE leases[j]]
  /\ owners' = [j \in Jobs |-> IF j \in S THEN None ELSE owners[j]]

\* pushScript.
Push(j) ==
  /\ ready' = Append(ready, j)
  /\ Hint
  /\ UNCHANGED <<leases, owners>>

\* Mutation of Claim: RPOP alone, without the lease.
ClaimPopsOnly(w) ==
  /\ ready # <<>>
  /\ ready' = Tail(ready)
  /\ UNCHANGED <<leases, owners, notify>>

\* claimScript: one ready job moves into the lease set under a single owner.
\* A second copy of a job that is already leased overwrites its lease.
Claim(w) ==
  /\ ready # <<>>
  /\ ready' = Tail(ready)
  /\ leases' = [leases EXCEPT ![Head(ready)] = "live"]
  /\ owners' = [owners EXCEPT ![Head(ready)] = w]
  /\ UNCHANGED notify

\* Mutation of BRPop: a parked worker waits for a hint without a timeout.
BRPopNoTimeout ==
  /\ notify > 0
  /\ notify' = notify - 1
  /\ UNCHANGED <<ready, leases, owners>>

\* BRPOP on the hint list: a hint is consumed, or the wait times out.
BRPop ==
  /\ notify' = IF notify > 0 THEN notify - 1 ELSE notify
  /\ UNCHANGED <<ready, leases, owners>>

\* Mutation of Ack: HDEL without ZREM.
AckKeepsLease(j) ==
  /\ owners' = [owners EXCEPT ![j] = None]
  /\ UNCHANGED <<ready, leases, notify>>

\* ackScript: not conditional on who holds the lease.
Ack(j) == DropLeases({j}) /\ UNCHANGED <<ready, notify>>

\* requeueScript.
Requeue(j) ==
  /\ DropLeases({j})
  /\ ready' = Append(ready, j)
  /\ Hint

\* What extendScript answers to w.
QueueHeld(j, w) == owners[j] = w /\ leases[j] # "none"

\* extendScript.
Extend(j, w) ==
  /\ leases' = IF QueueHeld(j, w) THEN [leases EXCEPT ![j] = "live"] ELSE leases
  /\ UNCHANGED <<ready, owners, notify>>

\* The jobs a sweep over the candidates S recovers: the script's LIMIT.
Batches(S) ==
  {B \in SUBSET S : \/ B = S /\ Cardinality(S) <= ReclaimBatch
                    \/ Cardinality(B) = ReclaimBatch}

ExpiredLeases == {j \in Jobs : leases[j] = "expired"}

\* reclaimScript: the jobs B, whose leases expired, return to the ready list,
\* the one with the earliest deadline first.
Reclaim(B) ==
  /\ DropLeases(B)
  /\ \E q \in SetToSeqs(B) : ready' = ready \o q
  /\ IF B = {} THEN UNCHANGED notify ELSE Hint

\* A deadline passes.
QueueLeaseExpires(j) ==
  /\ leases[j] = "live"
  /\ leases' = [leases EXCEPT ![j] = "expired"]
  /\ UNCHANGED <<ready, owners, notify>>

\* Redis loses its data: a flush, or a failover with nothing persisted.
Flush ==
  /\ ready' = <<>>
  /\ leases' = [j \in Jobs |-> "none"]
  /\ owners' = [j \in Jobs |-> None]
  /\ notify' = 0

=============================================================================
