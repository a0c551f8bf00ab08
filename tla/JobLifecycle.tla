---------------------------- MODULE JobLifecycle ----------------------------
(***************************************************************************)
(* What a job is to whoever submitted it, with Redis, leases, deliveries   *)
(* and the engine out of sight: a row that is opened once, executed under  *)
(* one holder at a time, whose steps succeed once and which ends once.     *)
(***************************************************************************)
CONSTANTS Jobs, Workers, Steps, None

VARIABLES
  state,    \* what the API shows as the job's status
  holder,   \* the worker whose writes count
  done,     \* the steps that have succeeded
  request   \* the submitting request: "none", "open", "failing" or "over"

lifecycleVars == <<state, holder, done, request>>

Init ==
  /\ state = [j \in Jobs |-> "absent"]
  /\ holder = [j \in Jobs |-> None]
  /\ done = [j \in Jobs |-> {}]
  /\ request = [j \in Jobs |-> "none"]

\* The job is recorded; the request may not live to hear of it.
Open(j) ==
  /\ request[j] = "none" /\ state[j] = "absent"
  /\ state' = [state EXCEPT ![j] = "pending"]
  /\ \E r \in {"open", "over"} : request' = [request EXCEPT ![j] = r]
  /\ UNCHANGED <<holder, done>>

\* The request goes on without touching the job.
Answer(j) ==
  /\ \E r \in {"failing", "over"} : request' = [request EXCEPT ![j] = r]
  /\ request[j] \in {"none", "open", "failing"}
  /\ UNCHANGED <<state, holder, done>>

\* A request that could not dispatch its job fails it, unless somebody has it.
\* This is the one step that may replace the outcome of a job.
Withdraw(j) ==
  /\ request[j] = "failing" /\ holder[j] = None
  /\ state' = [state EXCEPT ![j] = "failed"]
  /\ request' = [request EXCEPT ![j] = "over"]
  /\ UNCHANGED <<holder, done>>

\* A worker takes over a job that has not ended, whoever had it before.
Take(j, w) ==
  /\ state[j] \in {"pending", "running"}
  /\ state' = [state EXCEPT ![j] = "running"]
  /\ holder' = [holder EXCEPT ![j] = w]
  /\ UNCHANGED <<done, request>>

\* Jobs are given up by their holders or taken from them.
Return(S) ==
  /\ \A j \in S : state[j] = "running"
  /\ state' = [j \in Jobs |-> IF j \in S THEN "pending" ELSE state[j]]
  /\ holder' = [j \in Jobs |-> IF j \in S THEN None ELSE holder[j]]
  /\ UNCHANGED <<done, request>>

Achieve(j, s) ==
  /\ state[j] = "running" /\ holder[j] # None
  /\ done' = [done EXCEPT ![j] = @ \cup {s}]
  /\ UNCHANGED <<state, holder, request>>

End(j) ==
  /\ state[j] = "running" /\ holder[j] # None
  /\ \E outcome \in {"succeeded", "failed"} : state' = [state EXCEPT ![j] = outcome]
  /\ holder' = [holder EXCEPT ![j] = None]
  /\ UNCHANGED <<done, request>>

Next ==
  \/ \E j \in Jobs : Open(j) \/ Answer(j) \/ Withdraw(j) \/ End(j)
  \/ \E j \in Jobs, w \in Workers : Take(j, w)
  \/ \E j \in Jobs, s \in Steps : Achieve(j, s)
  \/ \E S \in SUBSET Jobs : Return(S)

Spec == Init /\ [][Next]_lifecycleVars

=============================================================================
