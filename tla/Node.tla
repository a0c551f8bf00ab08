-------------------------------- MODULE Node --------------------------------
(***************************************************************************)
(* One process of the cluster: run and startWorkers of cmd/anchora/main.go, *)
(* the shell of RunWorker in internal/jobs/jobs.go with its heartbeat       *)
(* goroutine, and the registry of workers in internal/jobs/store.go, which  *)
(* the reapers of other nodes prune as well.  What a worker does with a     *)
(* delivery is Service's business; here it only holds leases or has        *)
(* given them up.                                                          *)
(*                                                                         *)
(* Time is counted in heartbeat intervals: silent[w] is how many have       *)
(* passed since a heartbeat of w reached its row.  Neither RegisterWorker   *)
(* nor HeartbeatWorker has a timeout: MaxDelay stands for how long one      *)
(* statement can hold the heartbeat up.                                     *)
(***************************************************************************)
EXTENDS Settings, FiniteSets

CONSTANTS
  Configs,     \* the configurations a node may be started with
  Workers,     \* the IDs that NewWorkerID draws
  MaxTaken,    \* bounds the deliveries a worker takes
  MaxStreams,  \* bounds the requests under way
  MaxDelay,    \* bounds the intervals from one statement of a heartbeat to the next,
               \* and from the registration to the first
  MaxFaults    \* bounds the calls on PostgreSQL and Redis that fail

\* A decoded file holds any integers; validation comes later.  The name of the
\* reaper's goroutine is not a worker's ID.
ASSUME NodeAssumption ==
  /\ MaxTaken \in Nat /\ MaxStreams \in Nat /\ MaxFaults \in Nat /\ MaxDelay \in Nat \ {0}
  /\ IsFiniteSet(Workers) /\ "reaper" \notin Workers
  /\ Configs \subseteq
       [enabled : BOOLEAN, urls : BOOLEAN, tokens : BOOLEAN, sweeps : BOOLEAN, retries : Int,
        workers : Int, lease : Int, heartbeat : Int, reaper : Int, ttl : Int]

VARIABLES
  config,     \* what the file and the environment hold
  main,       \* where run is
  exit,       \* how the process ended, "none" while it runs
  signalled,  \* SIGINT or SIGTERM has come: the context of run is cancelled
  grace,      \* the shutdown grace is over
  streams,    \* requests under way, event streams included
  tracked,    \* the WaitGroup: goroutines added and not done
  worker,     \* where RunWorker is
  owing,      \* the leases of the worker's delivery
  local,      \* the atomic counter of deliveries not yet reported
  flight,     \* the heartbeat's statement under way and its count, -1 for none
  delay,      \* intervals since that statement, or the last one, was sent
  taken,      \* deliveries taken in fact
  rows,       \* workflow_workers
  counted,    \* jobs_claimed, by row
  silent,     \* heartbeat intervals since last_heartbeat_at, by row
  faults

mainVars == <<main, exit, signalled, grace, streams>>
workerVars == <<tracked, worker, owing>>
beatVars == <<local, flight, delay, taken>>
rowVars == <<rows, counted, silent>>
nodeVars == <<config, mainVars, workerVars, beatVars, rowVars, faults>>

Running == exit = "none"

\* The reaper among the goroutines that are tracked.
Reaper == "reaper"

Init ==
  /\ config \in Configs
  /\ main = "load" /\ exit = "none" /\ signalled = FALSE /\ grace = FALSE /\ streams = 0
  /\ tracked = {}
  /\ worker = [w \in Workers |-> "off"]
  /\ owing = [w \in Workers |-> "none"]
  /\ local = [w \in Workers |-> 0]
  /\ flight = [w \in Workers |-> -1]
  /\ delay = [w \in Workers |-> 0]
  /\ taken = [w \in Workers |-> 0]
  /\ rows = {}
  /\ counted = [w \in Workers |-> 0]
  /\ silent = [w \in Workers |-> 0]
  /\ faults = 0

\* A call fails, for no reason or because its context is cancelled.
Fault == faults < MaxFaults /\ faults' = faults + 1
Interrupted == IF signalled THEN UNCHANGED faults ELSE Fault

-----------------------------------------------------------------------------
(* run.                                                                    *)

\* The process ends, and every goroutine with it.
Exit(how) ==
  /\ main' = "exited"
  /\ exit' = how
  /\ UNCHANGED <<config, signalled, grace, streams, workerVars, beatVars, rowVars>>

\* run goes on.
Proceed(label) ==
  /\ main' = label
  /\ UNCHANGED <<config, exit, signalled, grace, streams, workerVars, beatVars, rowVars>>

\* config.Load.
Load ==
  /\ main = "load"
  /\ IF Valid(config) THEN Proceed("agents") ELSE Exit("refused")
  /\ UNCHANGED faults

\* buildAgents, in the context that a signal cancels.
BuildAgents ==
  /\ main = "agents"
  /\ IF AgentsComplete(config)
       THEN Proceed(IF config.enabled THEN "connect" ELSE "serve") ELSE Exit("refused")
  /\ UNCHANGED faults

\* newJobService.
Connect ==
  /\ main = "connect"
  /\ Proceed("start")
  /\ UNCHANGED faults

ConnectFails ==
  /\ main = "connect"
  /\ Interrupted
  /\ Exit("refused")

\* One turn of the loop of startWorkers.
StartWorker(w) ==
  /\ main = "start" /\ worker[w] = "off"
  /\ Cardinality({v \in Workers : worker[v] # "off"}) < WorkerCount(config)
  /\ worker' = [worker EXCEPT ![w] = "register"]
  /\ tracked' = tracked \cup {w}
  /\ UNCHANGED <<config, mainVars, owing, beatVars, rowVars, faults>>

\* The reaper is started with the last worker, and then the listener.
Serve ==
  /\ main = "start"
  /\ Cardinality({v \in Workers : worker[v] # "off"}) = WorkerCount(config)
  /\ main' = "serve"
  /\ tracked' = IF ReaperEnabled(config) THEN tracked \cup {Reaper} ELSE tracked
  /\ UNCHANGED <<config, exit, signalled, grace, streams, worker, owing, beatVars, rowVars, faults>>

\* RunReaper returns when its context is cancelled.
ReaperReturns ==
  /\ Running /\ signalled /\ Reaper \in tracked
  /\ tracked' = tracked \ {Reaper}
  /\ UNCHANGED <<config, mainVars, worker, owing, beatVars, rowVars, faults>>

\* ListenAndServe fails, or no worker ID can be drawn: run returns at once.
ListenerFails ==
  /\ main \in {"start", "serve"}
  /\ Fault
  /\ Exit("failed")

Signal ==
  /\ Running /\ main # "load" /\ ~signalled
  /\ signalled' = TRUE
  /\ UNCHANGED <<config, main, exit, grace, streams, workerVars, beatVars, rowVars, faults>>

\* A request comes, or ends.  Shutdown does not end the ones under way.
RequestStarts ==
  /\ main = "serve" /\ streams < MaxStreams
  /\ streams' = streams + 1
  /\ UNCHANGED <<config, main, exit, signalled, grace, workerVars, beatVars, rowVars, faults>>

RequestEnds ==
  /\ Running /\ streams > 0
  /\ streams' = streams - 1
  /\ UNCHANGED <<config, main, exit, signalled, grace, workerVars, beatVars, rowVars, faults>>

\* run sees the cancelled context and calls server.Shutdown.
BeginShutdown ==
  /\ main = "serve" /\ signalled
  /\ Proceed("shutdown")
  /\ UNCHANGED faults

GraceOver ==
  /\ main \in {"shutdown", "drain"} /\ ~grace
  /\ grace' = TRUE
  /\ UNCHANGED <<config, main, exit, signalled, streams, workerVars, beatVars, rowVars, faults>>

\* server.Shutdown returns: no request is under way or the grace is over.
ServerStopped ==
  /\ main = "shutdown" /\ (streams = 0 \/ grace)
  /\ Proceed("drain")
  /\ UNCHANGED faults

Drained ==
  /\ main = "drain" /\ tracked = {}
  /\ Exit("drained")
  /\ UNCHANGED faults

\* Mutation of DrainExpires: the drain waits for the workers alone.
DrainNeverExpires ==
  /\ main = "drain" /\ grace /\ tracked = {}
  /\ Exit("expired")
  /\ UNCHANGED faults

\* The workers did not drain in time.
DrainExpires ==
  /\ main = "drain" /\ grace
  /\ Exit("expired")
  /\ UNCHANGED faults

Main ==
  \/ Load \/ BuildAgents \/ Connect \/ ConnectFails \/ Serve \/ BeginShutdown
  \/ GraceOver \/ ServerStopped \/ Drained \/ DrainExpires \/ ReaperReturns
  \/ \E w \in Workers : StartWorker(w)

-----------------------------------------------------------------------------
(* RunWorker.                                                              *)

Goto(w, label) == worker' = [worker EXCEPT ![w] = label]

\* The goroutine returns.
Return(w) == Goto(w, "returned") /\ tracked' = tracked \ {w}

InsertRow(w) ==
  /\ rows' = rows \cup {w}
  /\ silent' = [silent EXCEPT ![w] = 0]
  /\ UNCHANGED counted

\* RegisterWorker.
Register(w) ==
  /\ Running /\ worker[w] = "register" /\ ~signalled
  /\ InsertRow(w)
  /\ Goto(w, "idle")
  /\ UNCHANGED <<config, mainVars, tracked, owing, beatVars, faults>>

\* A worker that cannot register is gone for good; its row may be there.
RegisterFails(w) ==
  /\ Running /\ worker[w] = "register"
  /\ Interrupted
  /\ InsertRow(w) \/ UNCHANGED rowVars
  /\ Return(w)
  /\ UNCHANGED <<config, mainVars, owing, beatVars>>

\* Queue.Claim returns a job, and the counter is advanced.
Claim(w) ==
  /\ Running /\ worker[w] = "idle" /\ ~signalled /\ taken[w] < MaxTaken
  /\ Goto(w, "claimed")
  /\ owing' = [owing EXCEPT ![w] = "claimed"]
  /\ taken' = [taken EXCEPT ![w] = @ + 1]
  /\ local' = [local EXCEPT ![w] = @ + 1]
  /\ UNCHANGED <<config, mainVars, tracked, flight, delay, rowVars, faults>>

\* Queue.Claim fails, with or without a lease set in Redis.
ClaimLost(w) == owing' = [owing EXCEPT ![w] = "expiring"] \/ UNCHANGED owing

\* RunWorker waits for nextBackoff.
ClaimFails(w) ==
  /\ Running /\ worker[w] = "idle" /\ ~signalled
  /\ Fault
  /\ ClaimLost(w)
  /\ Goto(w, "backoff")
  /\ UNCHANGED <<config, mainVars, tracked, beatVars, rowVars>>

\* sleepCtx comes to its end.
BackoffOver(w) ==
  /\ Running /\ worker[w] = "backoff" /\ ~signalled
  /\ Goto(w, "idle")
  /\ UNCHANGED <<config, mainVars, tracked, owing, beatVars, rowVars, faults>>

\* process: the job is taken over, or the delivery is a duplicate or a dead
\* letter and acked.
TakeJob(w) ==
  /\ Running /\ worker[w] = "claimed" /\ ~signalled
  /\ \/ Goto(w, "busy") /\ owing' = [owing EXCEPT ![w] = "held"]
     \/ Goto(w, "idle") /\ owing' = [owing EXCEPT ![w] = "none"]
  /\ UNCHANGED <<config, mainVars, tracked, beatVars, rowVars, faults>>

\* ClaimJob fails, or the ack or the dead letter behind it, all of them bound to
\* the worker's context: the leases are left to expire.
TakeJobFails(w) ==
  /\ Running /\ worker[w] = "claimed"
  /\ Interrupted
  /\ Goto(w, "idle")
  /\ owing' = [owing EXCEPT ![w] = "expiring"]
  /\ UNCHANGED <<config, mainVars, tracked, beatVars, rowVars>>

\* The run is over, or its agents have seen the cancelled context.
RunOver(w) ==
  /\ Running /\ worker[w] = "busy"
  /\ Goto(w, "finish")
  /\ UNCHANGED <<config, mainVars, tracked, owing, beatVars, rowVars, faults>>

\* Mutation of Finish: the last writes are bound to the worker's context.
FinishBound(w) ==
  /\ Running /\ worker[w] = "finish"
  /\ Goto(w, "idle")
  /\ owing' = IF signalled THEN owing ELSE [owing EXCEPT ![w] = "none"]
  /\ UNCHANGED <<config, mainVars, tracked, beatVars, rowVars, faults>>

\* The outcome is recorded and acked, or the job released and requeued, in a
\* context of its own.
Finish(w) ==
  /\ Running /\ worker[w] = "finish"
  /\ Goto(w, "idle")
  /\ owing' = [owing EXCEPT ![w] = "none"]
  /\ UNCHANGED <<config, mainVars, tracked, beatVars, rowVars, faults>>

FinishFails(w) ==
  /\ Running /\ worker[w] = "finish"
  /\ Fault
  /\ Goto(w, "idle")
  /\ owing' = [owing EXCEPT ![w] = "expiring"]
  /\ UNCHANGED <<config, mainVars, tracked, beatVars, rowVars>>

\* RunWorker leaves its loop: before a claim, or out of one that the context
\* cut short.
Leave(w) ==
  /\ Running /\ worker[w] \in {"idle", "backoff"} /\ signalled
  /\ \/ UNCHANGED owing
     \/ worker[w] = "idle" /\ ClaimLost(w)
  /\ Goto(w, "leave")
  /\ UNCHANGED <<config, mainVars, tracked, beatVars, rowVars, faults>>

\* UnregisterWorker.
DeleteRow(w) == rows' = rows \ {w}

\* The deferred UnregisterWorker, in a context of its own.
Unregister(w) ==
  /\ Running /\ worker[w] = "leave"
  /\ DeleteRow(w)
  /\ Return(w)
  /\ UNCHANGED <<config, mainVars, owing, beatVars, counted, silent, faults>>

UnregisterFails(w) ==
  /\ Running /\ worker[w] = "leave"
  /\ Fault
  /\ Return(w)
  /\ UNCHANGED <<config, mainVars, owing, beatVars, rowVars>>

\* Everything but the agents' work, which nothing hurries.
Work(w) ==
  \/ Register(w) \/ RegisterFails(w) \/ BackoffOver(w) \/ TakeJob(w) \/ TakeJobFails(w)
  \/ Finish(w) \/ FinishFails(w) \/ Leave(w) \/ Unregister(w) \/ UnregisterFails(w)

-----------------------------------------------------------------------------
(* The heartbeat goroutine of RunWorker, which nobody waits for.           *)

Beating == {"idle", "claimed", "backoff", "busy", "finish"}

\* Mutation of BeatStarts: the counter is read and not reset.
BeatStartsWithLoad(w) ==
  /\ Running /\ worker[w] \in Beating /\ ~signalled /\ flight[w] = -1
  /\ flight' = [flight EXCEPT ![w] = local[w]]
  /\ delay' = [delay EXCEPT ![w] = 0]
  /\ UNCHANGED <<config, mainVars, workerVars, local, taken, rowVars, faults>>

\* The ticker fires and the counter is swapped for zero.  A tick that is seen
\* behind the cancelled context sends nothing.
BeatStarts(w) ==
  /\ Running /\ worker[w] \in Beating /\ ~signalled /\ flight[w] = -1
  /\ flight' = [flight EXCEPT ![w] = local[w]]
  /\ local' = [local EXCEPT ![w] = 0]
  /\ delay' = [delay EXCEPT ![w] = 0]
  /\ UNCHANGED <<config, mainVars, workerVars, taken, rowVars, faults>>

\* Mutation of HeartbeatWorker: the row is put back if it is missing.
HeartbeatWorkerUpsert(w) ==
  /\ rows' = rows \cup {w}
  /\ counted' = [counted EXCEPT ![w] = @ + flight[w]]
  /\ silent' = [silent EXCEPT ![w] = 0]

\* Mutation of HeartbeatWorker: the count is taken off the row's.
HeartbeatWorkerSubtracts(w) ==
  /\ counted' = IF w \in rows THEN [counted EXCEPT ![w] = @ - flight[w]] ELSE counted
  /\ silent' = IF w \in rows THEN [silent EXCEPT ![w] = 0] ELSE silent
  /\ UNCHANGED rows

\* Mutation of HeartbeatWorker: last_heartbeat_at is left alone.
HeartbeatWorkerCounts(w) ==
  /\ counted' = IF w \in rows THEN [counted EXCEPT ![w] = @ + flight[w]] ELSE counted
  /\ UNCHANGED <<rows, silent>>

\* HeartbeatWorker's UPDATE.
HeartbeatWorker(w) ==
  /\ counted' = IF w \in rows THEN [counted EXCEPT ![w] = @ + flight[w]] ELSE counted
  /\ silent' = IF w \in rows THEN [silent EXCEPT ![w] = 0] ELSE silent
  /\ UNCHANGED rows

\* The statement reaches the database, before or after the worker has left.
BeatLands(w) ==
  /\ Running /\ flight[w] # -1
  /\ HeartbeatWorker(w)
  /\ flight' = [flight EXCEPT ![w] = -1]
  /\ UNCHANGED <<config, mainVars, workerVars, local, delay, taken, faults>>

\* The statement fails: what it was to count is forgotten, and the row is as old
\* as it was until the next one.
BeatFails(w) ==
  /\ Running /\ flight[w] # -1
  /\ Interrupted
  /\ flight' = [flight EXCEPT ![w] = -1]
  /\ UNCHANGED <<config, mainVars, workerVars, local, delay, taken, rowVars>>

\* silent counts whole intervals.  A row that has not been pruned yet may be due,
\* and is surely due.
Interval == Heartbeat(config)
MayBeStale(w) == (silent[w] + 1) * Interval > PruneAge(config)
IsStale(w) == silent[w] * Interval > PruneAge(config)

\* One more interval without a heartbeat, as far as a sweep can tell.
Grow(w) ==
  /\ w \in rows /\ ~IsStale(w)
  /\ silent' = [silent EXCEPT ![w] = @ + 1]
  /\ UNCHANGED <<config, mainVars, workerVars, local, flight, taken, rows, counted, faults>>

\* The heartbeat beats, but its statement is on the way, or its answer is, or the
\* ticker has yet to fire.
Late(w) ==
  /\ Running /\ ~signalled /\ worker[w] \in Beating
  /\ delay[w] < MaxDelay
  /\ delay' = [delay EXCEPT ![w] = @ + 1]
  /\ Grow(w)

\* The heartbeat has ended with the context or the process.
Silence(w) ==
  /\ ~Running \/ signalled \/ worker[w] \notin Beating
  /\ Grow(w)
  /\ UNCHANGED delay

\* Mutation of Prune: the comparison is the wrong way round.
PruneFresh ==
  /\ \E S \in (SUBSET {w \in rows : ~IsStale(w)}) \ {{}} : rows' = rows \ S
  /\ UNCHANGED <<config, mainVars, workerVars, beatVars, counted, silent, faults>>

\* PruneWorkers, by this node's reaper or another's.
Prune ==
  /\ \E S \in (SUBSET {w \in rows : MayBeStale(w)}) \ {{}} :
       {w \in rows : IsStale(w)} \subseteq S /\ rows' = rows \ S
  /\ UNCHANGED <<config, mainVars, workerVars, beatVars, counted, silent, faults>>

Ended == ~Running /\ UNCHANGED nodeVars

Next ==
  \/ Main \/ Signal \/ ListenerFails \/ RequestStarts \/ RequestEnds \/ Prune \/ Ended
  \/ \E w \in Workers :
       Work(w) \/ Claim(w) \/ ClaimFails(w) \/ RunOver(w)
         \/ BeatStarts(w) \/ BeatLands(w) \/ BeatFails(w) \/ Late(w) \/ Silence(w)

\* The process runs, and a reaper somewhere sweeps.  Agents, requests and jobs
\* may take for ever.
Spec ==
  /\ Init /\ [][Next]_nodeVars
  /\ WF_nodeVars(Main) /\ WF_nodeVars(Prune)
  /\ \A w \in Workers : WF_nodeVars(Work(w)) /\ WF_nodeVars(Silence(w))

-----------------------------------------------------------------------------

\* Nothing is out of its type.
TypeOK ==
  /\ config \in Configs
  /\ main \in {"load", "agents", "connect", "start", "serve", "shutdown", "drain", "exited"}
  /\ exit \in {"none", "refused", "failed", "drained", "expired"}
  /\ signalled \in BOOLEAN /\ grace \in BOOLEAN /\ streams \in 0..MaxStreams
  /\ tracked \subseteq Workers \cup {Reaper}
  /\ worker \in [Workers -> Beating \cup {"off", "register", "leave", "returned"}]
  /\ owing \in [Workers -> {"none", "claimed", "held", "expiring"}]
  /\ local \in [Workers -> 0..MaxTaken] /\ taken \in [Workers -> 0..MaxTaken]
  /\ flight \in [Workers -> -1..MaxTaken] /\ delay \in [Workers -> 0..MaxDelay]
  /\ rows \subseteq Workers /\ counted \in [Workers -> Nat] /\ silent \in [Workers -> Nat]
  /\ faults \in 0..MaxFaults

\* Whatever a file that Load accepts holds, overflow included, the tickers of
\* the node get a positive interval, and a lease is renewed before it runs out, as
\* far as the durations of the service go.
SettingsAreSound ==
  main # "load" /\ exit # "refused" =>
    /\ 0 < Heartbeat(config) /\ Heartbeat(config) < Lease(config)
    /\ 0 < ReaperInterval(config)

\* A drain that came to its end has left no run behind: every one that was under
\* way at the signal was concluded or released, as far as the backends answered,
\* and every row is gone whose worker had taken a job.
DrainReleases ==
  exit = "drained" =>
    /\ \A w \in Workers : owing[w] # "held"
    /\ faults = 0 => \A w \in rows : taken[w] = 0

\* A heartbeat under way when its worker left does not bring the row back.
RowStaysRemoved ==
  [][\A w \in Workers : worker[w] = "returned" /\ w \notin rows => w \notin rows']_nodeVars

\* jobs_claimed never runs ahead of the deliveries that the worker has taken,
\* whichever way its heartbeats and its claims interleave and fail.
CounterHonest == \A w \in Workers : counted[w] + local[w] <= taken[w]

\* A worker stays on the roster as long as its heartbeats are not too slow for the
\* worker TTL and not too many of them fail.  Between two that arrive there are the
\* delay behind the first, the delay of every one that failed and the delay of the
\* second, and a sweep may come before the last interval is whole.
Tolerated == ((faults + 2) * MaxDelay + 1) * Heartbeat(config) <= PruneAge(config)

RosterIsComplete ==
  Tolerated /\ ~signalled /\ Running => \A w \in Workers : worker[w] \in Beating => w \in rows

\* Whoever has not returned is waited for, and only a run holds a job.
RunsAreTracked ==
  /\ (main = "exited") <=> ~Running
  /\ exit = "drained" => tracked = {}
  /\ \A w \in Workers :
       /\ worker[w] \notin {"off", "returned"} => w \in tracked
       /\ owing[w] = "held" => worker[w] \in {"busy", "finish"}

\* A row outlives its worker only if the worker never took a job or a call failed.
RowsAreRemoved ==
  \A w \in Workers :
    /\ worker[w] \in {"off", "register"} => taken[w] = 0
    /\ faults = 0 /\ worker[w] = "returned" /\ w \in rows => taken[w] = 0

\* Every delivery is counted once: in the row, in the statement under way or in
\* the counter, or it was forgotten.
CountedOnce ==
  \A w \in Workers :
    counted[w] + local[w] + (IF flight[w] = -1 THEN 0 ELSE flight[w]) <= taken[w]

\* A row is as old as the delay since the last statement, the delay before it if
\* that has not arrived, and one for every call that failed.
Due(w) == faults * MaxDelay + delay[w] + (IF flight[w] = -1 THEN 0 ELSE MaxDelay)
RowsAreFresh ==
  Running /\ ~signalled => \A w \in rows : worker[w] \in Beating => silent[w] <= Due(w)

\* The goroutines, the WaitGroup, the counters and the rows belong together at
\* every step of a start, a shutdown and a failure.
NodeInv ==
  /\ TypeOK /\ RunsAreTracked /\ RowsAreRemoved /\ CountedOnce
  /\ RowsAreFresh /\ RosterIsComplete

\* A node that got a signal ends, with agents that hang and streams that stay
\* open; the grace bounds both waits.
SignalEndsNode == signalled ~> ~Running

\* However a node ended, the roster is rid of its workers.
RosterForgetsNode == \A w \in Workers : ~Running ~> w \notin rows

=============================================================================
