# A TLA+ model of anchora

anchora runs DAGs of LLM-agent steps ("workflows") as durable jobs.  A job is
a row in PostgreSQL, an ID in a Redis queue, and a set of worker processes that
claim it, execute it under a lease and record what became of it.  This
directory models that machinery, checks it with TLC on small instances and
proves its central properties with TLAPS for every instance.

Paths below are relative to the repository, which this project calls `src/`.

## 1. The system

| component | source | state | operations |
|---|---|---|---|
| work queue | `internal/jobs/queue.go` | Redis: list of ready IDs, sorted set of leases, hash of lease owners, bounded list of wakeup hints | `Push`, `Claim`, `Ack`, `Requeue`, `Extend`, `Reclaim`, `Depth`; `Claim` parks in a BRPOP |
| job store | `internal/jobs/store.go` | PostgreSQL: `workflow_jobs` (status, owner, lease, attempts, error), `workflow_steps`, `workflow_events`, `workflow_workers` | `Create`, `ClaimJob`, `ExtendLease`, `FinishJob`, `ReleaseJob`, `ReclaimExpiredJobs`, `ClaimStep`, `UpdateStep`, `AppendEvent`, reads |
| job service | `internal/jobs/jobs.go` | what a request, a worker, its heartbeat and a reaper hold on their stacks | `Submit`, `RunWorker`, `process`, `holdLease`, `runJob`, `abandon`, `deadLetter`, `fencedAgent.Run`, `RunReaper`/`reap` |
| workflow engine | `internal/workflow/workflow.go` | the results of one run | `NewWorkflow`, `Run`, `runStep`, `readyWave`, `skipBlocked`, `renderPrompt` |
| event stream | `internal/httpapi/router.go`, `store.go` | `workflow_events`, and the last event ID a client has seen | `AppendEvent`, `Events`, `eventsHandler` |
| worker registry | `store.go`, `jobs.go` | `workflow_workers` | register, heartbeat, unregister, prune, count |
| HTTP API | `internal/httpapi/router.go` | one request or stream at a time | run, submit, get, events, stats, health |
| executable | `cmd/anchora/main.go` | process lifecycle | start of workers and reaper, drain on a signal |
| configuration | `internal/config/config.go` | none | decode, validate, defaults |
| agent adapter | `internal/einoagent/agent.go` | none | one call of a model provider |

The components meet in two places only.  Redis says who should work on a job
*next*; PostgreSQL says who *may* write it.  The two are updated by separate
calls, in an order the code chose with care, and neither knows of the other:

* `Submit` creates the row, then pushes the ID.
* A worker claims the ID in Redis (a lease there), then the row with `ClaimJob`
  (a second lease, and an attempt counted).  A refused `ClaimJob` means a
  duplicate delivery, which is acked.
* Beside the run, `holdLease` extends both leases and cancels the run if either
  is gone.
* Step writes are conditional on `owner`: the *fence*.  `FinishJob` is too.
* The reaper returns expired Redis leases to the ready list, and rows that are
  `running` with a lease past its grace period to `pending`, then pushes them.

### What is hard here

* **Interleaving**: a worker that stalled and lost its lease still writes
  (`store.go:308`); duplicates of a job reach two workers (`store.go:198`).
* **Crashes** between any two calls, with the job in Redis, in PostgreSQL, in
  both or in neither (`jobs.go:331-460`).
* **Lost replies**: a call may fail and have taken effect (`jobs.go:245`).
* **Two clocks**: the Redis lease can run out before the PostgreSQL lease, so a
  redelivery is refused and only a later sweep helps (`jobs.go:364`).
* **Two kinds of order**: event IDs are drawn before their rows commit
  (`store.go:327`), and Go ranges over maps in any order (`workflow.go:215`).
* **Durations**: a heartbeat interval, two leases, a grace period and a fixed
  `finishTimeout` have to fit (`jobs.go:425`), whatever the file says and
  however `time.Duration` wraps (`config.go:199`).
* **Shutdown** at any moment, with streams open and agents hanging
  (`main.go:100`), beside a heartbeat nobody waits for (`store.go:356`).
* **Swallowed errors**: step and event writes do not report failure to the
  engine (`jobs.go:520`); `deadLetter` goes on after a failed `FinishJob`.
* **Bounds**: the hint list is trimmed, sweeps are limited to a batch.

`PROJECT.json` lists the hazards line by line with the properties they meet.

### What makes each component correct

* Queue: a job is in the ready list or under a lease until it is acked; hints
  may be lost without anyone sleeping for ever.
* Store: the fence holds off superseded writers; outcomes and successes are
  final.
* Service: an accepted job is never lost, ends, and leaves the queue; nobody
  executes a job beside its owner; the event log does not say "completed" of a
  job that is not.
* Engine: a step runs only after its dependencies, a failure skips exactly what
  is downstream of it, a run that resumes agrees with one that does not, and the
  cycle test refuses exactly the cyclic workflows.
* Event stream: a client reads the log in order and without a hole over all its
  connections, and its stream ends with the job.
* Node: what `Load` accepts makes sound tickers, a signal ends the process, a
  drain leaves no run behind, and the roster shows the workers there are.

## 2. The modules

| module | models |
|---|---|
| `Identities` | the identities shared by all: jobs, workers, `None` |
| `Workflow` | the DAG, and the engine's decisions between two waves as pure operators |
| `Queue` | the Redis structures; one operator per Lua script and BRPOP |
| `Store` | the PostgreSQL rows; one operator per SQL statement |
| `Service` | composes queue and store with submitters, workers, heartbeats and reapers; `Init`, `Next`, `Spec`, `FairSpec` and the properties |
| `JobLifecycle` | the abstract specification: what a job is to its submitter |
| `Engine` | one request of `POST /v1/workflows/run`, from the decoder to the answer; takes its decisions from `Workflow`, instantiated with the request's own graph |
| `EventStream` | the event log of a job, the SSE handler and its clients |
| `LeaseTiming` | one delivery against a clock: both leases, the heartbeat, `finishTimeout` |
| `Settings` | validation, defaults and duration arithmetic of the configuration |
| `Node` | one process: startup, workers, their heartbeats and registry rows, shutdown; takes its durations from `Settings` |
| `MCService`, `MCEngine`, `MCNode` | DAGs, requests and configurations for TLC |
| `ServiceProofs`, `FenceProofs` | theorems about `Service`: types, then fences, leases and the refinement of `JobLifecycle`, which rests on them |
| `BooksProofs`, `LossProofs` | more about `Service`, from `FenceProofs`: the rows against the DAG; no job is lost |
| `EngineProofs`, `LeaseTimingProofs`, `StreamProofs`, `NodeProofs` | theorems about `Engine`, `LeaseTiming`, `EventStream`, and `Node` with `Settings` |

**Queue.** A Lua script is atomic in Redis, so each is one action.  A lease's
deadline is abstracted to what a script can see: `live` or `expired`.  `Ack`
is not conditional on who holds the lease, because `ackScript` is not.

**Store.** An SQL statement is one action, and its WHERE clause an operator of
its own (`Claimable`, `StoreHeld`, `FinishHeld`, `StepClaimable`, `Orphaned`).
`lease_expires_at` has four values: NULL, in the future, past, and past by more
than the grace period of `ReclaimExpiredJobs`.  `jobError` records which path
wrote the error, not its text.  Of the event log, only the two types that end a
stream (`jobs.IsTerminal`) are kept.

**Workflow.** A step is its ordinal.  `Blocked` is the least fixpoint that the
loop of `skipBlocked` iterates to.  Prompts are abstracted to the set of steps
they reference, which need not be dependencies: `NewWorkflow` does not look.

**Service.** Worker `w` is a program counter `pc[w]` naming the call `process`
makes next, plus what lives on its stack: the job, the run's results, the phase
of each step of the wave, the retries, the fence's flag, the verdict of
`runJob`.

| `pc` | code |
|---|---|
| `idle`, `parked` | `RunWorker`'s claim loop, and BRPOP |
| `claimed`, `drop` | `process` up to `ClaimJob`; the ack of a duplicate or dead letter |
| `deadLetter`, `deadLog` | `deadLetter`'s two statements |
| `load`, `run` | `runJob`, with `holdLease` beside it (`beat`, `ctx`) |
| `abandon`, `requeue` | `abandon`: `ReleaseJob`, then `Requeue` |
| `write`, `finish`, `log`, `ack` | the writes behind the run, in the detached context |
| `stopped`, `dead` | `RunWorker` returned; the process crashed |

Within `run`, the steps of a wave interleave (each has its goroutine), each with
`ClaimStep`, the agent's call, retries, and the drain that persists its result.
A restarted process has a fresh worker ID, so a dead worker stays dead.

**Faults** of `Service` are a set of kinds, `FaultKinds`, with one common budget
`MaxFaults`; the header of `Service` lists them.  A failed call either had its
effect or did not, both are tried.  A call in a context that is already
cancelled may fail for free.  Agents fail without a budget when `"agent"` is
among the kinds.

**JobLifecycle** keeps four things of a job: its state, its holder, the steps
that have succeeded, and where its request is.  There are no leases, no queue
and no deliveries in it, a step that succeeded stays so, and only `Withdraw`,
the request that fails a job it could not dispatch, may replace an outcome.
`Service` maps `state` to `status`, `holder` to `owner`, `done` to the rows that
say `succeeded`, and the program counter of `Submit` to `request`; that it
implements the abstract specification is `ImplementsLifecycle`.

**Engine** follows `runHandler` through `NewWorkflow`, the countdown of
`hasCycle` one step at a time, and `Run`: a wave, its goroutines with their
retries, the drain, and `skipBlocked` pass by pass and step by step.  Wherever
the code ranges over a map, any order is taken.  `Service` uses the least
fixpoint `Blocked` in the place of the passes, and an assumption in the place of
`hasCycle`; `SkipsTheWholeChain` and `CycleTestExact`, which are proved for every
graph, are what justifies both.

**EventStream** draws an event's ID when its INSERT begins and shows the row when
it commits, as a PostgreSQL sequence does; `late` marks what was committed
behind a higher ID.  A client has what it has read, the handler its cursor, and
between them is what is on the wire, lost when a connection breaks.

**LeaseTiming** has no queue and no store, only ages.  An age runs from the clock
that a lease is computed from, which is not the moment it takes effect: `Claim` and
`Extend` compute the deadline for Redis in front of the round trip
(`queue.go:139`, `:159`), and the database reads its clock somewhere within its
call.  `Latency` bounds the time between two effects of one goroutine (the code sets
no timeout on a renewal, so this is an assumption about the backends), `MaxOutage`
what failing heartbeats lose in a row.  `TimingAssumption` asks that

    MaxOutage + Interval + 5 * Latency + FinishTimeout < Lease

A shutdown is in it too: it ends `holdLease` at once (`jobs.go:464`) while the run
goes on until its agents have noticed and its wave is written, in detached contexts
of 5 s for each step, one after the other (`jobs.go:518`).  Nothing bounds that as a
whole; `DrainTime` stands for it, and only if it fits beside the rest (`DrainFits`)
is a draining worker sure of its leases.

The defaults (lease 30 s, heartbeat 10 s, finish 10 s) leave 10 s for the
latencies and not one missed heartbeat: after a miss, writes that use up
`finishTimeout` outlast the lease.  Nor do they leave room for a drain in which
two steps of a wave use up their 5 s.  A `lease_ms` of 15 s or less does not fit at
all.  The code does not check this relation.

**Settings** is a pair of layers as in the code: the accessors of `config.Async`
feed those of `jobs.Config`, which correct once more.  Durations are signed
words that wrap; `Half` and `Unit` give the width and the millisecond.

**Node** is the process around the workers.  `owing` says how a worker stands to
the leases of its delivery, `flight` is the heartbeat's statement under way with
the count it took from the atomic counter, and `silent` counts the intervals a
row has been without a heartbeat.  Time passes for a row beside a heartbeat that
beats too (`Late`): its statement has no timeout (`jobs.go:300`), the next one waits
for its answer and for the ticker, and the row may be pruned meanwhile without a
failure.  `MaxDelay` bounds the intervals from one statement to the next, as `Latency`
does in `LeaseTiming`.

**Time.** In `Service` a lease may expire whenever nobody is attending to the
job.  While its holder processes the job, expiry is the fault `"pause"`.
`LeaseTiming` proves that within `TimingAssumption`, and for a worker that is
shutting down within `DrainFits`, a live worker's leases do not run out, so that
`"pause"` stands for a stall (a GC or VM pause, a partition), for a drain that takes
too long or for durations that violate the assumption.  Other workers that have the
job in hand, with a redelivery, do not keep its lease from running out.

## 3. The runs

All take seconds to about two minutes on two cores.  Deadlock is checked in all
of them but `timing`, where a delivery comes to its end and its clock stops at
`MaxAge`.

### Passing

| run | instance | shows |
|---|---|---|
| `fences` | 1 job, 2 workers, 2 chained steps; any 2 faults of any kind; failing agents | `TypeOK`; `FenceInv`, the inductive invariant of the proofs; `StepSuccessIsFinal`: a success is never undone or run again; `TerminalIsFinal`: an outcome is never changed; `CompletedIsTruthful`: `job.completed` only after the outcome; `ImplementsLifecycle` |
| `single_fault` | 3 workers, any one crash, shutdown, failing call, failing sweep or failing request | `NoJobLost`: an accepted job is where a worker or a reaper will find it; `LossInv`, the inductive invariant behind it; `LeaseKept` and `ExclusiveExecution`: nobody executes or concludes a job beside its owner |
| `waves` | 3 steps, two parallel and their join; up to 2 of crash, stall, failing statement, loss of Redis, failing sweep; failing agents | `BooksInv`, the inductive invariant; `DependenciesFirst`, `SucceededMeansAllSteps`, `ClosedBooks`: rows respect the DAG at every moment, and tell the whole story at the end |
| `live` | 2 workers, retries, a prompt referencing a step it does not depend on; 1 fault, stalls included | `JobsEnd`, `QueueDrains`: every accepted job ends and leaves the queue |
| `two_jobs` | 2 jobs, one hint, batch of one, one worker that cannot resolve agents; 1 crash | `JobsEnd`, `QueueDrains`, where jobs compete for hints and sweeps |
| `engine` | all 64 graphs over 3 steps, 4 more (chain, diamond, prompts that name no dependency or no step), 9 requests that are refused; 1 retry; a client that goes | `EngineInv`, the inductive invariant, `TypeOK` included; `CycleTestExact`, `SkipsTheWholeChain`, `AnswerTellsTheOutcome`, `RetriesAreUsedUp`, and `EveryRequestAnswered` |
| `stream` | 2 writers, 4 event IDs, 1 client, 2 broken connections | `StreamInv`, the inductive invariant; `InOrderOnce`, `NoHoles`; `TerminalReachesClients`: a terminal event that was committed in its turn is read and ends the stream |
| `timing` | lease 36, interval 5, finish 10, latency 1, outage 10, drain 5; a shutdown at any moment | `TimingInv`, the inductive invariant; `LeasesCoverWorker`: a live worker has both leases from its claim to its last write; `QueueSweepComesFirst` |
| `node` | 1 worker, 2 deliveries, 1 stream, 1 failing call, heartbeats up to 1 interval late; configurations that are sound, refused, inconsistent or overflowing | `NodeInv`, the inductive invariant, `TypeOK` included; `SettingsAreSound`, `DrainReleases`, `CounterHonest`, `RowStaysRemoved`, `SignalEndsNode`, `RosterForgetsNode`; `RosterIsComplete`: a worker stays on the roster as long as its heartbeats are no slower and fail no more often than the worker TTL tolerates |

### Violations: what a doc or a comment says and the code does not keep

| run | claim | what happens |
|---|---|---|
| `redis_loss` | the PostgreSQL reaper covers what a Redis restart loses (`README.md:233`) | it sweeps `running` jobs only; a pending one is lost |
| `late_dispatch` | an empty owner matches an *unclaimed* job (`store.go:222`) | a finished job has no owner either: the request whose `Push` reported an error fails a job that a worker completed |
| `stream_closes` | the stream closes once the job is terminal (`router.go:177`, `README.md:251`) | a client that resumes at the terminal event, or whose terminal event commits behind a later ID, is polled for ever |

Other deviations that the models have and that need no run of their own:

* *Two crashes* (`queue.go:63`): `ackScript` drops the lease of a job whoever
  holds it, so the ack of a duplicate can remove the entry of another delivery;
  with three workers, `FaultKinds = {"crash"}` and a budget of two, `NoJobLost`
  fails.
* *A sweep cut in two* (`jobs.go:371`): with `{"crash", "sweep"}` and two faults
  `NoJobLost` fails because a reaper dies, or its `Push` fails, after the job
  went back to pending; no sweep looks at a pending job.
* *A swallowed write* (`jobs.go:520`): with `"write"` among the kinds of `waves`,
  `DependenciesFirst` fails: the write of a success is lost, the dependent
  succeeds, and a crash makes the first step run again.
* *No completion event* (`jobs.go:453`): a crash between `FinishJob` and
  `AppendEvent` leaves an ended job whose stream nobody ends.
* *A dead letter in vain* (`jobs.go:569`): `deadLetter` records its event although
  `FinishJob` failed, so a stream may end while the job still runs.
* *An infrastructure error that ends a job* (`jobs.go:609`): a failing
  `ClaimStep` is an agent error to the engine.
* *A worker off the roster* (`store.go:355`): `HeartbeatWorker` is an UPDATE, so
  a worker that was pruned works on unseen.  `Load` accepts any `worker_ttl_ms`.
  Below the heartbeat, any sweep does it; a little above it, a heartbeat that is
  slow and does not fail is enough.  `RosterIsComplete` says which TTL is long
  enough for how slow and how many failing heartbeats; the default is twelve
  heartbeats.
* *A slow step* (`README.md:373`): of `lease_ms` it says "Set it above your slowest
  step's latency, or a healthy but slow job will be taken away mid-run."  It is not:
  `holdLease` renews both leases on a ticker beside the run, whatever the steps do
  (`jobs.go:466`), so `LeasesCoverWorker` holds for runs that outlast any lease, and
  `timing` reaches them (a run's `stepAge` counts up to `Lease`).  What has to be
  below the lease is the sum in `TimingAssumption`, which has no step in it.  Only a
  shutdown exposes the run's own time, as `DrainTime`.
* *A drain without time* (`main.go:98`): one grace bounds `Shutdown` and the
  drain together, and an open event stream uses all of it.

### Bounds, and why they are enough

* *Jobs*: jobs interact only through the ready list, the hints and the sweep
  batch, which `two_jobs` covers with two jobs, `NotifyBacklog = 0` and
  `ReclaimBatch = 1` (the smallest at which the trim and the limit bite).
* *Workers*: two give an old and a new owner; three, in `single_fault`, add the
  bearer of a duplicate.  The workers of a `Node` do not meet, so one is enough.
* *Steps*: two make an order, three a join with a parallel wave.
* *MaxAttempts*: 2, so that a job is resumed once and then dead-lettered; 1
  where only the dead letter matters.  It also bounds `attempts`.
* *MaxFaults*: each violation above needs at most two, which is what the
  safety runs `fences` and `waves` allow.  `NoJobLost` holds for one fault of
  any kind but a loss of Redis, which section 4 proves, and fails for two crashes.
* *Graphs*: three steps have every shape of a cycle through others and every
  order of chain, join and fork; the chain of four, declared backwards, needs
  more than one pass of `skipBlocked`.
* *Events*: two writers and four IDs give a late commit on either side of a
  terminal event; two breaks, one while events are on the wire and one after.
* *Ages*: a lease of 36 is the least that leaves `DrainFits` room for two missed
  heartbeats and a drain at a latency of 1, so that the bounds are tight; `MaxAge`
  is two leases and a little more, for `QueueSweepComesFirst`.
* *Heartbeats of a node*: with statements up to one interval apart, a TTL of four
  heartbeats tolerates one failure, exactly; a TTL of one and a half does not
  tolerate even a slow heartbeat.  Both are in the instance.
* *Durations*: a word of 256 ticks with 4 ticks to the millisecond holds every
  sign that a lease, a heartbeat and four leases can come out with.
* *Symmetry* on workers is used in safety runs only.

### Fairness

`FairSpec` assumes weak fairness of each worker's own steps, of each reaper's,
and of leases that nobody attends running out.  `RunWorker` and `RunReaper` are
loops that wait only with timeouts (BRPOP, tickers), and clocks advance.  Agents
are assumed to return: `timeout_ms` bounds a call of the provider, and its
default, zero, does not.  With that default an agent that hangs keeps its job
running for ever, since the heartbeat goes on renewing the lease; this is a
hazard of the configuration that `JobsEnd` sets aside.  Nothing is assumed of the
heartbeat or of submitters, nor of any fault.

`Engine` is fair as a whole, agents' calls included.  `EventStream` assumes a
handler that polls, and a client that reads and that reconnects after a break.
`Node` assumes that `run` and the workers' own calls go on, that an unheard row
grows older and that some reaper sweeps; it assumes nothing of agents, requests,
streams or signals, and `SignalEndsNode` holds with all of them hanging.

## 4. What is proved

The theorems hold for every number of jobs, workers, reapers, steps, retries,
attempts and, except where noted, faults, for every DAG and, again except where
noted, every set of fault kinds; those about timing for all durations that satisfy `TimingAssumption`; those
about streams for any number of writers, clients, events and breaks; those about
a node for any configuration; those about a request for any list of steps.  The assumptions are the named ASSUMEs of
`Identities`, `Workflow`, `Queue`, `Service`, `Engine`, `LeaseTiming`,
`EventStream`, `Settings` and `Node`: finite jobs and workers, `None` no identity,
an acyclic DAG (of a job; the graph of a request is any), natural bounds,
durations that fit, a millisecond and a word that are multiples of 4 ticks, and
configurations whose durations are any integers.

| theorem | states | argument |
|---|---|---|
| `ServiceProofs!TypeCorrect` | `Spec => []TypeOK` | inductive as it stands, once `TypeOK` says that a busy worker has a job and that no step is in a phase outside `run`; lemmas per operation of the queue and the store, then one step per action |
| `FenceProofs!TerminalStays` | `Spec => TerminalIsFinal` | `OwnedRuns` (only a running job has an owner) is inductive; every statement that changes an outcome is conditional on an owner, save the failing request, which the property excepts |
| `FenceProofs!LeaseIsKept`, `ExecutionIsExclusive` | if `"pause" \notin FaultKinds`, `LeaseKept` and `ExclusiveExecution` always hold | `LeaseKept` is inductive: another worker's `ClaimJob` and the sweep both need a lease that is not live, and a lease attended to expires only by a pause; two holders would both be the owner |
| `FenceProofs!FencesHold` | `Spec => []FenceInv` | see below |
| `FenceProofs!SuccessStays` | `Spec => StepSuccessIsFinal` | from `FenceInv`: every write to a step is by the owner, and an owner writes what it knows |
| `FenceProofs!CompletedTellsTruth` | `Spec => []CompletedIsTruthful` | a worker about to log has ended the job; `TerminalIsFinal`'s exception still leaves the job terminal |
| `FenceProofs!Refinement` | `Spec => ImplementsLifecycle` | initial states map to initial states; every action maps to one step of `JobLifecycle` or to a stutter, from `TypeOK` and `FenceInv`: a step write that passes the fence is the holder's `Achieve`, one that does not changes nothing |
| `BooksProofs!BooksAreKept` | if `"write" \notin FaultKinds`, `BooksInv` and `DependenciesFirst` always hold | inductive together with `FenceInv`, see below |
| `BooksProofs!DependenciesComeFirst`, `SuccessIsWhole`, `BooksAreClosed` | under the same hypothesis, `DependenciesFirst`, `SucceededMeansAllSteps` and `ClosedBooks` always hold | the first is a part of the theorem above; the other two are about the one step that records an outcome, and about steps that leave an ended job alone |
| `LossProofs!OneFaultIsSafe` | if `MaxFaults <= 1` and `"flush" \notin FaultKinds`, `LossInv` always holds | inductive together with `TypeOK` and `FenceInv`, see below |
| `LossProofs!NothingIsLost` | under the same hypotheses, `NoJobLost` always holds | from `PendingGuarded` and `RowsRemain` |
| `LossProofs!OnlyFaultsLose` | `Spec => LossNeedsFault`, with every fault kind and every budget | a step in which no call fails and no worker is shutting down leaves a `Guarded` pending job so, and what it returns to pending is `Guarded` |
| `EngineProofs!EngineInvariant` | `Spec => []EngineInv` | see below |
| `EngineProofs!CycleTestIsExact` | `Spec => []CycleTestExact` | when the queue is empty the visited steps are all steps, and founded, or the others all depend on one of themselves |
| `EngineProofs!SkipsAreExact`, `AnswersAreTrue`, `RetriesBeforeFailure` | `SkipsTheWholeChain`, `AnswerTellsTheOutcome` and `RetriesAreUsedUp` always hold | from the rest of `EngineInv`, at the step that ends a pass, a run or a wave |
| `StreamProofs!StreamTypes`, `StreamInSync` | `Spec => []TypeOK`, `Spec => []StreamInv` | see below |
| `StreamProofs!EventsInOrderOnce`, `StreamHasNoHoles` | `InOrderOnce` and `NoHoles` always hold | parts of `StreamInv` |
| `NodeProofs!NodeInvariant`, `NodeTypes` | `Spec => []NodeInv`, `Spec => []TypeOK` | see below |
| `NodeProofs!SettingsSound` | `Spec => []SettingsAreSound` | for any integers: a product of whole milliseconds is a multiple of 4 ticks before and after it wraps, so a lease that comes out positive is at least 4 ticks and a third of it is positive and less than it |
| `NodeProofs!DrainIsComplete`, `CountersAreHonest`, `RosterComplete` | `DrainReleases`, `CounterHonest` and `RosterIsComplete` always hold | from `NodeInv`; for the last, `RowsAreFresh` bounds the age that a sweep may find |
| `NodeProofs!RemovedRowsStayRemoved` | `Spec => RowStaysRemoved` | only `RegisterWorker` inserts a row, and its worker has not returned |
| `LeaseTimingProofs!TimingInvariant` | `Spec => []TimingInv` | inductive, see below |
| `LeaseTimingProofs!LeasesAreKept`, `SweepOrder` | `LeasesCoverWorker` and `QueueSweepComesFirst` always hold | from `TimingInv` and `TimingAssumption`, and in a shutdown from `DrainFits`, which the property has as its hypothesis |

`StepSuccessIsFinal` is not provable from the fence alone.  The fence stops
everyone but the owner; what keeps the *owner* from overwriting a success with
"running", "failed" or "skipped" is that it read the rows after it became the
owner, and that nobody else has written since.  Hence

    FenceInv == OwnedRuns /\ WaveIsOpen /\ OwnerKnowsProgress

where `OwnerKnowsProgress` says that a worker in `run` or `write` that is still
the owner has in memory every success the rows have, and `WaveIsOpen` that a
step in the wave has no result yet, so that `ClaimStep` and the drain touch only
steps that the owner does not know to have succeeded.  `fences` checks
`FenceInv` with TLC.

That a lease is younger than its length is not inductive either.  `TimingInv`
bounds both ages by what can have passed: the calls made (`BeforeRun`), the time
since the ticker fired, the interval before it once the call is due again, the
outage so far and the round trip since the deadline was computed (`BesideRun`).  All
of that is `LongestGap`, the most that can have passed when `holdLease` returns.  A
run that drains adds its own time to it (`BesideDrain`) and the writes behind the run
theirs (`BehindRun`).  `StoreLeads` ties the two ages together for the sweep.

What the rows say of the dependencies needs more than the fence: the rows are
written from the memory of a run, by a worker that may be replaced between any
two writes.  Hence

    BooksInv == RunsInOrder /\ RowsFollowRun /\ VerdictIsRight /\ WrittenSoFar /\ ErrorsEnd

A run's results are consistent with the DAG (`RunsInOrder`); what the owner knows
to have succeeded is in the rows (`RowsFollowRun`, the converse of
`OwnerKnowsProgress`); the verdict is the one the results call for; and the
writes behind the run have got as far as the counter says.  `RowsFollowRun` is
where the hypothesis `"write" \notin FaultKinds` is needed: `fencedAgent.Run`
and `process` drop the error of `UpdateStep` (`jobs.go:520`), so with lost writes
a dependent is recorded ahead of its dependency and `DependenciesFirst` is false,
as section 3 says.  All other fault kinds are allowed.  That the books are right
at the end rests on lemmas about `Workflow`: `skipBlocked` skips a step only for
a cause (`BlockedHasCause`), a run with no wave left and no failure has done every
step (`NothingFailed`, which needs a DAG without a cycle), and what `Run` returns
as skipped are exactly the steps that could not be started (`OrderedSkips`).

That no job is lost is false with two faults (section 3): the first leaves a
duplicate of a delivery behind, the second strikes the delivery whose lease the
ack of the duplicate removes.  What has to be shown for one fault is that there
is nothing for the fault to lose when it comes, and that nothing is lost in
clearing up after it.  Hence

    LossInv == SingleCopies /\ PendingGuarded /\ SweepsEnd /\ OneShutdown /\ RowsRemain

* `SingleCopies`, until the fault (`Calm`): every job is `InOrder`.  It has one
  copy, in the ready list or with one worker, whose lease in Redis is live and
  whose program counter fits the row; no reaper holds it, and nobody has been told
  of a lost lease.  A shutdown takes several steps, since every call of the worker
  may then fail; the order lasts until the worker has ended, and `OneShutdown`
  says that this worker is the only one.
* `PendingGuarded`, always: an accepted job that is pending is `Guarded`.  Either
  it is `Firm` (in the ready list, with a reaper about to push it, or with a worker
  about to claim or requeue it), or it is under a lease and no worker has it in
  hand, so that nobody can ack it away.  A lease alone is not enough: `ackScript`
  removes it whoever holds it (`queue.go:63`).  This part restores itself: `OnlyFaultsLose`
  shows that steps that do not fail keep it whatever has failed before.
* `SweepsEnd`: a reaper between sweeps holds no orphans, so that the next sweep
  overwrites none.  `RowsRemain`: an accepted job has a row.

`"flush"`, a loss of Redis, is excluded because `redis_loss` shows the property
false with it.  All other kinds are allowed, stalls and failing sweeps included.
`single_fault` checks `LossInv` with TLC on three workers.

For a request, the graph is data: nothing but `NewWorkflow` says that it has no
cycle.  `EngineInv` has four parts beside the types and the properties themselves.

* `CountsDown`: the steps that `hasCycle` has visited are those with a count of
  zero that are not in its queue; the count of a step is the number of its
  dependencies not yet visited, `visited` is the number of visited steps, and the
  visited steps are *founded*: every set of them has a member that depends on no
  other.  That `len(step.DependsOn)` is the number of dependencies rests on the
  checks in front of `hasCycle` (`ListedOnce`).
* `RunsWhatIsValid`: what runs is founded, and a step in flight has no result,
  but its dependencies have succeeded.
* `ResultsFollowGraph`: a step that ran had its dependencies' outputs, a skipped
  one depends on one that failed or was skipped.
* `PassIsThorough`: in a pass that has skipped nothing, every step it has looked
  at still has no failed dependency.

`Behind`, the closure in the properties, is the least set that holds the
dependencies of a step and is closed under them.  `FoundedIsAcyclic` and
`UnfoundedIsCyclic` show that a graph is founded exactly when no step is behind
itself, by a least counterexample; `ChainsAreSkipped` and `NothingRemains` turn the
local facts of `ResultsFollowGraph` and `PassIsThorough` into what holds along
whole chains.

For the event stream, what a client has read says nothing by itself about what
the handler will send next.  `StreamInv` adds that what is on the wire goes on
behind what was read (`WireGoesOn`) and that the handler's cursor is the last
event sent, or the last one read when nothing is on the wire (`CursorIsLast`); a
poll then appends exactly the rows behind the last one.  An event that is committed
late is excepted in `NoHoles`, and a commit in its turn is behind every cursor.
The proof needs that a finite set of IDs can be listed in ascending order, for
`ById`; `StreamProofs` proves it by a least counterexample, from the well-ordering
of the naturals.

For the node, `NodeInv` ties four things together: a worker that has not returned
is in the WaitGroup and only a run holds a job (`RunsAreTracked`), so that an
empty WaitGroup means that nothing is held; a row outlives its worker only if the
worker took no job or a call failed (`RowsAreRemoved`); a delivery is counted in
the row, in the statement under way or in the counter, never in two of them
(`CountedOnce`, without which `TypeOK` is not inductive either); and until a signal
the row of a beating worker is no older than the delay since the last statement, the
delay before it while that is under way, and one delay for every call that failed
(`RowsAreFresh`).  That is at most `(faults + 2) * MaxDelay` intervals, and a sweep
that comes before the next one is whole finds a row younger than the TTL if
`Tolerated`.  The `waves`, `engine`, `stream` and `node` runs check
these four invariants with TLC.

Every invariant and action property of the passing runs is proved.  Only
model-checked is liveness, which is out of the prover's reach: `JobsEnd`,
`QueueDrains`, `EveryRequestAnswered`, `TerminalReachesClients`, `SignalEndsNode`
and `RosterForgetsNode`.  Induction over data is available to these proofs only as an argument by
least counterexample, since the provers do not instantiate an induction theorem's
predicate.

## 5. What is not modelled

* Routing, JSON, the provider's protocol, connections, logging: I/O without
  state of its own.  Requests that `eventsHandler` refuses before its loop.
* `Get`, `Depth`, `Workers`, `Stats`: reads that nothing depends on.
* Outputs, prompts' text, token counts, timestamps: no property tells them
  apart.
* `nextBackoff` and the delay between retries: they only delay a step.
* Node and Service together: `Service` has the shutdown of a worker as a fault of
  its own, so the drain and the leases are not explored in one state space.  There
  one worker stops at a time, where a signal stops all workers of its node and its
  reaper at once; `OneShutdown` is about that one worker.
* The deferred `closeBackend` of `run` (`main.go:68`, `:166-171`), which closes the
  pools behind the exit that `Node` has, and waits for connections in use.
* The text of a 502: it carries the results, and `AnswerTellsTheOutcome` is about
  the step that the `WorkflowError` of `Run` names.
* What PostgreSQL makes of the lease: it gets whole milliseconds (`store.go:199`,
  `:215`), so a lease below one millisecond, which only a product that wrapped can
  give, is none there.  `Settings` has this truncation for the worker TTL, and
  `SettingsAreSound` speaks of the durations that the service itself uses.
* Clocks that differ between nodes.  A deadline in Redis is written from the clock
  of one node and compared with that of another (`queue.go:139`, `:183`), so skew
  makes a lease lapse early, which `"pause"` covers, or late, which only delays.
  `LeaseTiming` has one clock, `Node` one for the heartbeats and the sweeps.

## 6. Plan

Done: every component with state of its own has its module, the life cycle and
its refinement included.  The fences, the leases, the timing, the refinement, the
books, the safety of jobs from a single fault, the engine, the event stream and
the node are proved.

Left: a composition of `Node` and `Service`, in which the drain of a node and the
leases of its workers share one state space.
