------------------------------ MODULE Settings ------------------------------
(***************************************************************************)
(* The settings of internal/config/config.go and what becomes of them in   *)
(* jobs.Config: validation, defaults, and the arithmetic of time.Duration, *)
(* a signed word that wraps round.  A configuration is the decoded file,   *)
(* with the environment variables it names: [enabled, urls, tokens,        *)
(* retries, workers, lease, heartbeat, reaper, ttl, sweeps].               *)
(***************************************************************************)
EXTENDS Integers

CONSTANTS
  Unit,                  \* time.Millisecond, in ticks of time.Duration
  Half,                  \* a duration is in -Half..(Half - 1)
  DefaultLease,          \* defaultLease, in ticks
  DefaultReaperInterval  \* defaultReaperInterval, in ticks

\* time.Millisecond is 10^6 and a word 2^64 values: both are multiples of 64, so
\* that no lease is a tick or two long.  A smaller word keeps that with 4.
ASSUME SettingsAssumption ==
  /\ Unit \in Nat \ {0} /\ Half \in Nat \ {0}
  /\ Unit % 4 = 0 /\ Half % 4 = 0
  /\ DefaultLease \in Nat /\ DefaultLease >= 3 /\ 4 * DefaultLease < Half
  /\ DefaultReaperInterval \in 1..(Half - 1)

\* int64 arithmetic.
Wrap(n) == ((n + Half) % (2 * Half)) - Half

\* Integer division truncates towards zero.
Quotient(n, k) == IF n >= 0 THEN n \div k ELSE -((-n) \div k)

Milliseconds(n) == Wrap(n * Unit)

\* Config.validate and Async.validate.
Valid(c) ==
  /\ c.retries >= 0
  /\ c.workers >= 0
  /\ c.lease >= 0 /\ c.heartbeat >= 0 /\ c.reaper >= 0 /\ c.ttl >= 0
  /\ ~(c.heartbeat > 0 /\ c.lease > 0 /\ c.heartbeat >= c.lease)
  /\ c.enabled => c.urls

-----------------------------------------------------------------------------
(* The accessors of config.Async, which newJobService copies.              *)

\* einoagent.New finds every agent's token.
AgentsComplete(c) == c.tokens

WorkerCount(c) == IF c.workers <= 0 THEN 1 ELSE c.workers

ReaperEnabled(c) == c.sweeps

AsyncLease(c) == IF c.lease <= 0 THEN DefaultLease ELSE Milliseconds(c.lease)

AsyncHeartbeat(c) ==
  IF c.heartbeat <= 0 THEN Quotient(AsyncLease(c), 3) ELSE Milliseconds(c.heartbeat)

AsyncReaperInterval(c) ==
  IF c.reaper <= 0 THEN DefaultReaperInterval ELSE Milliseconds(c.reaper)

AsyncWorkerTTL(c) ==
  IF c.ttl <= 0 THEN Wrap(4 * AsyncLease(c)) ELSE Milliseconds(c.ttl)

-----------------------------------------------------------------------------
(* The accessors of jobs.Config, which the service uses.                   *)

Lease(c) == IF AsyncLease(c) <= 0 THEN DefaultLease ELSE AsyncLease(c)

\* Mutation of Heartbeat: a heartbeat that is too long is used as it is.
HeartbeatUncapped(c) ==
  IF AsyncHeartbeat(c) > 0 THEN AsyncHeartbeat(c) ELSE Lease(c) \div 3

Heartbeat(c) ==
  IF AsyncHeartbeat(c) > 0 /\ AsyncHeartbeat(c) < Lease(c)
    THEN AsyncHeartbeat(c) ELSE Lease(c) \div 3

ReaperInterval(c) ==
  IF AsyncReaperInterval(c) <= 0 THEN DefaultReaperInterval ELSE AsyncReaperInterval(c)

WorkerTTL(c) == IF AsyncWorkerTTL(c) <= 0 THEN Wrap(4 * Lease(c)) ELSE AsyncWorkerTTL(c)

\* What PruneWorkers and Workers make of it: whole milliseconds.
PruneAge(c) == Quotient(WorkerTTL(c), Unit) * Unit

=============================================================================
