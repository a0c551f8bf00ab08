----------------------------- MODULE NodeProofs -----------------------------
(***************************************************************************)
(* For every configuration and every number of workers, requests and       *)
(* faults: the settings a node runs with are sound whatever overflows, its *)
(* drain releases every job, and the roster of workers is right.           *)
(***************************************************************************)
EXTENDS Node, TLAPS

USE SettingsAssumption, NodeAssumption DEF SettingsAssumption, NodeAssumption

-----------------------------------------------------------------------------
(* time.Duration.                                                          *)

\* A remainder is the number less a multiple of the divisor.
LEMMA Remainder ==
  ASSUME NEW n \in Int, NEW d \in Nat \ {0}
  PROVE  /\ n = d * (n \div d) + (n % d) /\ n \div d \in Int
         /\ n % d \in 0..(d - 1)
  OBVIOUS

\* Multiplying whole milliseconds does not leave the multiples of 4, even when
\* the product overflows.
LEMMA MillisecondsAreCoarse ==
  ASSUME NEW n \in Int
  PROVE  /\ Milliseconds(n) \in Int
         /\ \E k \in Int : Milliseconds(n) = 4 * k
<1> DEFINE u == Unit \div 4
           h == Half \div 4
           d == 2 * Half
           m == n * Unit + Half
           q == m \div d
<1>1. u \in Int /\ h \in Int /\ Unit = 4 * u /\ Half = 4 * h
  BY Remainder
<1>2. n * Unit \in Int /\ m \in Int /\ d \in Nat \ {0}
  OBVIOUS
<1>3. m = d * q + (m % d) /\ q \in Int /\ m % d \in Int
  <2> HIDE DEF m, d
  <2> QED
    BY <1>2, Remainder
<1>4. Milliseconds(n) = (m % d) - Half
  BY DEF Milliseconds, Wrap
<1>5. n * Unit = 4 * (n * u) /\ n * u \in Int
  BY <1>1
<1>6. d * q = 4 * (2 * (h * q)) /\ h * q \in Int
  <2> HIDE DEF q, h
  <2> QED
    BY <1>1, <1>3
<1>7. Milliseconds(n) = n * Unit - d * q
  <2>1. m - Half = n * Unit
    BY <1>2
  <2>2. d * q \in Int
    <3> HIDE DEF d, q
    <3> QED
      BY <1>2, <1>3
  <2> HIDE DEF m, d, q
  <2> QED
    BY <1>2, <1>3, <1>4, <2>1, <2>2
<1> DEFINE k == n * u - 2 * (h * q)
<1>8. k \in Int /\ Milliseconds(n) = 4 * k
  <2> DEFINE a == n * u
             b == h * q
  <2>1. a \in Int /\ b \in Int /\ Milliseconds(n) = 4 * a - 4 * (2 * b)
    BY <1>5, <1>6, <1>7
  <2>2. k = a - 2 * b
    OBVIOUS
  <2> HIDE DEF a, b, k
  <2> QED
    BY <2>1, <2>2
<1> QED
  BY <1>8

\* The lease that the service uses is at least three ticks.
LEMMA LeaseIsLong ==
  ASSUME NEW c \in Configs
  PROVE  Lease(c) \in Nat /\ Lease(c) >= 3
<1>1. c.lease \in Int
  OBVIOUS
<1>2. PICK k \in Int : Milliseconds(c.lease) = 4 * k
  BY <1>1, MillisecondsAreCoarse
<1> QED
  BY <1>1, <1>2 DEF Lease, AsyncLease

\* Durations are integers.
LEMMA DurationTypes ==
  ASSUME NEW c \in Configs
  PROVE  /\ AsyncHeartbeat(c) \in Int /\ AsyncReaperInterval(c) \in Int
         /\ Heartbeat(c) \in Int /\ PruneAge(c) \in Int
<1>1. c.lease \in Int /\ c.heartbeat \in Int /\ c.reaper \in Int /\ c.ttl \in Int
  OBVIOUS
<1>2. /\ Milliseconds(c.lease) \in Int /\ Milliseconds(c.heartbeat) \in Int
      /\ Milliseconds(c.reaper) \in Int /\ Milliseconds(c.ttl) \in Int
  BY <1>1, MillisecondsAreCoarse
<1>3. AsyncLease(c) \in Int /\ AsyncReaperInterval(c) \in Int
  BY <1>2 DEF AsyncLease, AsyncReaperInterval
<1>4. \A n \in Int, k \in Nat \ {0} : Quotient(n, k) \in Int
  BY DEF Quotient
<1>5. \A n \in Int : Wrap(4 * n) \in Int
  BY DEF Wrap
<1>6. AsyncHeartbeat(c) \in Int
  BY <1>2, <1>3, <1>4 DEF AsyncHeartbeat
<1>7. Lease(c) \in Nat /\ Heartbeat(c) \in Int
  BY <1>6, LeaseIsLong DEF Heartbeat
<1>8. AsyncWorkerTTL(c) \in Int
  BY <1>2, <1>3, <1>5 DEF AsyncWorkerTTL
<1>9. WorkerTTL(c) \in Int
  BY <1>5, <1>7, <1>8 DEF WorkerTTL
<1>10. PruneAge(c) \in Int
  <2>1. Quotient(WorkerTTL(c), Unit) \in Int
    BY <1>4, <1>9
  <2> QED
    BY <2>1 DEF PruneAge
<1> QED
  BY <1>3, <1>6, <1>7, <1>10

\* Whatever the file holds, a lease is renewed before it runs out and the tickers
\* get a positive interval.
LEMMA DurationsAreSound ==
  ASSUME NEW c \in Configs
  PROVE  0 < Heartbeat(c) /\ Heartbeat(c) < Lease(c) /\ 0 < ReaperInterval(c)
<1>1. Lease(c) \in Nat /\ Lease(c) >= 3
  BY LeaseIsLong
<1>2. 0 < Lease(c) \div 3 /\ Lease(c) \div 3 < Lease(c)
  BY <1>1
<1>3. 0 < Heartbeat(c) /\ Heartbeat(c) < Lease(c)
  BY <1>2, DurationTypes DEF Heartbeat
<1>4. 0 < ReaperInterval(c)
  BY DurationTypes DEF ReaperInterval
<1> QED
  BY <1>3, <1>4

-----------------------------------------------------------------------------
(* The invariant, step by step.                                            *)

\* run proceeds or the process ends.
RunSteps ==
  \/ Load \/ BuildAgents \/ Connect \/ ConnectFails \/ BeginShutdown
  \/ ServerStopped \/ Drained \/ DrainExpires \/ ListenerFails

\* The goroutines are started, and the reaper returns.
StartSteps == Serve \/ ReaperReturns \/ \E w \in Workers : StartWorker(w)

\* What comes from outside.
OutsideSteps == Signal \/ GraceOver \/ RequestStarts \/ RequestEnds

\* RunWorker.
WorkSteps(w) == Work(w) \/ Claim(w) \/ ClaimFails(w) \/ RunOver(w)

\* The heartbeat and the sweeps.
RowSteps(w) == BeatStarts(w) \/ BeatLands(w) \/ BeatFails(w) \/ Late(w) \/ Silence(w)

\* These are all the steps there are.
LEMMA StepsOfNext ==
  ASSUME [Next]_nodeVars
  PROVE  \/ RunSteps \/ StartSteps \/ OutsideSteps \/ Prune
         \/ \E w \in Workers : WorkSteps(w) \/ RowSteps(w)
         \/ UNCHANGED nodeVars
BY DEF Next, Main, Ended, RunSteps, StartSteps, OutsideSteps, WorkSteps, RowSteps

\* run's own steps touch nothing of the workers.
LEMMA RunStepsEffect ==
  ASSUME TypeOK, RunSteps
  PROVE  /\ UNCHANGED <<config, signalled, grace, streams, workerVars, beatVars, rowVars>>
         /\ faults' \in 0..MaxFaults /\ faults' \in {faults, faults + 1}
         /\ main # "exited"
         /\ main' \in {"agents", "connect", "start", "serve", "shutdown", "drain", "exited"}
         /\ exit' \in {exit, "refused", "failed", "drained", "expired"}
         /\ (main' # "exited" => exit' = exit) /\ (main' = "exited" => exit' # "none")
         /\ (exit' = "drained" => exit = "drained" \/ tracked = {})
BY DEF RunSteps, Load, BuildAgents, Connect, ConnectFails, BeginShutdown, ServerStopped, Drained,
       DrainExpires, ListenerFails, Proceed, Exit, Interrupted, Fault, TypeOK

\* What a step of RunWorker does to the worker, and that it touches no other.
LEMMA WorkStepsEffect ==
  ASSUME TypeOK, NEW w \in Workers, WorkSteps(w)
  PROVE  /\ Running /\ UNCHANGED <<config, mainVars, flight, delay, counted>>
         /\ faults' \in 0..MaxFaults /\ faults' \in {faults, faults + 1}
         /\ worker[w] \in Beating \cup {"register", "leave"}
         /\ \E l \in Beating \cup {"leave", "returned"} :
              /\ worker' = [worker EXCEPT ![w] = l]
              /\ tracked' = IF l = "returned" THEN tracked \ {w} ELSE tracked
         /\ \E o \in {"none", "claimed", "held", "expiring"} :
              owing' = [owing EXCEPT ![w] = o]
<1>1. owing = [owing EXCEPT ![w] = owing[w]] /\ owing[w] \in {"none", "claimed", "held", "expiring"}
  BY DEF TypeOK
<1>2. CASE Register(w) \/ RegisterFails(w) \/ BackoffOver(w)
  BY <1>1, <1>2
     DEF Register, RegisterFails, BackoffOver, InsertRow, Goto, Return, Interrupted,
         Fault, Beating, TypeOK, mainVars, beatVars, rowVars
<1>3. CASE TakeJob(w) \/ TakeJobFails(w) \/ Finish(w) \/ FinishFails(w) \/ RunOver(w)
  BY <1>1, <1>3
     DEF TakeJob, TakeJobFails, Finish, FinishFails, RunOver, Goto, Interrupted, Fault,
         Beating, TypeOK, mainVars, beatVars, rowVars
<1>4. CASE Leave(w) \/ Unregister(w) \/ UnregisterFails(w)
  BY <1>1, <1>4
     DEF Leave, Unregister, UnregisterFails, ClaimLost, DeleteRow, Goto, Return, Fault,
         Beating, TypeOK, mainVars, beatVars, rowVars
<1>5. CASE Claim(w) \/ ClaimFails(w)
  BY <1>1, <1>5
     DEF Claim, ClaimFails, ClaimLost, Goto, Fault, Beating, TypeOK, mainVars, beatVars,
         rowVars
<1> QED
  BY <1>2, <1>3, <1>4, <1>5 DEF WorkSteps, Work

\* A job is held only from TakeJob to Finish.
LEMMA WorkStepsHold ==
  ASSUME TypeOK, NEW w \in Workers, WorkSteps(w),
         owing[w] = "held" => worker[w] \in {"busy", "finish"}
  PROVE  owing'[w] = "held" => worker'[w] \in {"busy", "finish"}
BY DEF WorkSteps, Work, Register, RegisterFails, BackoffOver, TakeJob, TakeJobFails, Finish,
       FinishFails, RunOver, Leave, Unregister, UnregisterFails, Claim, ClaimFails, ClaimLost,
       Goto, Return, TypeOK

\* What a step of RunWorker does to the row and the counters.
LEMMA WorkStepsCount ==
  ASSUME TypeOK, NEW w \in Workers, WorkSteps(w)
  PROVE  /\ \/ UNCHANGED <<local, taken>>
            \/ /\ worker[w] = "idle" /\ worker'[w] = "claimed" /\ taken[w] < MaxTaken
               /\ taken' = [taken EXCEPT ![w] = @ + 1] /\ local' = [local EXCEPT ![w] = @ + 1]
         /\ \/ UNCHANGED <<rows, silent>>
            \/ /\ worker[w] = "register" /\ rows' = rows \cup {w}
               /\ silent' = [silent EXCEPT ![w] = 0]
            \/ worker[w] = "leave" /\ worker'[w] = "returned"
               /\ rows' = rows \ {w} /\ UNCHANGED silent
         /\ worker[w] = "leave" => worker'[w] = "returned"
         /\ worker[w] = "register" /\ worker'[w] # "returned" => w \in rows' /\ silent'[w] = 0
         /\ worker[w] # "register" /\ worker'[w] = "returned" => w \notin rows' \/ faults' > 0
BY DEF WorkSteps, Work, Register, RegisterFails, BackoffOver, TakeJob, TakeJobFails, Finish,
       FinishFails, RunOver, Leave, Unregister, UnregisterFails, Claim, ClaimFails, InsertRow,
       DeleteRow, Goto, Return, Fault, TypeOK, beatVars, rowVars

\* What is under way in a heartbeat, as a count.
UnderWay(w) == IF flight[w] = -1 THEN 0 ELSE flight[w]

\* A heartbeat, or the time that passes, touches the counters and the age of one
\* row.
LEMMA RowStepsEffect ==
  ASSUME TypeOK, NEW w \in Workers, RowSteps(w)
  PROVE  /\ UNCHANGED <<config, mainVars, workerVars, taken, rows>>
         /\ faults' \in 0..MaxFaults /\ faults' \in {faults, faults + 1}
         /\ counted' \in [Workers -> Nat] /\ local' \in [Workers -> 0..MaxTaken]
         /\ flight' \in [Workers -> -1..MaxTaken] /\ silent' \in [Workers -> Nat]
         /\ delay' \in [Workers -> 0..MaxDelay]
         /\ \A v \in Workers \ {w} :
              UNCHANGED <<counted[v], local[v], flight[v], delay[v], silent[v]>>
         /\ counted'[w] + local'[w] + UnderWay(w)' <= counted[w] + local[w] + UnderWay(w)
<1>1. /\ local[w] \in 0..MaxTaken /\ flight[w] \in -1..MaxTaken /\ counted[w] \in Nat
      /\ silent[w] \in Nat /\ delay[w] \in 0..MaxDelay /\ faults \in 0..MaxFaults
      /\ MaxTaken \in Nat /\ MaxDelay \in Nat
  BY DEF TypeOK
<1>2. CASE BeatStarts(w)
  <2>1. UNCHANGED <<config, mainVars, workerVars, taken, rows, faults, counted, silent>>
    BY <1>2 DEF BeatStarts, rowVars
  <2>2. local'[w] = 0 /\ flight'[w] = local[w] /\ flight[w] = -1
    BY <1>2 DEF BeatStarts, TypeOK
  <2>3. /\ local' \in [Workers -> 0..MaxTaken] /\ flight' \in [Workers -> -1..MaxTaken]
        /\ delay' \in [Workers -> 0..MaxDelay]
        /\ \A v \in Workers \ {w} : UNCHANGED <<local[v], flight[v], delay[v]>>
    BY <1>1, <1>2 DEF BeatStarts, TypeOK
  <2>4. counted'[w] + local'[w] + UnderWay(w)' <= counted[w] + local[w] + UnderWay(w)
    BY <1>1, <2>1, <2>2 DEF UnderWay
  <2> QED
    BY <1>1, <2>1, <2>3, <2>4 DEF TypeOK
<1>3. CASE BeatLands(w)
  <2>1. UNCHANGED <<config, mainVars, workerVars, taken, rows, faults, local, delay>>
    BY <1>3 DEF BeatLands, HeartbeatWorker
  <2>2. flight'[w] = -1 /\ flight[w] \in Nat /\ counted[w] + flight[w] \in Nat
    BY <1>1, <1>3 DEF BeatLands, TypeOK
  <2>3. /\ counted'[w] \in {counted[w], counted[w] + flight[w]} /\ silent'[w] \in {silent[w], 0}
        /\ counted' \in [Workers -> Nat] /\ silent' \in [Workers -> Nat]
        /\ \A v \in Workers \ {w} : UNCHANGED <<counted[v], silent[v]>>
    BY <1>1, <1>3, <2>2 DEF BeatLands, HeartbeatWorker, TypeOK
  <2>4. /\ flight' \in [Workers -> -1..MaxTaken]
        /\ \A v \in Workers \ {w} : UNCHANGED <<flight[v]>>
    BY <1>1, <1>3 DEF BeatLands, TypeOK
  <2>5. counted'[w] + local'[w] + UnderWay(w)' <= counted[w] + local[w] + UnderWay(w)
    BY <1>1, <2>1, <2>2, <2>3 DEF UnderWay
  <2> QED
    BY <1>1, <2>1, <2>3, <2>4, <2>5 DEF TypeOK
<1>4. CASE BeatFails(w)
  <2>1. UNCHANGED <<config, mainVars, workerVars, taken, rows, counted, silent, local, delay>>
    BY <1>4 DEF BeatFails, rowVars
  <2>2. faults' \in 0..MaxFaults /\ faults' \in {faults, faults + 1}
    BY <1>1, <1>4 DEF BeatFails, Interrupted, Fault
  <2>3. /\ flight' \in [Workers -> -1..MaxTaken] /\ flight'[w] = -1
        /\ \A v \in Workers \ {w} : UNCHANGED <<flight[v]>>
    BY <1>1, <1>4 DEF BeatFails, TypeOK
  <2>4. counted'[w] + local'[w] + UnderWay(w)' <= counted[w] + local[w] + UnderWay(w)
    BY <1>1, <2>1, <2>3 DEF UnderWay
  <2> QED
    BY <1>1, <2>1, <2>2, <2>3, <2>4 DEF TypeOK
<1>5. CASE Late(w) \/ Silence(w)
  <2>1. UNCHANGED <<config, mainVars, workerVars, taken, rows, counted, local, flight, faults>>
    BY <1>5 DEF Late, Silence, Grow
  <2>2. silent' \in [Workers -> Nat] /\ \A v \in Workers \ {w} : UNCHANGED <<silent[v]>>
    BY <1>1, <1>5 DEF Late, Silence, Grow, TypeOK
  <2>3. delay' \in [Workers -> 0..MaxDelay] /\ \A v \in Workers \ {w} : UNCHANGED <<delay[v]>>
    BY <1>1, <1>5 DEF Late, Silence, TypeOK
  <2>4. counted'[w] + local'[w] + UnderWay(w)' <= counted[w] + local[w] + UnderWay(w)
    BY <1>1, <2>1 DEF UnderWay
  <2> QED
    BY <1>1, <2>1, <2>2, <2>3, <2>4 DEF TypeOK
<1> QED
  BY <1>2, <1>3, <1>4, <1>5 DEF RowSteps

\* The delays of so many calls.
LEMMA Product ==
  ASSUME NEW a \in Nat, NEW b \in Nat
  PROVE  a * b \in Nat /\ (a + 1) * b = a * b + b /\ (a + 2) * b = a * b + b + b
OBVIOUS

\* A longer time is longer in any unit.
LEMMA Longer ==
  ASSUME NEW a \in Nat, NEW b \in Nat, NEW c \in Nat
  PROVE  a * c \in Nat /\ (a + b) * c \in Nat /\ a * c <= (a + b) * c
<1>1. a * c \in Nat /\ b * c \in Nat /\ (a + b) * c = a * c + b * c
  OBVIOUS
<1> DEFINE x == a * c
           y == b * c
<1>2. x \in Nat /\ y \in Nat /\ (a + b) * c = x + y
  BY <1>1
<1> HIDE DEF x, y
<1>3. x <= x + y /\ x + y \in Nat
  BY <1>2
<1> QED
  BY <1>2, <1>3 DEF x

\* An age that is due stays so in a step that leaves the heartbeat alone.
LEMMA DueStays ==
  ASSUME TypeOK, NEW v \in Workers, faults' \in {faults, faults + 1},
         UNCHANGED <<silent[v], delay[v], flight[v]>>, silent[v] <= Due(v)
  PROVE  silent'[v] <= Due(v)'
<1> DEFINE p == faults * MaxDelay
           r == faults' * MaxDelay
           q == delay[v] + (IF flight[v] = -1 THEN 0 ELSE MaxDelay)
<1>1. /\ faults \in Nat /\ MaxDelay \in Nat /\ delay[v] \in Nat /\ silent[v] \in Nat
      /\ flight[v] \in Int
  BY DEF TypeOK
<1>2. p \in Nat /\ (faults + 1) * MaxDelay = p + MaxDelay
  BY <1>1, Product
<1>3. r = p \/ r = p + MaxDelay
  BY <1>2
<1>4. q \in Nat
  BY <1>1
<1>5. r \in Nat /\ p <= r
  <2> HIDE DEF p, r
  <2> QED
    BY <1>1, <1>2, <1>3
<1>6. Due(v) = p + q /\ Due(v)' = r + q
  BY <1>1, <1>2, <1>5 DEF Due
<1>7. silent[v] <= r + q
  <2>1. silent[v] <= p + q
    BY <1>6
  <2> HIDE DEF p, q, r
  <2> QED
    BY <1>1, <1>2, <1>4, <1>5, <2>1
<1> HIDE DEF p, q, r
<1> QED
  BY <1>6, <1>7

\* A heartbeat that is late, lands or fails keeps the age of its row due.
LEMMA RowStepsDue ==
  ASSUME TypeOK, NEW w \in Workers, RowSteps(w), Running, ~signalled, worker[w] \in Beating,
         w \in rows, silent[w] <= Due(w)
  PROVE  silent'[w] <= Due(w)'
<1> DEFINE p == faults * MaxDelay
<1>1. /\ faults \in Nat /\ MaxDelay \in Nat /\ delay[w] \in 0..MaxDelay /\ silent[w] \in Nat
      /\ flight[w] \in -1..MaxTaken /\ local[w] \in Nat
  BY DEF TypeOK
<1>2. p \in Nat /\ (faults + 1) * MaxDelay = p + MaxDelay
  BY <1>1, Product
<1>3. silent[w] <= p + delay[w] + (IF flight[w] = -1 THEN 0 ELSE MaxDelay)
  BY DEF Due
<1>4. Due(w)' = faults' * MaxDelay + delay'[w] + (IF flight'[w] = -1 THEN 0 ELSE MaxDelay)
  BY DEF Due
<1>5. CASE BeatStarts(w)
  <2>1. /\ faults' = faults /\ silent'[w] = silent[w] /\ delay'[w] = 0
        /\ flight[w] = -1 /\ flight'[w] = local[w]
    BY <1>5 DEF BeatStarts, TypeOK, rowVars
  <2>2. Due(w)' = p + 0 + MaxDelay
    BY <1>1, <1>4, <2>1
  <2> HIDE DEF p
  <2> QED
    BY <1>1, <1>2, <1>3, <2>1, <2>2
<1>6. CASE BeatLands(w)
  <2>1. faults' = faults /\ silent'[w] = 0 /\ delay'[w] = delay[w] /\ flight'[w] = -1
    BY <1>6 DEF BeatLands, HeartbeatWorker, TypeOK
  <2>2. Due(w)' = p + delay[w] + 0
    BY <1>4, <2>1
  <2> HIDE DEF p
  <2> QED
    BY <1>1, <1>2, <2>1, <2>2
<1>7. CASE BeatFails(w)
  <2>1. /\ faults' = faults + 1 /\ silent'[w] = silent[w] /\ delay'[w] = delay[w]
        /\ flight'[w] = -1
    BY <1>7 DEF BeatFails, Interrupted, Fault, TypeOK, rowVars
  <2>2. Due(w)' = p + MaxDelay + delay[w] + 0
    BY <1>2, <1>4, <2>1
  <2> HIDE DEF p
  <2> QED
    BY <1>1, <1>2, <1>3, <2>1, <2>2
<1>8. CASE Late(w)
  <2>1. /\ faults' = faults /\ silent'[w] = silent[w] + 1 /\ delay'[w] = delay[w] + 1
        /\ flight'[w] = flight[w]
    BY <1>8 DEF Late, Grow, TypeOK
  <2>2. Due(w)' = p + (delay[w] + 1) + (IF flight[w] = -1 THEN 0 ELSE MaxDelay)
    BY <1>4, <2>1
  <2> HIDE DEF p
  <2> QED
    BY <1>1, <1>2, <1>3, <2>1, <2>2
<1>9. ~Silence(w)
  BY DEF Silence
<1> QED
  BY <1>5, <1>6, <1>7, <1>8, <1>9 DEF RowSteps

\* The start of the goroutines and the reaper's return.
LEMMA StartStepsEffect ==
  ASSUME TypeOK, StartSteps
  PROVE  /\ UNCHANGED <<config, exit, signalled, grace, streams, owing, beatVars, rowVars, faults>>
         /\ main = "start" \/ Running
         /\ main' = main \/ (main = "start" /\ main' = "serve")
         /\ tracked \ {Reaper} \subseteq tracked' /\ tracked' \subseteq Workers \cup {Reaper}
         /\ \/ UNCHANGED worker
            \/ \E w \in Workers : /\ worker[w] = "off" /\ w \in tracked'
                                  /\ worker' = [worker EXCEPT ![w] = "register"]
         /\ main # "start" => tracked' \subseteq tracked
BY DEF StartSteps, StartWorker, Serve, ReaperReturns, TypeOK, mainVars, Running

\* What comes from outside touches no worker.
LEMMA OutsideStepsEffect ==
  ASSUME TypeOK, OutsideSteps
  PROVE  /\ UNCHANGED <<config, main, exit, workerVars, beatVars, rowVars, faults>>
         /\ signalled' \in BOOLEAN /\ grace' \in BOOLEAN /\ streams' \in 0..MaxStreams
         /\ signalled' \in {signalled, TRUE}
<1>1. UNCHANGED <<config, main, exit, workerVars, beatVars, rowVars, faults>>
  BY DEF OutsideSteps, Signal, GraceOver, RequestStarts, RequestEnds
<1>2. streams' \in 0..MaxStreams
  BY DEF OutsideSteps, Signal, GraceOver, RequestStarts, RequestEnds, TypeOK
<1>3. signalled' \in {signalled, TRUE} /\ grace' \in {grace, TRUE}
  BY Zenon DEF OutsideSteps, Signal, GraceOver, RequestStarts, RequestEnds
<1> QED
  BY <1>1, <1>2, <1>3 DEF TypeOK

\* A sweep only removes rows.
LEMMA PruneEffect ==
  ASSUME Prune
  PROVE  /\ rows' \subseteq rows /\ \A w \in rows \ rows' : MayBeStale(w)
         /\ UNCHANGED <<config, mainVars, workerVars, beatVars, counted, silent, faults>>
BY DEF Prune

\* The configuration is read once.
LEMMA ConfigStays ==
  ASSUME TypeOK, [Next]_nodeVars
  PROVE  config' = config /\ faults' \in {faults, faults + 1}
BY StepsOfNext, RunStepsEffect, StartStepsEffect, OutsideStepsEffect, PruneEffect, WorkStepsEffect,
   RowStepsEffect DEF nodeVars

\* The types are kept.
LEMMA TypeStep ==
  ASSUME TypeOK, CountedOnce, [Next]_nodeVars
  PROVE  TypeOK'
<1>1. CASE RunSteps
  BY <1>1, RunStepsEffect DEF TypeOK, workerVars, beatVars, rowVars
<1>2. CASE StartSteps
  BY <1>2, StartStepsEffect DEF TypeOK, beatVars, rowVars
<1>3. CASE OutsideSteps
  BY <1>3, OutsideStepsEffect DEF TypeOK, workerVars, beatVars, rowVars
<1>4. CASE Prune
  BY <1>4, PruneEffect DEF TypeOK, mainVars, workerVars, beatVars
<1>5. ASSUME NEW w \in Workers, WorkSteps(w)
      PROVE  TypeOK'
  <2>1. /\ local[w] \in 0..MaxTaken /\ taken[w] \in 0..MaxTaken /\ MaxTaken \in Nat
        /\ local[w] <= taken[w]
    BY DEF TypeOK, CountedOnce
  <2>2. local' \in [Workers -> 0..MaxTaken] /\ taken' \in [Workers -> 0..MaxTaken]
    <3>1. taken[w] < MaxTaken => local[w] + 1 \in 0..MaxTaken /\ taken[w] + 1 \in 0..MaxTaken
      BY <2>1
    <3> QED
      BY <1>5, <3>1, WorkStepsCount DEF TypeOK
  <2>3. rows' \subseteq Workers /\ silent' \in [Workers -> Nat]
    BY <1>5, WorkStepsCount DEF TypeOK
  <2>4. UNCHANGED <<config, main, exit, signalled, grace, streams, flight, delay, counted>>
    BY <1>5, WorkStepsEffect DEF mainVars
  <2>5. /\ worker' \in [Workers -> Beating \cup {"off", "register", "leave", "returned"}]
        /\ owing' \in [Workers -> {"none", "claimed", "held", "expiring"}]
        /\ tracked' \subseteq Workers \cup {Reaper} /\ faults' \in 0..MaxFaults
    BY <1>5, WorkStepsEffect DEF TypeOK
  <2> QED
    BY <2>2, <2>3, <2>4, <2>5 DEF TypeOK
<1>6. ASSUME NEW w \in Workers, RowSteps(w)
      PROVE  TypeOK'
  BY <1>6, RowStepsEffect DEF TypeOK, mainVars, workerVars
<1>7. CASE UNCHANGED nodeVars
  BY <1>7 DEF TypeOK, nodeVars, mainVars, workerVars, beatVars, rowVars
<1> QED
  BY <1>1, <1>2, <1>3, <1>4, <1>5, <1>6, <1>7, StepsOfNext

\* Whoever has not returned is waited for.
LEMMA RunsAreTrackedStep ==
  ASSUME TypeOK, RunsAreTracked, [Next]_nodeVars
  PROVE  RunsAreTracked'
<1>1. CASE RunSteps
  BY <1>1, RunStepsEffect DEF RunsAreTracked, Running, workerVars, TypeOK
<1>2. CASE StartSteps
  <2>1. Reaper \notin Workers
    BY DEF Reaper
  <2>2. (main' = "exited") <=> exit' # "none"
    BY <1>2, StartStepsEffect DEF RunsAreTracked, Running
  <2>3. exit' = "drained" => tracked' = {}
    BY <1>2, StartStepsEffect DEF RunsAreTracked, Running
  <2>4. ASSUME NEW v \in Workers
        PROVE  /\ worker'[v] \notin {"off", "returned"} => v \in tracked'
               /\ owing'[v] = "held" => worker'[v] \in {"busy", "finish"}
    BY <1>2, <2>1, StartStepsEffect DEF RunsAreTracked, TypeOK
  <2> QED
    BY <2>2, <2>3, <2>4 DEF RunsAreTracked, Running
<1>3. CASE OutsideSteps
  BY <1>3, OutsideStepsEffect DEF RunsAreTracked, Running, workerVars
<1>4. CASE Prune
  BY <1>4, PruneEffect DEF RunsAreTracked, Running, mainVars, workerVars
<1>5. ASSUME NEW w \in Workers, WorkSteps(w)
      PROVE  RunsAreTracked'
  <2>1. UNCHANGED <<main, exit>> /\ exit # "drained"
    BY <1>5, WorkStepsEffect DEF Running, mainVars
  <2>2. owing'[w] = "held" => worker'[w] \in {"busy", "finish"}
    BY <1>5, WorkStepsHold DEF RunsAreTracked
  <2>3. worker'[w] \notin {"off", "returned"} => w \in tracked'
    BY <1>5, WorkStepsEffect DEF RunsAreTracked, TypeOK, Beating
  <2>4. ASSUME NEW v \in Workers \ {w}
        PROVE  UNCHANGED <<worker[v], owing[v]>> /\ (v \in tracked => v \in tracked')
    BY <1>5, WorkStepsEffect DEF TypeOK
  <2> QED
    BY <2>1, <2>2, <2>3, <2>4 DEF RunsAreTracked, Running
<1>6. ASSUME NEW w \in Workers, RowSteps(w)
      PROVE  RunsAreTracked'
  BY <1>6, RowStepsEffect DEF RunsAreTracked, Running, mainVars, workerVars
<1>7. CASE UNCHANGED nodeVars
  BY <1>7 DEF RunsAreTracked, Running, nodeVars, mainVars, workerVars
<1> QED
  BY <1>1, <1>2, <1>3, <1>4, <1>5, <1>6, <1>7, StepsOfNext

\* A row outlives its worker only if the worker never took a job or a call failed.
LEMMA RowsAreRemovedStep ==
  ASSUME TypeOK, RowsAreRemoved, [Next]_nodeVars
  PROVE  RowsAreRemoved'
<1>0. faults' = 0 => faults = 0
  BY ConfigStays DEF TypeOK
<1>1. CASE RunSteps
  BY <1>0, <1>1, RunStepsEffect DEF RowsAreRemoved, workerVars, beatVars, rowVars
<1>2. CASE StartSteps
  BY <1>2, StartStepsEffect DEF RowsAreRemoved, beatVars, rowVars, TypeOK
<1>3. CASE OutsideSteps
  BY <1>3, OutsideStepsEffect DEF RowsAreRemoved, workerVars, beatVars, rowVars
<1>4. CASE Prune
  BY <1>4, PruneEffect DEF RowsAreRemoved, workerVars, beatVars
<1>5. ASSUME NEW w \in Workers, WorkSteps(w)
      PROVE  RowsAreRemoved'
  <2>1. ASSUME NEW v \in Workers \ {w}
        PROVE  UNCHANGED <<worker[v], taken[v]>> /\ (v \in rows' => v \in rows)
    BY <1>5, WorkStepsEffect, WorkStepsCount DEF TypeOK
  <2>2. worker'[w] \notin {"off", "register"} /\ (faults' = 0 => faults = 0)
    BY <1>5, WorkStepsEffect DEF Beating, TypeOK
  <2>3. ASSUME faults' = 0, worker'[w] = "returned", w \in rows'
        PROVE  taken'[w] = 0
    <3>1. worker[w] = "register"
      BY <1>5, <2>3, WorkStepsCount
    <3>2. taken[w] = 0
      BY <3>1 DEF RowsAreRemoved
    <3> QED
      BY <1>5, <3>1, <3>2, WorkStepsCount
  <2> QED
    BY <2>1, <2>2, <2>3 DEF RowsAreRemoved
<1>6. ASSUME NEW w \in Workers, RowSteps(w)
      PROVE  RowsAreRemoved'
  BY <1>0, <1>6, RowStepsEffect DEF RowsAreRemoved, workerVars
<1>7. CASE UNCHANGED nodeVars
  BY <1>7 DEF RowsAreRemoved, nodeVars, workerVars, beatVars, rowVars
<1> QED
  BY <1>1, <1>2, <1>3, <1>4, <1>5, <1>6, <1>7, StepsOfNext

\* No delivery is counted twice.
LEMMA CountedOnceStep ==
  ASSUME TypeOK, CountedOnce, [Next]_nodeVars
  PROVE  CountedOnce'
<1>1. ASSUME UNCHANGED <<counted, local, flight, taken>>
      PROVE  CountedOnce'
  BY <1>1 DEF CountedOnce
<1>2. CASE RunSteps \/ StartSteps \/ OutsideSteps \/ Prune \/ UNCHANGED nodeVars
  BY <1>1, <1>2, RunStepsEffect, StartStepsEffect, OutsideStepsEffect, PruneEffect
     DEF nodeVars, beatVars, rowVars
<1>3. ASSUME NEW w \in Workers, WorkSteps(w)
      PROVE  CountedOnce'
  <2>1. UNCHANGED <<counted, flight>>
    BY <1>3, WorkStepsEffect
  <2>2. CASE UNCHANGED <<local, taken>>
    BY <1>1, <2>1, <2>2
  <2>3. CASE taken' = [taken EXCEPT ![w] = @ + 1] /\ local' = [local EXCEPT ![w] = @ + 1]
    BY <2>1, <2>3 DEF CountedOnce, TypeOK
  <2> QED
    BY <1>3, <2>2, <2>3, WorkStepsCount
<1>4. ASSUME NEW w \in Workers, RowSteps(w)
      PROVE  CountedOnce'
  <2>1. UNCHANGED taken /\ \A v \in Workers \ {w} : UNCHANGED <<counted[v], local[v], flight[v]>>
    BY <1>4, RowStepsEffect
  <2>2. counted[w] + local[w] + UnderWay(w) <= taken[w]
    BY DEF CountedOnce, UnderWay
  <2>3. /\ counted'[w] + local'[w] + UnderWay(w)' <= counted[w] + local[w] + UnderWay(w)
        /\ counted'[w] \in Nat /\ local'[w] \in Nat /\ UnderWay(w)' \in Nat
        /\ counted[w] \in Nat /\ local[w] \in Nat /\ UnderWay(w) \in Nat /\ taken[w] \in Nat
    <3>1. /\ counted'[w] \in Nat /\ local'[w] \in 0..MaxTaken /\ flight'[w] \in -1..MaxTaken
          /\ counted'[w] + local'[w] + UnderWay(w)' <= counted[w] + local[w] + UnderWay(w)
      BY <1>4, RowStepsEffect
    <3> QED
      BY <3>1 DEF TypeOK, UnderWay
  <2>4. counted'[w] + local'[w] + UnderWay(w)' <= taken'[w]
    BY <2>1, <2>2, <2>3
  <2> QED
    BY <2>1, <2>4 DEF CountedOnce, UnderWay
<1> QED
  BY <1>2, <1>3, <1>4, StepsOfNext

\* What is tolerated after a step was tolerated before it.
LEMMA ToleratedBefore ==
  ASSUME TypeOK, [Next]_nodeVars, Tolerated'
  PROVE  Tolerated
<1> DEFINE h == Heartbeat(config)
           n == (faults + 2) * MaxDelay + 1
<1>1. config' = config /\ faults' \in {faults, faults + 1}
  BY ConfigStays
<1>2. h \in Nat /\ PruneAge(config) \in Int /\ faults \in Nat /\ MaxDelay \in Nat
  BY DurationTypes, DurationsAreSound DEF TypeOK
<1>3. ((faults' + 2) * MaxDelay + 1) * h <= PruneAge(config)
  BY <1>1 DEF Tolerated, Heartbeat, PruneAge, AsyncHeartbeat, AsyncLease, Lease, WorkerTTL,
              AsyncWorkerTTL
<1>4. n \in Nat /\ ((faults + 1) + 2) * MaxDelay + 1 = n + MaxDelay
  <2>1. (faults + 2) * MaxDelay \in Nat
        /\ ((faults + 2) + 1) * MaxDelay = (faults + 2) * MaxDelay + MaxDelay
    BY <1>2, Product
  <2> DEFINE x == (faults + 2) * MaxDelay
  <2>2. ((faults + 1) + 2) * MaxDelay = x + MaxDelay
    BY <1>2, <2>1
  <2> HIDE DEF x
  <2> QED
    BY <1>2, <2>1, <2>2 DEF x
<1>5. n * h \in Nat /\ n * h <= (n + MaxDelay) * h /\ (n + MaxDelay) * h \in Nat
  <2> HIDE DEF n, h
  <2> QED
    BY <1>2, <1>4, Longer
<1>6. CASE faults' = faults
  BY <1>3, <1>6 DEF Tolerated
<1>7. CASE faults' = faults + 1
  <2>1. (n + MaxDelay) * h <= PruneAge(config)
    BY <1>3, <1>4, <1>7
  <2>2. n * h <= PruneAge(config)
    <3> HIDE DEF n, h
    <3> QED
      BY <1>2, <1>5, <2>1
  <2> QED
    BY <2>2 DEF Tolerated
<1> QED
  BY <1>1, <1>6, <1>7

\* As long as the heartbeat beats, the age of a row is due.
LEMMA RowsAreFreshStep ==
  ASSUME TypeOK, TypeOK', RunsAreTracked, RowsAreFresh, [Next]_nodeVars
  PROVE  RowsAreFresh'
<1> SUFFICES ASSUME exit' = "none", ~signalled', NEW v \in rows', worker'[v] \in Beating
             PROVE  silent'[v] <= Due(v)'
  BY DEF RowsAreFresh, Running
<1>1. ASSUME exit = "none", ~signalled, v \in rows, worker[v] \in Beating
      PROVE  silent[v] <= Due(v)
  BY <1>1 DEF RowsAreFresh, Running
<1>2. v \in Workers /\ faults' \in {faults, faults + 1}
  BY ConfigStays DEF TypeOK
<1>3. CASE RunSteps \/ OutsideSteps \/ Prune \/ UNCHANGED nodeVars
  <2>1. exit = "none" /\ v \in rows /\ UNCHANGED <<worker, silent, delay, flight>>
    BY <1>3, RunStepsEffect, OutsideStepsEffect, PruneEffect
       DEF RunsAreTracked, Running, nodeVars, mainVars, workerVars, beatVars, rowVars
  <2>2. ~signalled
    BY <1>3, RunStepsEffect, OutsideStepsEffect, PruneEffect DEF nodeVars, mainVars
  <2> QED
    BY <1>1, <1>2, <2>1, <2>2, DueStays
<1>4. CASE StartSteps
  <2>1. exit = "none" /\ ~signalled /\ v \in rows /\ UNCHANGED <<silent, delay, flight>>
    BY <1>4, StartStepsEffect DEF rowVars, beatVars
  <2>2. worker[v] \in Beating
    BY <1>2, <1>4, StartStepsEffect DEF Beating, TypeOK
  <2> QED
    BY <1>1, <1>2, <2>1, <2>2, DueStays
<1>5. ASSUME NEW w \in Workers, WorkSteps(w)
      PROVE  silent'[v] <= Due(v)'
  <2>1. exit = "none" /\ ~signalled /\ UNCHANGED <<delay, flight>>
    BY <1>5, WorkStepsEffect DEF Running, mainVars
  <2>2. CASE v # w
    <3>1. UNCHANGED <<worker[v], silent[v]>> /\ v \in rows
      BY <1>2, <1>5, <2>2, WorkStepsEffect, WorkStepsCount DEF TypeOK
    <3> QED
      BY <1>1, <1>2, <2>1, <3>1, DueStays
  <2>3. CASE v = w /\ worker[w] = "register"
    <3>1. silent'[v] = 0
      BY <1>5, <2>3, WorkStepsCount DEF Beating
    <3>2. faults' \in Nat /\ delay'[v] \in Nat /\ MaxDelay \in Nat /\ flight'[v] \in Int
      BY <1>2 DEF TypeOK
    <3>3. faults' * MaxDelay \in Nat
      BY <3>2, Product
    <3> QED
      BY <3>1, <3>2, <3>3 DEF Due
  <2>4. CASE v = w /\ worker[w] # "register"
    <3>1. worker[w] \in Beating /\ UNCHANGED <<silent, rows>>
      BY <1>5, <2>4, WorkStepsEffect, WorkStepsCount DEF Beating
    <3> QED
      BY <1>1, <1>2, <2>1, <2>4, <3>1, DueStays
  <2> QED
    BY <2>2, <2>3, <2>4
<1>6. ASSUME NEW w \in Workers, RowSteps(w)
      PROVE  silent'[v] <= Due(v)'
  <2>1. exit = "none" /\ ~signalled /\ worker[v] \in Beating /\ v \in rows
    BY <1>6, RowStepsEffect DEF mainVars, workerVars
  <2>2. CASE v = w
    BY <1>1, <1>6, <2>1, <2>2, RowStepsDue DEF Running
  <2>3. CASE v # w
    <3>1. UNCHANGED <<silent[v], delay[v], flight[v]>>
      BY <1>2, <1>6, <2>3, RowStepsEffect
    <3> QED
      BY <1>1, <1>2, <2>1, <3>1, DueStays
  <2> QED
    BY <2>2, <2>3
<1> QED
  BY <1>3, <1>4, <1>5, <1>6, StepsOfNext

\* A row that is due within what is tolerated may not be pruned.
LEMMA DueIsKept ==
  ASSUME TypeOK, Tolerated, NEW v \in Workers, silent[v] <= Due(v)
  PROVE  ~MayBeStale(v)
<1> DEFINE h == Heartbeat(config)
           n == (faults + 2) * MaxDelay + 1
           m == silent[v] + 1
           p == faults * MaxDelay
<1>1. /\ h \in Nat /\ PruneAge(config) \in Int /\ faults \in Nat /\ MaxDelay \in Nat
      /\ delay[v] \in 0..MaxDelay /\ silent[v] \in Nat
  BY DurationTypes, DurationsAreSound DEF TypeOK
<1>2. p \in Nat /\ n = p + MaxDelay + MaxDelay + 1
  BY <1>1, Product
<1>3. silent[v] <= p + delay[v] + (IF flight[v] = -1 THEN 0 ELSE MaxDelay)
  BY DEF Due
<1>4. m \in Nat /\ n \in Nat /\ n - m \in Nat
  <2> HIDE DEF p, n
  <2> QED
    BY <1>1, <1>2, <1>3
<1>5. m * h \in Nat /\ m * h <= n * h /\ n * h \in Nat
  <2> DEFINE k == n - m
  <2>1. k \in Nat /\ n = m + k
    BY <1>4
  <2> HIDE DEF m, n, h, k
  <2> QED
    BY <1>1, <1>4, <2>1, Longer
<1>6. n * h <= PruneAge(config)
  BY DEF Tolerated
<1>7. m * h <= PruneAge(config)
  <2> HIDE DEF m, n, h
  <2> QED
    BY <1>1, <1>5, <1>6
<1>8. ~(m * h > PruneAge(config))
  <2> HIDE DEF m, n, h
  <2> QED
    BY <1>1, <1>5, <1>7
<1> QED
  BY <1>8 DEF MayBeStale, Interval

\* No sweep takes the row of a worker whose heartbeats are as slow and fail as
\* often as is tolerated.
LEMMA RosterIsCompleteStep ==
  ASSUME TypeOK, RunsAreTracked, RowsAreFresh, RosterIsComplete, [Next]_nodeVars
  PROVE  RosterIsComplete'
<1> SUFFICES ASSUME Tolerated', exit' = "none", ~signalled',
                    NEW v \in Workers, worker'[v] \in Beating
             PROVE  v \in rows'
  BY DEF RosterIsComplete, Running
<1>1. ASSUME exit = "none", ~signalled, worker[v] \in Beating
      PROVE  v \in rows
  BY <1>1, ToleratedBefore DEF RosterIsComplete, Running
<1>2. CASE RunSteps \/ OutsideSteps \/ Prune \/ UNCHANGED nodeVars
  <2>1. exit = "none" /\ UNCHANGED worker
    BY <1>2, RunStepsEffect, OutsideStepsEffect, PruneEffect
       DEF RunsAreTracked, Running, nodeVars, mainVars, workerVars
  <2>2. ~signalled
    BY <1>2, RunStepsEffect, OutsideStepsEffect, PruneEffect DEF nodeVars, mainVars
  <2>3. v \in rows
    BY <1>1, <2>1, <2>2
  <2>4. ~MayBeStale(v)
    <3>1. silent[v] <= Due(v)
      BY <2>1, <2>2, <2>3 DEF RowsAreFresh, Running
    <3> QED
      BY <3>1, ToleratedBefore, DueIsKept
  <2> QED
    BY <1>2, <2>3, <2>4, RunStepsEffect, OutsideStepsEffect, PruneEffect DEF nodeVars, rowVars
<1>3. CASE StartSteps
  <2>1. exit = "none" /\ ~signalled /\ UNCHANGED rows
    BY <1>3, StartStepsEffect DEF rowVars
  <2>2. worker[v] \in Beating
    BY <1>3, StartStepsEffect DEF Beating, TypeOK
  <2> QED
    BY <1>1, <2>1, <2>2
<1>4. ASSUME NEW w \in Workers, WorkSteps(w)
      PROVE  v \in rows'
  <2>1. exit = "none" /\ ~signalled
    BY <1>4, WorkStepsEffect DEF Running, mainVars
  <2>2. CASE v # w
    <3>1. UNCHANGED worker[v] /\ (v \in rows => v \in rows')
      BY <1>4, <2>2, WorkStepsEffect, WorkStepsCount DEF TypeOK
    <3> QED
      BY <1>1, <2>1, <3>1
  <2>3. CASE v = w /\ worker[w] = "register"
    BY <1>4, <2>3, WorkStepsCount DEF Beating
  <2>4. CASE v = w /\ worker[w] # "register"
    <3>1. worker[w] \in Beating
      BY <1>4, <2>4, WorkStepsEffect, WorkStepsCount DEF Beating
    <3> QED
      BY <1>1, <1>4, <2>1, <2>4, <3>1, WorkStepsCount DEF Beating
  <2> QED
    BY <2>2, <2>3, <2>4
<1>5. ASSUME NEW w \in Workers, RowSteps(w)
      PROVE  v \in rows'
  <2>1. exit = "none" /\ ~signalled /\ worker[v] \in Beating /\ UNCHANGED rows
    BY <1>5, RowStepsEffect DEF mainVars, workerVars
  <2> QED
    BY <1>1, <2>1
<1> QED
  BY <1>2, <1>3, <1>4, <1>5, StepsOfNext

-----------------------------------------------------------------------------
(* The theorems.                                                           *)

\* A node starts with no goroutine and no row.
LEMMA NodeInit == Init => NodeInv
<1> SUFFICES ASSUME Init PROVE NodeInv
  OBVIOUS
<1>1. TypeOK
  <2>1. /\ 0 \in 0..MaxTaken /\ -1 \in -1..MaxTaken /\ 0 \in 0..MaxFaults
        /\ 0 \in 0..MaxStreams /\ 0 \in 0..MaxDelay /\ 0 \in Nat
    OBVIOUS
  <2>2. /\ local \in [Workers -> 0..MaxTaken] /\ taken \in [Workers -> 0..MaxTaken]
        /\ flight \in [Workers -> -1..MaxTaken] /\ delay \in [Workers -> 0..MaxDelay]
        /\ counted \in [Workers -> Nat] /\ silent \in [Workers -> Nat]
    BY <2>1 DEF Init
  <2>3. /\ worker \in [Workers -> Beating \cup {"off", "register", "leave", "returned"}]
        /\ owing \in [Workers -> {"none", "claimed", "held", "expiring"}]
    BY DEF Init
  <2> QED
    BY <2>1, <2>2, <2>3 DEF Init, TypeOK
<1>2. RunsAreTracked /\ RowsAreRemoved /\ RowsAreFresh /\ RosterIsComplete
  BY DEF Init, RunsAreTracked, RowsAreRemoved, RowsAreFresh, RosterIsComplete, Running, Beating
<1>3. CountedOnce
  BY DEF Init, CountedOnce
<1> QED
  BY <1>1, <1>2, <1>3 DEF NodeInv

\* Every step of run, RunWorker, its heartbeat and the sweeps keeps it.
LEMMA NodeStep == NodeInv /\ [Next]_nodeVars => NodeInv'
BY TypeStep, RunsAreTrackedStep, RowsAreRemovedStep, CountedOnceStep, RowsAreFreshStep,
   RosterIsCompleteStep DEF NodeInv

\* run, RunWorker with its heartbeat, and the registry keep the goroutines, the
\* WaitGroup, the counters and the rows together, for every configuration and
\* every number of workers and faults.
THEOREM NodeInvariant == Spec => []NodeInv
BY NodeInit, NodeStep, PTL DEF Spec

\* Nothing of a node is ever out of its type.
THEOREM NodeTypes == Spec => []TypeOK
<1>1. NodeInv => TypeOK
  BY DEF NodeInv
<1> QED
  BY <1>1, NodeInvariant, PTL

\* Whatever integers the configuration holds, and however they overflow in
\* config.Async and jobs.Config, the tickers of RunWorker and RunReaper get a
\* positive interval and a lease is renewed before it runs out.
THEOREM SettingsSound == Spec => []SettingsAreSound
<1>1. TypeOK => SettingsAreSound
  BY DurationsAreSound DEF TypeOK, SettingsAreSound
<1> QED
  BY <1>1, NodeTypes, PTL

\* startWorkers' WaitGroup makes a drain that ends in time release every run, and
\* UnregisterWorker leaves no row of a worker that took a job.
THEOREM DrainIsComplete == Spec => []DrainReleases
<1>1. NodeInv => DrainReleases
  <2> SUFFICES ASSUME NodeInv, exit = "drained"
               PROVE  /\ \A w \in Workers : owing[w] # "held"
                      /\ faults = 0 => \A w \in rows : taken[w] = 0
    BY DEF DrainReleases
  <2>1. \A w \in Workers : worker[w] \in {"off", "returned"}
    BY DEF NodeInv, RunsAreTracked
  <2> QED
    BY <2>1 DEF NodeInv, TypeOK, RunsAreTracked, RowsAreRemoved
<1> QED
  BY <1>1, NodeInvariant, PTL

\* jobs_claimed of HeartbeatWorker and the atomic counter of RunWorker never run
\* ahead of what the worker has taken.
THEOREM CountersAreHonest == Spec => []CounterHonest
<1>1. NodeInv => CounterHonest
  <2> SUFFICES ASSUME NodeInv, NEW w \in Workers PROVE counted[w] + local[w] <= taken[w]
    BY DEF CounterHonest
  <2>1. /\ counted[w] \in Nat /\ local[w] \in Nat /\ taken[w] \in Nat /\ flight[w] \in -1..MaxTaken
        /\ counted[w] + local[w] + UnderWay(w) <= taken[w]
    BY DEF NodeInv, TypeOK, CountedOnce, UnderWay
  <2>2. UnderWay(w) \in Nat
    BY <2>1 DEF UnderWay
  <2> QED
    BY <2>1, <2>2
<1> QED
  BY <1>1, NodeInvariant, PTL

\* PruneWorkers never takes the row of a worker whose HeartbeatWorker is as slow and
\* fails as often as the worker TTL tolerates.
THEOREM RosterComplete == Spec => []RosterIsComplete
<1>1. NodeInv => RosterIsComplete
  BY DEF NodeInv
<1> QED
  BY <1>1, NodeInvariant, PTL

\* HeartbeatWorker's UPDATE does not bring back the row of a worker that has
\* returned: only RegisterWorker inserts one.
THEOREM RemovedRowsStayRemoved == Spec => RowStaysRemoved
<1>1. TypeOK /\ [Next]_nodeVars =>
        [\A w \in Workers : worker[w] = "returned" /\ w \notin rows => w \notin rows']_nodeVars
  <2> SUFFICES ASSUME TypeOK, [Next]_nodeVars,
                      NEW v \in Workers, worker[v] = "returned", v \notin rows
               PROVE  v \notin rows'
    OBVIOUS
  <2>1. CASE RunSteps \/ StartSteps \/ OutsideSteps \/ Prune \/ UNCHANGED nodeVars
    BY <2>1, RunStepsEffect, StartStepsEffect, OutsideStepsEffect, PruneEffect DEF nodeVars, rowVars
  <2>2. ASSUME NEW w \in Workers, WorkSteps(w)
        PROVE  v \notin rows'
    BY <2>2, WorkStepsCount
  <2>3. ASSUME NEW w \in Workers, RowSteps(w)
        PROVE  v \notin rows'
    BY <2>3, RowStepsEffect
  <2> QED
    BY <2>1, <2>2, <2>3, StepsOfNext
<1> QED
  BY <1>1, NodeTypes, PTL DEF Spec, RowStaysRemoved

=============================================================================
