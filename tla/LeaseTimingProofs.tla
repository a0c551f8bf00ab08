-------------------------- MODULE LeaseTimingProofs --------------------------
(***************************************************************************)
(* For every lease, heartbeat, timeout and latency that satisfy            *)
(* TimingAssumption, a worker that is alive keeps both of its leases, in a  *)
(* shutdown too if there is room for the drain.                            *)
(***************************************************************************)
EXTENDS LeaseTiming, TLAPS

USE TimingAssumption

\* An age within a bound is within it after any time more.
LEMMA Allowance ==
  ASSUME NEW a \in Nat, NEW b \in Nat, NEW c \in Nat, NEW d \in Nat, a <= b
  PROVE  a <= b + c /\ a <= c + b /\ a <= b + c + d
OBVIOUS

\* The delivery starts inside the bounds.
LEMMA TimingInvInit == Init => TimingInv
<1> SUFFICES ASSUME Init PROVE TimingInv
  OBVIOUS
<1>1. TypeOK
  <2>1. stopping \in BOOLEAN
    BY Zenon DEF Init
  <2> QED
    BY <2>1 DEF Init, TypeOK
<1>2. BeforeRun /\ StoreLeads
  BY DEF Init, BeforeRun, StoreLeads
<1>3. BesideRun /\ BesideDrain /\ BehindRun
  BY DEF Init, BesideRun, BesideDrain, BehindRun
<1> QED
  BY <1>1, <1>2, <1>3 DEF TimingInv

\* Every step of process, of holdLease and of the clock stays inside them.
LEMMA TimingInvStep == TimingInv /\ [Next]_timingVars => TimingInv'
<1> SUFFICES ASSUME TimingInv, [Next]_timingVars PROVE TimingInv'
  OBVIOUS
<1> USE DEF TimingInv, TypeOK, BeforeRun, BesideRun, BesideDrain, BehindRun, StoreLeads,
            LongestGap, Drained, leaseVars
<1>1. CASE Claim
  BY <1>1 DEF Claim
<1>2. CASE TakeJob
  BY <1>2 DEF TakeJob
<1>3. CASE StartRun
  BY <1>3 DEF StartRun
<1>4. CASE RunOver
  BY <1>4 DEF RunOver
<1>5. CASE LastBeat
  <2>1. /\ storeAge' \in Nat /\ storeAge' <= LongestGap
        /\ queueAge' \in Nat /\ queueAge' <= LongestGap
    BY <1>5 DEF LastBeat, StoreRenewed, QueueRenewed
  <2>2. StoreLeads'
    BY <1>5 DEF LastBeat, StoreRenewed, QueueRenewed
  <2>3. /\ worker' \in {"run", "finish"} /\ beat' = "off"
        /\ tick' \in Nat /\ outage' \in 0..MaxOutage /\ stepAge' \in Nat
        /\ worker' = "run" => stepAge' <= DrainTime
        /\ worker' = "finish" => stepAge' = 0
    BY <1>5 DEF LastBeat
  <2>4. stopping' \in BOOLEAN /\ (worker' = "run" => stopping')
    BY <1>5, Zenon DEF LastBeat
  <2> HIDE DEF TimingInv, TypeOK, BeforeRun, BesideRun, BesideDrain, BehindRun, StoreLeads
  <2>5. TypeOK'
    BY <2>1, <2>3, <2>4 DEF TypeOK
  <2>6. BeforeRun' /\ BesideRun'
    BY <2>3 DEF BeforeRun, BesideRun
  <2>7. LongestGap \in Nat /\ LongestGap' = LongestGap /\ Drained' \in Nat
    OBVIOUS
  <2> HIDE DEF LongestGap, Drained
  <2>8. /\ storeAge' <= LongestGap + stepAge' /\ queueAge' <= LongestGap + stepAge'
        /\ storeAge' <= LongestGap + Drained' + stepAge'
        /\ queueAge' <= LongestGap + Drained' + stepAge'
    BY <2>1, <2>3, <2>7, Allowance
  <2>9. BesideDrain'
    BY <2>3, <2>7, <2>8, Zenon DEF BesideDrain
  <2>10. worker' = "finish" => stepAge' <= FinishTimeout
    BY <2>3
  <2>11. BehindRun'
    BY <2>3, <2>7, <2>8, <2>10, Zenon DEF BehindRun
  <2> QED
    BY <2>2, <2>5, <2>6, <2>9, <2>11 DEF TimingInv
<1>6. CASE FinishJob
  BY <1>6 DEF FinishJob
<1>7. CASE Ack
  BY <1>7 DEF Ack
<1>8. CASE GiveUp
  BY <1>8 DEF GiveUp
<1>9. CASE Crash
  BY <1>9 DEF Crash
<1>10. CASE Fire
  BY <1>10 DEF Fire
<1>11. CASE ExtendStore
  BY <1>11 DEF ExtendStore, Renewing, StoreRenewed
<1>12. CASE ExtendStoreFails
  BY <1>12 DEF ExtendStoreFails, Renewing, StoreRenewed, Miss
<1>13. CASE ExtendQueue
  <2>1. /\ worker = "run" /\ ~stopping /\ beat' = "wait" /\ outage' = 0
        /\ queueAge' \in Nat /\ queueAge' <= storeAge
        /\ storeAge <= tick /\ tick <= 2 * Latency
        /\ UNCHANGED <<worker, stopping, stepAge, tick, storeAge>>
    BY <1>13 DEF ExtendQueue, Renewing, QueueRenewed
  <2>2. /\ storeAge \in Nat /\ tick \in Nat /\ stepAge \in Nat
        /\ stopping' \in BOOLEAN
    BY <2>1, Zenon
  <2> HIDE DEF TimingInv, TypeOK, BeforeRun, BesideRun, BesideDrain, BehindRun, StoreLeads
  <2>3. TypeOK'
    BY <2>1, <2>2 DEF TypeOK
  <2>4. BeforeRun' /\ BehindRun' /\ BesideDrain'
    BY <2>1 DEF BeforeRun, BehindRun, BesideDrain
  <2>5. BesideRun'
    BY <2>1, <2>2 DEF BesideRun
  <2>6. StoreLeads'
    <3>1. storeAge' = storeAge /\ storeAge <= 2 * Latency
      BY <2>1, <2>2
    <3>2. queueAge' \in Nat /\ 2 * Latency \in Nat
      BY <2>1
    <3>3. storeAge <= queueAge' + 2 * Latency
      BY <2>2, <3>1, <3>2, Allowance
    <3> QED
      BY <3>1, <3>3, Zenon DEF StoreLeads
  <2> QED
    BY <2>3, <2>4, <2>5, <2>6 DEF TimingInv
<1>14. CASE ExtendQueueFails
  BY <1>14 DEF ExtendQueueFails, Renewing, QueueRenewed, Miss
<1>15. CASE Shutdown
  BY <1>15 DEF Shutdown
<1>16. CASE Tick
  <2>1. TypeOK'
    BY <1>16 DEF Tick, Ageless
  <2>2. BeforeRun'
    BY <1>16 DEF Tick, Ageless
  <2>3. BesideRun'
    BY <1>16 DEF Tick
  <2>4. BesideDrain' /\ BehindRun'
    BY <1>16 DEF Tick, Ageless
  <2>5. StoreLeads'
    BY <1>16 DEF Tick
  <2> QED
    BY <2>1, <2>2, <2>3, <2>4, <2>5
<1>17. CASE UNCHANGED timingVars
  BY <1>17 DEF timingVars
<1> QED
  BY <1>1, <1>2, <1>3, <1>4, <1>5, <1>6, <1>7, <1>8, <1>9, <1>10, <1>11, <1>12, <1>13,
     <1>14, <1>15, <1>16, <1>17 DEF Next

\* The ages of both leases stay within the bounds of TimingInv.
THEOREM TimingInvariant == Spec => []TimingInv
BY TimingInvInit, TimingInvStep, PTL DEF Spec

\* A worker that is alive keeps both leases from its claim to its last write,
\* without a heartbeat in a shutdown if DrainFits.
THEOREM LeasesAreKept == Spec => []LeasesCoverWorker
<1>1. TimingInv => LeasesCoverWorker
  <2> SUFFICES ASSUME TimingInv, stopping => DrainFits
               PROVE  /\ worker \in {"event", "run", "await", "finish"} => storeAge < Lease
                      /\ worker \notin {"claim", "done"} => queueAge < Lease
    BY DEF LeasesCoverWorker
  <2> USE DEF TimingInv, TypeOK, DrainFits
  <2>1. CASE worker \in {"claimed", "event"}
    BY <2>1 DEF BeforeRun
  <2>2. CASE beat # "off"
    BY <2>2 DEF BesideRun
  <2>3. CASE worker = "run" /\ beat = "off"
    BY <2>3 DEF BesideDrain, LongestGap
  <2>4. CASE worker \in {"finish", "ack"}
    BY <2>4 DEF BehindRun, LongestGap, Drained
  <2> QED
    BY <2>1, <2>2, <2>3, <2>4
<1> QED
  BY <1>1, TimingInvariant, PTL

\* The sweep of the queue always comes to an abandoned job before the store's.
THEOREM SweepOrder == Spec => []QueueSweepComesFirst
<1>1. TimingInv => QueueSweepComesFirst
  BY DEF TimingInv, TypeOK, StoreLeads, QueueSweepComesFirst
<1> QED
  BY <1>1, TimingInvariant, PTL

=============================================================================
