SPECIFICATION Spec
CONSTANTS
  Lease = 36
  Interval = 5
  FinishTimeout = 10
  Latency = 1
  DrainTime = 5
  MaxOutage = 10
  MaxAge = 76
INVARIANTS LeasesCoverWorker QueueSweepComesFirst TimingInv
CHECK_DEADLOCK FALSE
