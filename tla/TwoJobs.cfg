SPECIFICATION FairSpec
CONSTANTS
  Jobs = {j1, j2}
  Workers = {w1, w2}
  None = None
  Reapers = {r1}
  NumSteps = 1
  DependsOn <- Chain
  References <- Chain
  MaxRetries = 0
  MaxAttempts = 2
  Misconfigured = {w2}
  ReclaimBatch = 1
  NotifyBacklog = 0
  FaultKinds = {"crash"}
  MaxFaults = 1
PROPERTIES JobsEnd QueueDrains
