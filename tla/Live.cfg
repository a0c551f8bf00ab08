SPECIFICATION FairSpec
CONSTANTS
  Jobs = {j1}
  Workers = {w1, w2}
  None = None
  Reapers = {r1}
  NumSteps = 2
  DependsOn <- Apart
  References <- Chain
  MaxRetries = 1
  MaxAttempts = 2
  Misconfigured = {}
  ReclaimBatch = 1
  NotifyBacklog = 0
  FaultKinds = {"crash", "store", "queue", "pause", "agent"}
  MaxFaults = 1
PROPERTIES JobsEnd QueueDrains
