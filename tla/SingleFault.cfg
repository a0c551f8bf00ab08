SPECIFICATION Spec
CONSTANTS
  Jobs = {j1}
  Workers = {w1, w2, w3}
  None = None
  Reapers = {r1}
  NumSteps = 2
  DependsOn <- Chain
  References <- Chain
  MaxRetries = 0
  MaxAttempts = 2
  Misconfigured = {}
  ReclaimBatch = 1
  NotifyBacklog = 0
  FaultKinds = {"crash", "shutdown", "store", "write", "queue", "submit", "agent", "sweep"}
  MaxFaults = 1
SYMMETRY WorkerSymmetry
INVARIANTS NoJobLost LossInv LeaseKept ExclusiveExecution
