SPECIFICATION Spec
CONSTANTS
  Jobs = {j1}
  Workers = {w1, w2}
  None = None
  Reapers = {r1}
  NumSteps = 3
  DependsOn <- Join
  References <- Apart
  MaxRetries = 0
  MaxAttempts = 2
  Misconfigured = {}
  ReclaimBatch = 1
  NotifyBacklog = 0
  FaultKinds = {"crash", "pause", "store", "agent", "flush", "sweep"}
  MaxFaults = 2
SYMMETRY WorkerSymmetry
INVARIANTS BooksInv DependenciesFirst SucceededMeansAllSteps ClosedBooks
