SPECIFICATION Spec
CONSTANTS
  a = a
  b = b
  c = c
  d = d
  unknown = unknown
  Blank = Blank
  MaxRetries = 1
  Requests <- MCRequests
  Agents <- MCAgents
INVARIANTS EngineInv CycleTestExact SkipsTheWholeChain AnswerTellsTheOutcome RetriesAreUsedUp
PROPERTIES EveryRequestAnswered
