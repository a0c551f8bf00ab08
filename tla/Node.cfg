SPECIFICATION Spec
CONSTANTS
  Workers = {w1}
  Unit = 4
  Half = 128
  DefaultLease = 24
  DefaultReaperInterval = 4
  Configs <- MCConfigs
  MaxTaken = 2
  MaxStreams = 1
  MaxFaults = 1
  MaxDelay = 1
INVARIANTS NodeInv SettingsAreSound DrainReleases CounterHonest RosterIsComplete
PROPERTIES RowStaysRemoved SignalEndsNode RosterForgetsNode
