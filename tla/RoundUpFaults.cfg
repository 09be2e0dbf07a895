CONSTANTS
  Relayers = {"a", "b", "c"}
  FastRelayers = {"a"}
  Chains = {"eth"}
  NoChain = "none"
  MaxRound = 2
  Selected <- Rotating
  Majority <- One
  HistoryLimit = 2
  Offset = 1
  Live = {"b", "c"}
  MaxFaults = 1
  MaxRestarts = 1
SPECIFICATION FairSpec
CHECK_DEADLOCK FALSE
PROPERTY Synced
