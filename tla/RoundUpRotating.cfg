CONSTANTS
  Relayers = {"a", "b", "c"}
  FastRelayers = {}
  Chains = {"eth"}
  NoChain = "none"
  MaxRound = 3
  Selected <- Rotating
  Majority <- Two
  HistoryLimit = 2
  Offset = 1
  Live = {"a", "b", "c"}
  MaxFaults = 0
  MaxRestarts = 0
SPECIFICATION FairSpec
CHECK_DEADLOCK FALSE
INVARIANTS IInv Endorsed
PROPERTIES Synced ImplementsHandover
