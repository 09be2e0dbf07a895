CONSTANTS
  Requests = {out}
  Inbound = {}
  Relayers = {0, 1}
  FastRelayers = {}
  N = 2
  Quorum = 1
  RelayerNum <- Steady
  MaxRound = 0
  HistoryLimit = 1
  Offset = 2
  Blocks = {0, 1}
  Live = {0, 1}
  MaxFaults = 1
  MaxRestarts = 0
SPECIFICATION FairSpec
CHECK_DEADLOCK FALSE
INVARIANT StepIInv
PROPERTIES Settles Quiesces
