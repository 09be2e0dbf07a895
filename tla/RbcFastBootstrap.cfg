CONSTANTS
  Requests = {in}
  Inbound = {in}
  Relayers = {0, 9}
  FastRelayers = {9}
  N = 1
  Quorum = 1
  RelayerNum <- Steady
  MaxRound = 0
  HistoryLimit = 1
  Offset = 2
  Blocks = {0}
  Live = {}
  MaxFaults = 0
  MaxRestarts = 1
SPECIFICATION Spec
CHECK_DEADLOCK FALSE
PROPERTY BootstrapDropsOnlyLate
