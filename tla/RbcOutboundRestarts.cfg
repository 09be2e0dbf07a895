CONSTANTS
  Requests = {out}
  Inbound = {}
  Relayers = {0, 1}
  FastRelayers = {}
  N = 3
  Quorum = 2
  RelayerNum <- Shrinking
  MaxRound = 1
  HistoryLimit = 1
  Offset = 2
  Blocks = {2}
  Live = {0, 1}
  MaxFaults = 0
  MaxRestarts = 1
SPECIFICATION FairSpec
CHECK_DEADLOCK FALSE
INVARIANT IInv
PROPERTIES Settles BootstrapDropsOnlyLate ImplementsRequest NewestIsLatest
