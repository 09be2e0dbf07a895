CONSTANTS
  Requests = {in}
  Inbound = {in}
  Relayers = {0, 1}
  FastRelayers = {}
  N = 2
  Quorum = 1
  RelayerNum <- Steady
  MaxRound = 0
  HistoryLimit = 1
  Offset = 2
  Blocks = {0}
  Live = {}
  MaxFaults = 0
  MaxRestarts = 0
SPECIFICATION MetricSpec
CHECK_DEADLOCK FALSE
INVARIANT GaugeAsDocumented
