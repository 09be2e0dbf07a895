CONSTANTS
  Networks = {"mainnet", "testnet"}
  Options = {"-s", "-f", "-t", "-c", "-a"}
  HistoryLimit = 6
  MaxRound = 2
  MaxStarts = 2
SPECIFICATION Spec
CHECK_DEADLOCK FALSE
INVARIANT InjectsDocumentedFiles
