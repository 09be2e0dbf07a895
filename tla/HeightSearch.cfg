CONSTANTS
  Head = 4
  Times <- MCTimes
  Wanted <- MCWanted
  Latest = {0, 1, 2, 3, 4}
  Window = 2
SPECIFICATION FairSpec
INVARIANTS IInv StartsInTime MissesOnlyHead
PROPERTY Finds
CHECK_DEADLOCK FALSE
