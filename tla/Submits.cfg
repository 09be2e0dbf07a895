CONSTANTS
  Relayers = {1, 2, 3, 4}
  Senders = {1, 2}
  Hex <- MCHex
  Quorum = 2
  MaxFaults = 1
SPECIFICATION FairSpec
CHECK_DEADLOCK FALSE
INVARIANTS IInv Complete RelaysAccepted
PROPERTY ImplementsCertificate
