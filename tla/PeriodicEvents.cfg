CONSTANTS
  Relayers = {"a", "b"}
  Committees <- MCCommittees
  Events = {"heart_beat", "price"}
  Period = 3
  Late = 1
  Inclusion = 4
  StartUps = {0, 7}
  Backlog = 7
  Session = 7
  MaxFaults = 2
SPECIFICATION Spec
INVARIANTS IInv InTime FewUnderWay
