CONSTANTS
  regA = regA
  regB = regB
  Addresses = {regA, regB}
  Data = {"v0", "v1"}
  MaxStale = 4
  Round <- MCRound
  CsBit = 11
  Trash = 1
  MaxFaults = 1
  MaxRuns = 2
SPECIFICATION Spec
INVARIANT AcceptedBitSelects
CHECK_DEADLOCK FALSE
