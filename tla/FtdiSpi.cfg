CONSTANTS
  regA = regA
  regB = regB
  Addresses = {regA, regB}
  Data = {"v0", "v1"}
  MaxStale = 4
  Round <- MCRound
  CsBit = 3
  Trash = 1
  MaxFaults = 1
  MaxRuns = 2
SPECIFICATION FairSpec
INVARIANTS TypeOK AckFits SyncedAfterOpen ReadsAreFresh CsFramesData EveryWriteArrives
PROPERTIES Terminates
CHECK_DEADLOCK FALSE
