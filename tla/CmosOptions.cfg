CONSTANTS
  plain = plain
  cfg = cfg
  late = late
  sum = sum
  MaxEntries = 4
  Names <- MCNames
  At <- MCAt
  CheckSum = sum
  Tables <- MCTables
SPECIFICATION FairSpec
INVARIANTS TypeOK WalkStaysInTable ShowsWhatWasCounted
PROPERTY OpensForm
CHECK_DEADLOCK FALSE
