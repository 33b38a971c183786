CONSTANTS
  plain = plain
  cfg = cfg
  late = late
  sum = sum
  MaxEntries = 2
  Names <- MCNames
  At <- MCAt
  CheckSum = sum
  Tables <- MCTables
SPECIFICATION FairSpec
INVARIANT ExitsWithoutOptions
CHECK_DEADLOCK FALSE
