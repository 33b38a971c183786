CONSTANTS
  W = 2
  Radix = 2
  Word = 128
  Freq = 50
  Requests = {0, 5, 10}
  Rates <- MCRates
  CsBits = {2, 3, 15, 16}
  MaxTransfers = 2
  MaxUnread = 1
SPECIFICATION Spec
INVARIANTS TypeOK PortReleases RateIsRight
PROPERTY MasterSpec
CHECK_DEADLOCK FALSE
