CONSTANTS
  Buses <- MCBuses
  SlotCount = 2
  FuncCount = 2
  MaxDevices = 5
  Visible = 2
  Machines <- MCMachines
SPECIFICATION Spec
INVARIANTS TypeOK ListIsComplete NothingTwice SelectionVisible
PROPERTY ScanReturns
CHECK_DEADLOCK FALSE
