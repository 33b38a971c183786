CONSTANTS
  vendor = vendor
  part = part
  ram = ram
  reserved = reserved
  ScreenX = 3
  LinesShown = 2
  Glyphs = {"g", "h"}
  Space = 8
  RomSize = 4
  FilesVisible = 2
  FileNames = {"x", "y", "z"}
  MaxFiles = 4
  LowArea <- MCLowArea
  HighArea <- MCHighArea
  Addresses = {1, 2, 3, 4}
  Items = {vendor, part}
  Ranges = {ram, reserved}
  MaxRanges = 2
  MaxMbRanges = 2
  Machines <- MCMachines
  RamMax = 8
  KhzValues = 1024
  RamSteps = {1, 2, 4}
SPECIFICATION Spec
INVARIANT OnlyPrintable
CHECK_DEADLOCK FALSE
