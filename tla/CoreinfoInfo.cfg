CONSTANTS
  boot_option = boot_option
  debug_level = debug_level
  HD = HD
  USB = USB
  PXE = PXE
  no = no
  v0 = v0
  v1 = v1
  junk = junk
  Invalid = no
  NoText = none
  Options <- MCOptions
  FieldsOf <- MCFieldsOf
  Kind <- MCKind
  Values <- MCValues
  Default <- MCDefault
  Junk <- MCJunk
  Count <- MCCount
  MaxVisits = 2
SPECIFICATION Spec
INVARIANT InfoMatchesField
