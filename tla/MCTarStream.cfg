SPECIFICATION ClientSpec
CONSTANTS
  BLOCK_SIZE = 2
  MaxBytes = 22
  Typeflags <- MCTypeflags
  Sizes <- MCSizes
  PaxPayloads <- MCPaxPayloads
  Names <- MCNames
  MaxPaxExtensionSize = 3
  MaxGlobalPaxExtensionsSize = 4
  MaxGnuExtensionSize = 3
  a = a
  Absent = Absent
  Deleted = Deleted
INVARIANTS PayloadOwed GlobalBudget
PROPERTIES SizeFromFrames
