SPECIFICATION ReaderClientSpec
CONSTANTS
  BLOCK_SIZE = 2
  MaxBytes = 18
  Typeflags <- MCExtensionTypeflags
  Sizes <- MCSizes
  Targets <- MCTargets
  PAYLOAD_DRAIN_CHUNK_BYTES = 4
  PaxPayloads <- MCPaxPayloads
  Names <- MCNames
  MaxPaxExtensionSize = 5
  MaxGlobalPaxExtensionsSize = 5
  MaxGnuExtensionSize = 5
  a = a
  Absent = Absent
  Deleted = Deleted
INVARIANTS ReaderInv
PROPERTIES ExtensionsAttached
