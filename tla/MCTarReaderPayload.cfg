SPECIFICATION ReaderClientSpec
CONSTANTS
  BLOCK_SIZE = 2
  MaxBytes = 22
  Typeflags <- MCMemberTypeflags
  Sizes <- MCSizes
  Targets <- MCTargets
  PAYLOAD_DRAIN_CHUNK_BYTES = 4
  PaxPayloads <- MCPaxPayloads
  Names <- MCNames
  MaxPaxExtensionSize = 5
  MaxGlobalPaxExtensionsSize = 5
  MaxGnuExtensionSize = 5
  a = a
  Absent = Absent
  Deleted = Deleted
INVARIANTS NoByteLost PayloadAccounted
PROPERTIES ImplementsMemberStream CallReturns
