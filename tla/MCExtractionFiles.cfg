CONSTANTS
  a = a
  b = b
  c = c
  x = x
  Outside = x
  MAX_LINKS = 4
  MAX_SYMLINK_EXPANSIONS = 4
  MaxMembers = 4
  BUFFERED_PAYLOAD_MAX_BYTES = 2
  BUFFERED_FILE_BATCH_MAX_ENTRIES = 2
  BUFFERED_FILE_BATCH_MAX_BYTES = 3
  Fold <- MCFold
  Members <- MCFileMembers
  Destinations <- MCDestinations
  Policies <- MCFilePolicies
SPECIFICATION ClientSpec
INVARIANTS
  EntriesMatchTree
  QuietAfterDrop
  SuccessIsSequential
  EarlierFilesCommitted
PROPERTIES
  NeverFollowsLinks
  NothingOverwritten
  ExtractionEnds
\* The extraction ends.
CHECK_DEADLOCK FALSE
