CONSTANTS
  a = a
  b = b
  c = c
  x = x
  Outside = x
  MAX_LINKS = 4
  MAX_SYMLINK_EXPANSIONS = 4
  MaxMembers = 3
  BUFFERED_PAYLOAD_MAX_BYTES = 2
  BUFFERED_FILE_BATCH_MAX_ENTRIES = 2
  BUFFERED_FILE_BATCH_MAX_BYTES = 3
  Fold <- MCFoldNames
  Members <- MCLinkMembers
  Destinations <- MCLinkDestinations
  Policies <- MCLinkPolicies
SPECIFICATION ClientSpec
INVARIANTS
  SuccessIsSequential
  LinksObeyPolicy
PROPERTIES
  LinkGivesWayToLater
\* The extraction ends.
CHECK_DEADLOCK FALSE
