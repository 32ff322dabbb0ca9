CONSTANTS
  U64_MAX = 65535
  MAX_DECIMAL_U64_BYTES = 5
  FIELD_LEN <- MCFieldLen
  BLOCK_SIZE = 16
  Members <- MCMembers
SPECIFICATION FramingSpec
INVARIANTS
  ReadsBack
\* The members framed are bounded.
CHECK_DEADLOCK FALSE
