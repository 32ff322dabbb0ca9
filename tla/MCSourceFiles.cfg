CONSTANTS
  empty = empty
  one = one
  two = two
  five = five
  Zero = Zero
  Files = {empty, one, two, five}
  Size <- MCSize
  Additions <- MCAdditions
  BUFFERED_SOURCE_FILE_BYTES = 2
  SOURCE_FILE_PREPARATION_BATCH_BYTES = 2
  FILE_PAYLOAD_CHUNK_BYTES = 4
  MaxCalls = 2
SPECIFICATION SourceSpec
INVARIANTS
  ChunksFollowOn
  MembersAreWhole
  RangesStayFilled
\* Calls are bounded, and a builder may be poisoned.
CHECK_DEADLOCK FALSE
