CONSTANTS
  a = a
  b = b
  c = c
  d = d
  Names = {a, b, c, d}
  Entries <- MCEntries
  Trees <- MCTrees
  DIRECTORY_TRAVERSAL_BATCH_ENTRIES = 2
  DIRECTORY_TRAVERSAL_BUFFER_BATCHES = 1
  BLOCK_SIZE = 2
  BUFFERED_SOURCE_FILE_BYTES = 2
  SOURCE_FILE_PREPARATION_BATCH_BYTES = 2
  FILE_PAYLOAD_CHUNK_BYTES = 2
  MaxMembers = 9
SPECIFICATION BuilderClientSpec
INVARIANTS
  CleanOutput
  BoundedMemory
PROPERTIES
  CallsAreAllOrNothing
  ImplementsArchiveLog
  CallReturns
\* finish consumes the builder, and the output is bounded by MaxMembers.
CHECK_DEADLOCK FALSE
