------------------------------ MODULE FilePayload ------------------------------
(***************************************************************************)
(* FilePayload of archive-trait (src/builder.rs): the bytes of one file,   *)
(* handed out in chunks by next_chunk.  A payload is a slice, or a reader  *)
(* whose bytes are collected in a reused buffer; the future of next_chunk  *)
(* may be dropped at every read and the call made again.                   *)
(*                                                                         *)
(* A byte is <<file, offset>>, so a byte of another file or from another   *)
(* place shows.  The source may hold less or more than the declared size.  *)
(***************************************************************************)
EXTENDS Integers, Sequences

CONSTANTS
  Files,
  Zero,                      \* the byte a buffer is extended with
  FILE_PAYLOAD_CHUNK_BYTES

ASSUME PayloadAssumption == FILE_PAYLOAD_CHUNK_BYTES \in Nat \ {0}

VARIABLES
  file,        \* the file the payload is of
  size,        \* FilePayload.size
  inner,       \* FilePayloadInner: "Buffered" or "Reader"
  data,        \* Buffered: the slice, until it is consumed
  length,      \* how many bytes the source holds
  position,    \* how many of them are read
  buffer,
  remaining,
  filled,
  started,     \* FilePayload.started
  reading,     \* is there a future of next_chunk?
  chunk,       \* what next_chunk returned last
  taken        \* history: the bytes returned before that

payloadVars == <<file, size, inner, data, length, position, buffer, remaining, filled,
                 started, reading, chunk, taken>>
fixedVars   == <<file, size, inner, length>>

Pending    == [is |-> "Pending"]
Some(s)    == [is |-> "Some", bytes |-> s]
NoMore     == [is |-> "None"]
Failure(e) == [is |-> "Err", error |-> e]

(* n bytes of a file, behind its first ones.                               *)
Bytes(f, from, n) == [i \in 1..n |-> <<f, from + i>>]

Consumed == <<>>   \* Buffered(None)

(* Constructors: a slice, and a reader with the buffer it is lent.         *)
Unread == started' = FALSE /\ reading' = FALSE /\ chunk' = Pending /\ taken' = 0

SlicePayload(f, bytes) ==
  /\ file' = f /\ size' = Len(bytes) /\ inner' = "Buffered" /\ data' = bytes
  /\ length' = 0 /\ position' = 0 /\ remaining' = 0 /\ filled' = 0 /\ buffer' = <<>>
  /\ Unread

ReaderPayload(f, declared, available, lent) ==
  /\ file' = f /\ size' = declared /\ inner' = "Reader" /\ data' = Consumed
  /\ length' = available /\ position' = 0 /\ remaining' = declared /\ filled' = 0 /\ buffer' = lent
  /\ Unread

-----------------------------------------------------------------------------
(* next_chunk *)

Returned == IF chunk.is = "Some" THEN Len(chunk.bytes) ELSE 0

ChunkLen == IF remaining < FILE_PAYLOAD_CHUNK_BYTES THEN remaining ELSE FILE_PAYLOAD_CHUNK_BYTES

(* Vec::resize keeps what is there, of whatever file.                      *)
Resized(bytes, n) == [i \in 1..n |-> IF i <= Len(bytes) THEN bytes[i] ELSE Zero]

(* Fault: a new call starts the chunk over.                                *)
StartsOver(n) == 0

(* What an earlier call read into the buffer stays there.                  *)
Progress(n) == n

Answer(result) ==
  /\ reading' = FALSE
  /\ chunk' = result
  /\ taken' = taken + Returned

TakeSlice ==
  /\ inner = "Buffered"
  /\ Answer(IF data = <<>> THEN NoMore ELSE Some(data))
  /\ data' = Consumed
  /\ UNCHANGED <<fixedVars, position, buffer, remaining, filled>>

NoneRemaining ==
  /\ inner = "Reader" /\ remaining = 0
  /\ Answer(NoMore)
  /\ UNCHANGED <<fixedVars, data, position, buffer, remaining, filled>>

StartsReading ==
  /\ inner = "Reader" /\ remaining > 0
  /\ buffer' = Resized(buffer, ChunkLen)
  /\ filled' = Progress(filled)
  /\ reading' = TRUE
  /\ chunk' = Pending
  /\ taken' = taken + Returned
  /\ UNCHANGED <<fixedVars, data, position, remaining>>

NextChunk ==
  /\ ~reading
  /\ started' = TRUE
  /\ TakeSlice \/ NoneRemaining \/ StartsReading

(* A read puts n bytes behind the filled ones, and the last one the chunk  *)
(* needs completes the call.                                               *)
ReadBytes(n) ==
  [i \in 1..Len(buffer) |->
     IF i \in (filled + 1)..(filled + n) THEN <<file, position + i - filled>> ELSE buffer[i]]

ReadSome ==
  /\ reading
  /\ \E n \in 1..(ChunkLen - filled) :
       /\ n <= length - position
       /\ position' = position + n
       /\ buffer' = ReadBytes(n)
       /\ IF filled + n = ChunkLen
          THEN /\ filled' = 0
               /\ remaining' = remaining - ChunkLen
               /\ Answer(Some(buffer'))
          ELSE /\ filled' = filled + n
               /\ UNCHANGED <<remaining, reading, chunk, taken>>
  /\ UNCHANGED <<fixedVars, data, started>>

ReadEnds ==
  /\ reading /\ position = length
  /\ Answer(Failure("UnexpectedEof"))
  /\ UNCHANGED <<fixedVars, data, position, buffer, remaining, filled, started>>

ReadFails ==
  /\ reading
  /\ Answer(Failure("SourceRead"))
  /\ UNCHANGED <<fixedVars, data, position, buffer, remaining, filled, started>>

DropNextChunk ==
  /\ reading
  /\ Answer(Pending)
  /\ UNCHANGED <<fixedVars, data, position, buffer, remaining, filled, started>>

PayloadNext == NextChunk \/ ReadSome \/ ReadEnds \/ ReadFails \/ DropNextChunk

-----------------------------------------------------------------------------
(* Reads completed before a drop or an error are not lost, nothing left in *)
(* the buffer is handed out, and no byte comes twice: what next_chunk      *)
(* returns is the file's bytes that follow those returned before, it says  *)
(* there are no more only once it returned as many as declared, and it has *)
(* read no byte of the source that it did not return or keep.              *)
ChunksFollowOn ==
  /\ chunk.is = "Some" => chunk.bytes = Bytes(file, taken, Len(chunk.bytes))
  /\ chunk.is = "None" => taken = size
  /\ inner = "Reader" => position = taken + Returned + filled
=============================================================================
