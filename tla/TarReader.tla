------------------------------ MODULE TarReader ------------------------------
(***************************************************************************)
(* The logical layer of tar-framing (src/logical.rs): TarReader turns the  *)
(* physical frames of a TarStream into members with their extensions, and  *)
(* lends the client a MemberPayload to read the member's bytes by block,   *)
(* by chunk, or not at all.  next_frame drains what the client left.       *)
(*                                                                         *)
(* The member reads of stream.rs (read_member_block, read_member_chunk)    *)
(* are modelled here with their only caller.  A chunk is read directly     *)
(* into storage that outlives the future, so a call that is dropped while  *)
(* it is filled, and a different call made next, continue the same chunk.  *)
(***************************************************************************)
EXTENDS TarStream

CONSTANTS
  Targets,                     \* the target_len values clients pass to next_chunk
  PAYLOAD_DRAIN_CHUNK_BYTES    \* the target of drain_payload (1 MiB in the code)

ASSUME TargetAssumption == Targets \subseteq Nat /\ PAYLOAD_DRAIN_CHUNK_BYTES \in Nat

VARIABLES
  member_chunk,         \* TarStream.member_chunk
  remaining,            \* PayloadReader.remaining
  logical_pax_records,  \* TarReader.global_pax_records, the second copy
  pending_extensions,   \* TarReader.pending_extensions
  extension_payload,    \* TarReader.extension_payload
  held,                 \* does the client hold a MemberPayload?
  out                   \* what the last call returned to the client

readerVars == <<member_chunk, remaining, logical_pax_records, pending_extensions,
                extension_payload, held, out>>
vars == <<streamVars, call, readerVars>>

framingVars == <<format, global_pax_records, global_pax_extensions_size>>

NoPending == [global_pax |-> <<>>, local_pax |-> {}, LongName |-> {}, LongLink |-> {}]
NoPayload == [kind |-> "None"]
Bytes(b)  == [type |-> "Bytes", bytes |-> b]
Exhausted == [type |-> "Exhausted"]

Larger(a, b)  == IF a >= b THEN a ELSE b
WholeBlocks(n) == ((n + BLOCK_SIZE - 1) \div BLOCK_SIZE) * BLOCK_SIZE

ReaderInit ==
  /\ StreamInit
  /\ member_chunk = Phase("None")
  /\ remaining = 0
  /\ logical_pax_records = NoRecords
  /\ pending_extensions = NoPending
  /\ extension_payload = NoPayload
  /\ held = FALSE
  /\ out = Pending

-----------------------------------------------------------------------------
(* Member chunks (MemberChunk and MemberChunkState).                       *)

NoChunk == Phase("None")

(* Fault: the chunk ends where its target says.                            *)
UnalignedChunk(left, target, pos) ==
  LET physical == Smaller(left, Larger(target, BLOCK_SIZE))
  IN  [phase |-> "Reading", start |-> pos, physical |-> physical,
       meaningful |-> Smaller(left, physical), member_remaining |-> left,
       buffer |-> <<>>]

(* start_member_chunk, at stream position pos with left payload bytes.     *)
NewChunk(left, target, pos) ==
  LET physical == WholeBlocks(Smaller(left, Larger(target, BLOCK_SIZE)))
  IN  [phase |-> "Reading", start |-> pos, physical |-> physical,
       meaningful |-> Smaller(left, physical), member_remaining |-> left,
       buffer |-> <<>>]

ReadyChunk(c, buffer) ==
  [phase |-> "Ready", start |-> c.start, physical |-> c.physical,
   meaningful |-> c.meaningful, delivered |-> 0, buffer |-> buffer]

(* take_member_block_from_chunk and take_member_chunk: the bytes handed    *)
(* over, and what stays.                                                   *)
TakenBytes(op, c) ==
  SubSeq(c.buffer, c.delivered + 1,
         IF op = "next_block" THEN Smaller(c.delivered + BLOCK_SIZE, c.meaningful)
                              ELSE c.meaningful)
(* Fault: a block read from a chunk ends the chunk.                        *)
NothingLeft(op, c) == NoChunk

LeftChunk(op, c) ==
  IF op = "next_block" /\ c.delivered + BLOCK_SIZE # c.physical
  THEN [c EXCEPT !.delivered = @ + BLOCK_SIZE]
  ELSE NoChunk

-----------------------------------------------------------------------------
(* How a call ends, or goes on.                                            *)

(* The call resolves.  next_frame drops the metadata of a member that will *)
(* never come (clear_extension_state).                                     *)
Return(op, o) ==
  /\ call' = "idle"
  /\ out' = o
  /\ IF op = "next_frame"
     THEN pending_extensions' = NoPending /\ extension_payload' = NoPayload
     ELSE UNCHANGED <<pending_extensions, extension_payload>>

StayPending(op) ==
  /\ call' = op
  /\ out' = Pending
  /\ UNCHANGED <<pending_extensions, extension_payload>>

(* The stream hands bytes to the PayloadReader and is in state s; chunk    *)
(* left is kept.  A drain goes on with a chunk of its own until the member *)
(* is exhausted, then next_frame goes on to the next header.               *)
Rest(op, bytes) == remaining - Len(bytes)

Deliver(op, bytes, left, s) ==
  LET rest == Rest(op, bytes)
      drains == op \in {"skip", "next_frame"}
  IN  IF rest < 0
      THEN /\ member_chunk' = left /\ state' = s
           /\ Return(op, Error("Oversized"))
           /\ UNCHANGED remaining
      ELSE /\ remaining' = rest
           /\ \/ /\ ~drains
                 /\ member_chunk' = left /\ state' = s
                 /\ Return(op, Bytes(bytes))
              \/ /\ drains /\ rest = 0
                 /\ member_chunk' = left /\ state' = s
                 /\ IF op = "skip" THEN Return(op, Exhausted) ELSE StayPending(op)
              \/ /\ drains /\ rest > 0
                 /\ IF s.phase = "ReadingMember"
                    THEN /\ member_chunk' = NewChunk(s.remaining, PAYLOAD_DRAIN_CHUNK_BYTES, position')
                         /\ state' = s
                         /\ StayPending(op)
                    ELSE /\ member_chunk' = left
                         /\ state' = Failed
                         /\ Return(op, Error("NoPayload"))

(* Fault: a chunk is started although a block is partly read.              *)
BlocksOnRequest(op) == op = "next_block"

(* A block whose read was dropped is finished before any chunk is begun.   *)
StartsBlock(op) == op = "next_block" \/ block # <<>>

(* The part of a payload call before its first poll_read, when payload is  *)
(* left: finish what an earlier call began, or start a block or a chunk.   *)
StartRead(op, target) ==
  /\ remaining > 0
  /\ frame' = Pending
  /\ UNCHANGED <<source, position, block, framingVars>>
  /\ \/ /\ member_chunk.phase = "Ready"
        /\ Deliver(op, TakenBytes(op, member_chunk), LeftChunk(op, member_chunk), state)
     \/ /\ \/ member_chunk.phase = "Reading"
           \/ /\ member_chunk = NoChunk /\ state.phase = "ReadingMember"
              /\ StartsBlock(op)
        /\ StayPending(op)
        /\ UNCHANGED <<member_chunk, remaining, state>>
     \/ /\ member_chunk = NoChunk /\ state.phase = "ReadingMember"
        /\ ~StartsBlock(op)
        /\ member_chunk' = NewChunk(state.remaining, target, position)
        /\ StayPending(op)
        /\ UNCHANGED <<remaining, state>>
     \/ /\ member_chunk = NoChunk /\ state.phase # "ReadingMember"
        /\ state' = Failed
        /\ Return(op, Error("NoPayload"))
        /\ UNCHANGED <<member_chunk, remaining>>

(* MemberPayload::next_block, next_chunk and skip; skip consumes it.       *)
CallPayload(op, target) ==
  /\ call = "idle" /\ held
  /\ held' = (op # "skip")
  /\ \/ StartRead(op, target)
     \/ /\ remaining = 0
        /\ Return(op, Exhausted)
        /\ UNCHANGED <<streamVars, member_chunk, remaining>>
  /\ UNCHANGED logical_pax_records

(* TarReader::next_frame, which the borrow checker allows only when the    *)
(* MemberPayload is gone.                                                  *)
CallNextFrame ==
  /\ call = "idle"
  /\ held' = FALSE
  /\ \/ /\ state # Failed
        /\ StartRead("next_frame", PAYLOAD_DRAIN_CHUNK_BYTES)
     \/ /\ state = Failed \/ (remaining = 0 /\ state = Complete)
        /\ Return("next_frame", End)
        /\ frame' = End
        /\ UNCHANGED <<source, position, block, framingVars, state, member_chunk, remaining>>
     \/ /\ remaining = 0 /\ ~Finished
        /\ StayPending("next_frame")
        /\ frame' = Pending
        /\ UNCHANGED <<source, position, block, framingVars, state, member_chunk, remaining>>
  /\ UNCHANGED logical_pax_records

-----------------------------------------------------------------------------
(* Polling a payload read.                                                 *)

ReadsPayload == call # "idle" /\ remaining > 0
ReadsChunk   == ReadsPayload /\ member_chunk.phase = "Reading"
ReadsBlock   == ReadsPayload /\ member_chunk = NoChunk

(* read_member_block_inner                                                 *)
PollMemberBlock ==
  /\ ReadsBlock
  /\ \/ /\ ReadPart
        /\ StayPending(call)
        /\ UNCHANGED <<member_chunk, remaining>>
     \/ /\ ReadBlock
        /\ Deliver(call, Meaningful(state.remaining), NoChunk,
                   MemberPayloadState(state.remaining - Smaller(state.remaining, BLOCK_SIZE)))
        /\ frame' = Pending
        /\ UNCHANGED framingVars
     \/ /\ Eof \/ IoError
        /\ Return(call, frame')
        /\ UNCHANGED <<member_chunk, remaining>>
  /\ UNCHANGED <<logical_pax_records, held>>

(* complete_member_chunk: an error puts the stream position back to the    *)
(* last whole block, so that it is the position of the error.              *)
ChunkFails(e) ==
  LET filled == Len(member_chunk.buffer)
  IN  /\ Fail(e)
      /\ position' = member_chunk.start + filled - (filled % BLOCK_SIZE)
      /\ member_chunk' = NoChunk
      /\ Return(call, frame')
      /\ UNCHANGED <<source, remaining>>

PollMemberChunk ==
  LET c      == member_chunk
      filled == Len(c.buffer)
  IN  /\ ReadsChunk
      /\ \/ \E n \in 1..(c.physical - filled - 1) :
              /\ source + n <= MaxBytes
              /\ source' = source + n
              /\ member_chunk' = [c EXCEPT !.buffer = @ \o NextBytes(n)]
              /\ StayPending(call)
              /\ frame' = Pending
              /\ UNCHANGED <<position, remaining, state>>
         \/ /\ source + c.physical - filled <= MaxBytes
            /\ source' = source + c.physical - filled
            /\ position' = c.start + c.physical
            /\ frame' = Pending
            /\ LET ready == ReadyChunk(c, c.buffer \o NextBytes(c.physical - filled))
               IN  Deliver(call, TakenBytes(call, ready), LeftChunk(call, ready),
                           MemberPayloadState(c.member_remaining - c.meaningful))
         \/ ChunkFails("Io")
         \/ ChunkFails(IF (filled % BLOCK_SIZE) # 0 THEN "IncompleteBlock" ELSE "TruncatedPayload")
      /\ UNCHANGED <<block, framingVars, logical_pax_records, held>>

-----------------------------------------------------------------------------
(* Polling next_frame past the payload: the frames of the stream.          *)

GoOn == call' = call /\ out' = Pending /\ UNCHANGED <<remaining, held>>

PaxExtension(f) ==
  /\ extension_payload' = [kind |-> f.kind, position |-> f.position]
  /\ UNCHANGED <<pending_extensions, logical_pax_records>>
  /\ GoOn

SetGnu(kind, pos, payload) ==
  pending_extensions' =
    [pending_extensions EXCEPT ![kind] = {[position |-> pos, payload |-> payload]}]

GnuExtensionFrame(f) ==
  /\ IF f.size = 0
     THEN SetGnu(f.kind, f.position, <<>>) /\ UNCHANGED extension_payload
     ELSE /\ extension_payload' = [kind |-> f.kind, position |-> f.position,
                                   remaining |-> f.size, payload |-> <<>>]
          /\ UNCHANGED pending_extensions
  /\ UNCHANGED logical_pax_records
  /\ GoOn

(* Fault: what was attached to a member stays for the next one.            *)
AfterRelease == pending_extensions

(* What mem::take leaves behind.                                           *)
Taken == NoPending

(* The member is complete: it takes the pending extensions with it.        *)
ReleaseMember(f) ==
  /\ out' = [type |-> "Member", position |-> f.position, size |-> f.size,
             extensions |-> pending_extensions, global |-> logical_pax_records]
  /\ call' = "idle"
  /\ held' = TRUE
  /\ remaining' = f.size
  /\ pending_extensions' = Taken
  /\ UNCHANGED <<extension_payload, logical_pax_records>>

LogicalGlobals(records) == ApplyGlobal(records, logical_pax_records)

PaxExtensionData(f, x) ==
  /\ IF f.completed = {}
     THEN UNCHANGED <<extension_payload, pending_extensions, logical_pax_records>>
     ELSE \E records \in f.completed :
            LET complete == [position |-> x.position, records |-> records]
            IN  /\ extension_payload' = NoPayload
                /\ IF x.kind = "Global"
                   THEN /\ logical_pax_records' = LogicalGlobals(records)
                        /\ pending_extensions' =
                             [pending_extensions EXCEPT !.global_pax = Append(@, complete)]
                   ELSE /\ pending_extensions' =
                             [pending_extensions EXCEPT !.local_pax = {complete}]
                        /\ UNCHANGED logical_pax_records
  /\ GoOn

GnuExtensionData(f, x) ==
  LET left    == x.remaining - Len(f.bytes)
      payload == x.payload \o f.bytes
  IN  /\ IF left = 0
         THEN SetGnu(x.kind, x.position, payload) /\ extension_payload' = NoPayload
         ELSE /\ extension_payload' = [kind |-> x.kind, position |-> x.position,
                                       remaining |-> left, payload |-> payload]
              /\ UNCHANGED pending_extensions
      /\ UNCHANGED logical_pax_records
      /\ GoOn

(* process_extension_data, with the checks it makes on the stream.         *)
ExtensionData(f) ==
  LET x == extension_payload
  IN  IF \/ f.owner # x.kind
         \/ x.kind \in GnuKinds /\ Len(f.bytes) > x.remaining
      THEN /\ Return("next_frame", Error("UnattachedData"))
           /\ UNCHANGED <<remaining, held, logical_pax_records>>
      ELSE IF x.kind \in PaxKinds THEN PaxExtensionData(f, x) ELSE GnuExtensionData(f, x)

HandleFrame(f) ==
  \/ /\ f = Pending
     /\ StayPending(call)
     /\ UNCHANGED <<remaining, held, logical_pax_records>>
  \/ /\ f.type \in {"End", "Error"}
     /\ Return("next_frame", f)
     /\ UNCHANGED <<remaining, held, logical_pax_records>>
  \/ f.type = "Pax" /\ PaxExtension(f)
  \/ f.type = "Gnu" /\ GnuExtensionFrame(f)
  \/ f.type = "Header" /\ ReleaseMember(f)
  \/ f.type = "Data" /\ ExtensionData(f)

PollFrame ==
  /\ call = "next_frame" /\ remaining = 0
  /\ PollNextFrame
  /\ HandleFrame(frame')
  /\ UNCHANGED member_chunk

PollReader ==
  \/ PollMemberBlock
  \/ PollMemberChunk
  \/ PollFrame

(* Fault: the chunk being read belongs to the future.                      *)
DropLosesChunk ==
  /\ Cancel
  /\ member_chunk' = NoChunk
  /\ UNCHANGED <<remaining, logical_pax_records, pending_extensions, extension_payload, held, out>>

DropFuture == Cancel /\ UNCHANGED readerVars

Next ==
  \/ CallNextFrame
  \/ CallPayload("next_block", 0)
  \/ \E target \in Targets : CallPayload("next_chunk", target)
  \/ CallPayload("skip", PAYLOAD_DRAIN_CHUNK_BYTES)
  \/ PollReader
  \/ DropFuture

Spec == ReaderInit /\ [][Next]_vars
=============================================================================
