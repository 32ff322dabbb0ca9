--------------------------- MODULE TarReaderClient ---------------------------
(***************************************************************************)
(* TarReader with the history its properties speak of: the last member     *)
(* handed out, and the extension headers met in the archive since then.    *)
(***************************************************************************)
EXTENDS TarReader

VARIABLES
  member,   \* position and size of the last member
  trail     \* the extension headers since its header, in archive order

readerClientVars == <<vars, member, trail>>

ReaderClientInit ==
  /\ ReaderInit
  /\ member = [position |-> 0 - BLOCK_SIZE, size |-> 0]
  /\ trail = <<>>

Releases == out'.type = "Member" /\ out' # out

ReaderClientNext ==
  /\ Next
  /\ IF Releases
     THEN member' = [position |-> out'.position, size |-> out'.size] /\ trail' = <<>>
     ELSE /\ UNCHANGED member
          /\ trail' = IF frame' # frame /\ frame'.type \in {"Pax", "Gnu"}
                      THEN Append(trail, frame') ELSE trail

(* The executor polls a pending future again and the source answers it;    *)
(* it need not fail.  The client may stop calling at any time.             *)
Answered == PollReader /\ frame' # Error("Io") /\ ReaderClientNext

ReaderClientSpec ==
  /\ ReaderClientInit
  /\ [][ReaderClientNext]_readerClientVars
  /\ WF_readerClientVars(Answered)

-----------------------------------------------------------------------------
Offsets(first, n) == [i \in 1..n |-> first + i - 1]

Filled == IF member_chunk.phase = "Reading" THEN Len(member_chunk.buffer) ELSE 0

(* Whatever calls are dropped and mixed, a byte taken from the source is   *)
(* in a finished block, in the block buffer or in the chunk: in order, in  *)
(* one of them only, and at the place its position says.                   *)
NoByteLost ==
  /\ state # Failed => source = position + Len(block) + Filled
  /\ state # Failed => block = Offsets(position, Len(block))
  /\ state # Failed => block = <<>> \/ member_chunk = NoChunk
  /\ member_chunk # NoChunk =>
       member_chunk.buffer = Offsets(member_chunk.start, Len(member_chunk.buffer))

Undelivered(c) == IF c.phase = "Ready" THEN c.meaningful - c.delivered ELSE 0
Unread(s)      == IF s.phase = "ReadingMember" THEN s.remaining ELSE 0

(* The payload the PayloadReader still owes is what the stream has yet to  *)
(* read plus what a chunk holds back, and a chunk being filled started     *)
(* from the remaining length the parser state still shows.                 *)
PayloadAccounted ==
  state # Failed =>
    /\ remaining = Undelivered(member_chunk) + Unread(state)
    /\ member_chunk.phase = "Reading" =>
         state = ReadingMember(member_chunk.member_remaining)

(* The two copies of the global pax records never diverge, however many    *)
(* calls of next_frame were dropped between a header and its payload.      *)
OneGlobalState == logical_pax_records = global_pax_records

Kinds(kind) == SelectSeq(trail, LAMBDA f : f.kind = kind)

(* A member leaves with exactly the extensions that precede it since the   *)
(* member before, each once, in order and with its own payload: none is    *)
(* lost when a call is dropped and none is left over from another member.  *)
ExtensionsAttached ==
  [][ Releases =>
        LET x == out'.extensions
            globals == Kinds("Global")
            locals  == Kinds("Local")
        IN  /\ Len(x.global_pax) = Len(globals)
            /\ \A i \in 1..Len(globals) : x.global_pax[i].position = globals[i].position
            /\ { e.position : e \in x.local_pax } = { locals[i].position : i \in 1..Len(locals) }
            /\ \A kind \in GnuKinds :
                 x[kind] = { [position |-> Kinds(kind)[i].position,
                              payload |-> Offsets(Kinds(kind)[i].position + BLOCK_SIZE,
                                                  Kinds(kind)[i].size)]
                             : i \in 1..Len(Kinds(kind)) }
    ]_readerClientVars

(* The checks the reader makes on its own stream never fail: data is       *)
(* always that of the extension being read, and never more than is due.    *)
ChecksNeverFail ==
  out \notin {Error("Oversized"), Error("UnattachedData")}

(* The reader is a MemberStream: dropped futures, partial reads, chunks    *)
(* and drains are invisible to the client; payload is passed over only     *)
(* once the client gave up its MemberPayload; and an error is followed by  *)
(* the end, but for a payload still held, which answers with an error.     *)
Contract == INSTANCE MemberStream WITH
  ended <- Finished,
  next  <- member.position + BLOCK_SIZE + member.size - remaining,
  left  <- remaining,
  held  <- held,
  out   <- out

ImplementsMemberStream == Contract!Spec

(* A pending call is answered, a drain included.                           *)
CallReturns == call # "idle" ~> call = "idle"
=============================================================================
