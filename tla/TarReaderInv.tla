----------------------------- MODULE TarReaderInv -----------------------------
(***************************************************************************)
(* The inductive invariant of the reader: what links the parser state, the *)
(* chunk being read, the payload still due and the extension being         *)
(* assembled, in every state a dropped future can leave behind.            *)
(***************************************************************************)
EXTENDS TarReaderClient

RecordsType == [Keywords -> Nat \cup Names \cup {Absent, Deleted}]
Sized(r)    == r \in RecordsType /\ r["size"] \in Nat \cup {Absent, Deleted}
Positive    == Nat \ {0}

StateOK ==
  \/ state \in {AwaitingHeader, AwaitingSecondZero, Complete, Failed}
  \/ state \in [phase : {"ReadingPax"}, kind : PaxKinds, remaining : Positive]
  \/ state.phase = "AwaitingUstarHeader" /\ state = AwaitingUstarHeader(state.records)
       /\ Sized(state.records)
  \/ state \in [phase : {"ReadingGnu"}, kind : GnuKinds, remaining : Positive,
                pending : SUBSET GnuKinds]
  \/ state \in [phase : {"AwaitingGnuMember"}, pending : SUBSET GnuKinds]
  \/ state \in [phase : {"ReadingMember"}, remaining : Positive]

(* A chunk is a whole number q of blocks, the last of them not empty.      *)
Spans(physical, meaningful, q) ==
  /\ physical = q * BLOCK_SIZE
  /\ meaningful <= physical
  /\ meaningful > (q - 1) * BLOCK_SIZE

ReadingShape(c) ==
  /\ c \in [phase : {"Reading"}, start : Nat, physical : Positive, meaningful : Positive,
            member_remaining : Positive, buffer : Seq(Nat)]
  /\ \E q \in 1..c.physical : Spans(c.physical, c.meaningful, q)
  /\ c.meaningful <= c.member_remaining
  /\ Len(c.buffer) < c.physical
  /\ c.buffer = Offsets(c.start, Len(c.buffer))

ReadyShape(c) ==
  /\ c \in [phase : {"Ready"}, start : Nat, physical : Positive, meaningful : Positive,
            delivered : Nat, buffer : Seq(Nat)]
  /\ \E q \in 1..c.physical : \E d \in 0..(q - 1) :
       Spans(c.physical, c.meaningful, q) /\ c.delivered = d * BLOCK_SIZE
  /\ Len(c.buffer) = c.physical
  /\ c.buffer = Offsets(c.start, c.physical)

ReadingChunk ==
  /\ ReadingShape(member_chunk)
  /\ member_chunk.start = position
  /\ block = <<>>
  /\ state = ReadingMember(member_chunk.member_remaining)

ReadyToDeliver ==
  /\ ReadyShape(member_chunk)
  /\ block = <<>>
  /\ state = AwaitingHeader \/ state.phase = "ReadingMember"

ChunkOK == member_chunk = NoChunk \/ ReadingChunk \/ ReadyToDeliver

BuffersOK ==
  /\ source \in Nat /\ position \in Nat
  /\ block \in Seq(Nat) /\ Len(block) < BLOCK_SIZE

GlobalsOK == Sized(global_pax_records) /\ OneGlobalState

(* Between an extension and its member, the family is known.               *)
FormatOK ==
  /\ state.phase \in {"ReadingPax", "AwaitingUstarHeader"} => format = "Pax"
  /\ state.phase \in {"ReadingGnu", "AwaitingGnuMember"} => format = "Gnu"

(* The extension the reader assembles is the one the stream is reading.    *)
ExtensionOK ==
  /\ state.phase \in {"ReadingPax", "ReadingGnu"} => extension_payload.kind = state.kind
  /\ extension_payload.kind \in PaxKinds \cup GnuKinds \cup {"None"}
  /\ state.phase = "ReadingGnu" =>
       /\ extension_payload = [kind |-> state.kind, position |-> extension_payload.position,
                               remaining |-> state.remaining,
                               payload |-> extension_payload.payload]

(* A future exists only while the stream may still go on.                  *)
CallOK == call # "idle" => ~Finished

ReaderInv ==
  /\ BuffersOK
  /\ StateOK
  /\ remaining \in Nat
  /\ ChunkOK
  /\ GlobalsOK
  /\ FormatOK
  /\ ExtensionOK
  /\ PayloadAccounted
  /\ NoByteLost
  /\ CallOK
  /\ ChecksNeverFail
=============================================================================
