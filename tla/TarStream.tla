------------------------------ MODULE TarStream ------------------------------
(***************************************************************************)
(* The physical framing layer of tar-framing (src/stream.rs): TarStream    *)
(* reads an archive block by block through an AsyncRead, recognises        *)
(* headers, pax and GNU extensions, payload and the end marker, and emits  *)
(* one frame per block.  A call of next_frame is a future: it may be       *)
(* polled many times, every poll_read may deliver only part of a block,    *)
(* and the future may be dropped while it is pending.                      *)
(*                                                                         *)
(* A byte of the archive is represented by its offset, so a buffer is a    *)
(* sequence of offsets and a lost, repeated or reordered byte shows.  What *)
(* a completed block contains is chosen when the block completes.          *)
(***************************************************************************)
EXTENDS Integers, Sequences, FiniteSets

CONSTANTS
  BLOCK_SIZE,                    \* bytes in a tar block (512 in the code)
  MaxBytes,                      \* bound: the longest archive considered
  Typeflags,                     \* the header typeflags that occur
  Sizes,                         \* the values a header's size field takes
  PaxPayloads,                   \* what the pax payloads that parse contain
  MaxPaxExtensionSize,           \* StreamPolicy.max_pax_extension_size
  MaxGlobalPaxExtensionsSize,    \* StreamPolicy.max_global_pax_extensions_size
  MaxGnuExtensionSize,           \* StreamPolicy.max_gnu_extension_size
  Names,                         \* the values of a pax path record
  Absent,                        \* no record for a keyword
  Deleted                        \* the tombstone an empty value leaves behind

(* The keywords whose effective values the framing and the member layer    *)
(* use, and the records one extended header, or all globals, establish.    *)
Keywords == {"path", "size"}
Records  == { r \in [Keywords -> Nat \cup Names \cup {Absent, Deleted}] :
                /\ r["size"] \in Nat \cup {Absent, Deleted}
                /\ r["path"] \in Names \cup {Absent, Deleted} }
NoRecords == [k \in Keywords |-> Absent]

ASSUME BlockAssumption == BLOCK_SIZE \in Nat \ {0} /\ MaxBytes \in Nat
ASSUME SizeAssumption  == Sizes \subseteq Nat
ASSUME LimitAssumption == /\ MaxPaxExtensionSize \in Nat
                          /\ MaxGlobalPaxExtensionsSize \in Nat
                          /\ MaxGnuExtensionSize \in Nat
ASSUME RecordAssumption ==
  /\ Absent # Deleted
  /\ Absent \notin Nat \cup Names /\ Deleted \notin Nat \cup Names
  /\ \A r \in PaxPayloads :
       /\ r \in [Keywords -> Nat \cup Names \cup {Absent, Deleted}]
       /\ r["size"] \in Nat \cup {Absent, Deleted}
       /\ r["path"] \in Names \cup {Absent, Deleted}

Formats     == {"Pax", "Gnu"}
MemberKinds == {"Regular", "HardLink", "SymbolicLink", "Directory"}
PaxKinds    == {"Local", "Global"}
GnuKinds    == {"LongName", "LongLink"}
PaxKind     == [x |-> "Local", g |-> "Global"]
GnuKind     == [L |-> "LongName", K |-> "LongLink"]

(* A header whose identity, checksum and size field are valid.  A typeflag *)
(* outside MemberKinds, x, g, L and K stands for every header that is      *)
(* rejected after its format was accepted (unsupported typeflag, invalid   *)
(* numeric or string field).                                               *)
Headers == [format : Formats, typeflag : Typeflags, size : Sizes]

VARIABLES
  source,                      \* bytes taken from the inner reader so far
  position,                    \* TarStream.position
  block,                       \* the bytes in TarStream.block; block_len is its length
  format,                      \* TarStream.format, or "None"
  global_pax_records,          \* TarStream.global_pax_records
  global_pax_extensions_size,  \* TarStream.global_pax_extensions_size
  state,                       \* TarStream.state
  frame,                       \* the result of the last poll of the stream
  call                         \* the operation whose future exists, or "idle"

streamVars == <<source, position, block, format, global_pax_records,
                global_pax_extensions_size, state, frame>>

-----------------------------------------------------------------------------
(* The parser state (enum State).                                          *)

Phase(p)          == [phase |-> p]
AwaitingHeader    == Phase("AwaitingHeader")
AwaitingSecondZero == Phase("AwaitingSecondZero")
Complete          == Phase("Complete")
Failed            == Phase("Failed")
ReadingPax(kind, remaining) ==
  [phase |-> "ReadingPax", kind |-> kind, remaining |-> remaining]
AwaitingUstarHeader(records) ==
  [phase |-> "AwaitingUstarHeader", records |-> records]
ReadingGnu(kind, remaining, pending) ==
  [phase |-> "ReadingGnu", kind |-> kind, remaining |-> remaining, pending |-> pending]
AwaitingGnuMember(pending) ==
  [phase |-> "AwaitingGnuMember", pending |-> pending]
ReadingMember(remaining) ==
  [phase |-> "ReadingMember", remaining |-> remaining]

MemberPayloadState(remaining) ==
  IF remaining = 0 THEN AwaitingHeader ELSE ReadingMember(remaining)

Remaining(s) ==
  IF s.phase \in {"ReadingPax", "ReadingGnu", "ReadingMember"} THEN s.remaining ELSE 0

(* What a poll reports: nothing yet, a frame, the end or an error.  The    *)
(* last data frame of a pax payload carries its parsed records: an option, *)
(* a set of at most one element.                                           *)
Pending  == [type |-> "Pending"]
End      == [type |-> "End"]
Error(e) == [type |-> "Error", error |-> e]
PaxFrame(kind, size) ==
  [type |-> "Pax", position |-> position, kind |-> kind, size |-> size]
GnuFrame(kind, size) ==
  [type |-> "Gnu", position |-> position, kind |-> kind, size |-> size]
HeaderFrame(h, size) ==
  [type |-> "Header", position |-> position, format |-> h.format,
   kind |-> h.typeflag, declared |-> h.size, size |-> size]
DataFrame(owner, bytes, records) ==
  [type |-> "Data", position |-> position, owner |-> owner,
   bytes |-> bytes, completed |-> records]

Smaller(a, b) == IF a <= b THEN a ELSE b

-----------------------------------------------------------------------------
(* Effective pax records: a local record, a tombstone included, hides the  *)
(* global one; a newer global record hides an older one.                   *)

(* Fault: a tombstone does not hide the global record.                     *)
TombstoneFallsThrough(local, global, keyword) ==
  IF local[keyword] \notin {Absent, Deleted} THEN local[keyword] ELSE global[keyword]

EffectiveRecord(local, global, keyword) ==
  IF local[keyword] # Absent THEN local[keyword] ELSE global[keyword]

ApplyGlobal(records, global) ==
  [k \in Keywords |-> EffectiveRecord(records, global, k)]

EffectiveSize(declared, local) ==
  LET size == EffectiveRecord(local, global_pax_records, "size")
  IN  IF size = Absent THEN declared ELSE size

-----------------------------------------------------------------------------
(* Reading from the inner AsyncRead.                                       *)

NextBytes(n) == [i \in 1..n |-> source + i - 1]
Missing      == BLOCK_SIZE - Len(block)
FullBlock    == block \o NextBytes(Missing)
Meaningful(n) == SubSeq(FullBlock, 1, Smaller(n, BLOCK_SIZE))

(* poll_read delivers bytes that do not complete the block.                *)
ReadPart ==
  \E n \in 1..(Missing - 1) :
    /\ source + n <= MaxBytes
    /\ source' = source + n
    /\ block' = block \o NextBytes(n)
    /\ frame' = Pending
    /\ UNCHANGED <<position, format, global_pax_records,
                   global_pax_extensions_size, state>>

(* poll_read delivers the rest of the block.                               *)
ReadBlock ==
  /\ source + Missing <= MaxBytes
  /\ source' = source + Missing
  /\ position' = position + BLOCK_SIZE
  /\ block' = <<>>

Fail(e) == state' = Failed /\ frame' = Error(e)

SetState(s, f) == state' = s /\ frame' = f

(* Fault: an empty read is taken for a source that is not ready.           *)
EofIsNotReady ==
  /\ frame' = Pending
  /\ UNCHANGED <<source, position, block, format, global_pax_records,
                 global_pax_extensions_size, state>>

(* poll_read delivers nothing: the end of the source.                      *)
Eof ==
  /\ IF block # <<>>
     THEN Fail("IncompleteBlock")
     ELSE Fail(CASE state.phase \in {"AwaitingHeader", "AwaitingSecondZero"}
                      -> "MissingEndMarker"
                 [] state.phase \in {"ReadingPax", "ReadingGnu", "ReadingMember"}
                      -> "TruncatedPayload"
                 [] OTHER -> "UnexpectedEof")
  /\ UNCHANGED <<source, position, block, format, global_pax_records,
                 global_pax_extensions_size>>

(* poll_read fails.                                                        *)
IoError ==
  /\ Fail("Io")
  /\ UNCHANGED <<source, position, block, format, global_pax_records,
                 global_pax_extensions_size>>

-----------------------------------------------------------------------------
(* process_block, by what the completed block turns out to be.             *)

AcceptsHeader == state.phase \in {"AwaitingHeader", "AwaitingUstarHeader", "AwaitingGnuMember"}

(* Fault: a zero block may follow an extension.                            *)
ZeroBlockAnywhere ==
  /\ \/ AcceptsHeader /\ SetState(AwaitingSecondZero, Pending)
     \/ state = AwaitingSecondZero /\ SetState(Complete, End)
  /\ UNCHANGED <<format, global_pax_records, global_pax_extensions_size>>

ZeroBlock ==
  /\ \/ /\ state = AwaitingHeader
        /\ SetState(AwaitingSecondZero, Pending)
     \/ /\ state = AwaitingSecondZero
        /\ SetState(Complete, End)
     \/ /\ state.phase \in {"AwaitingUstarHeader", "AwaitingGnuMember"}
        /\ Fail("UnexpectedOrder")
  /\ UNCHANGED <<format, global_pax_records, global_pax_extensions_size>>

BadEndMarker ==
  /\ state = AwaitingSecondZero
  /\ Fail("InvalidEndMarker")
  /\ UNCHANGED <<format, global_pax_records, global_pax_extensions_size>>

(* A header that does not decode, or decodes as the other family.          *)
RejectedHeader ==
  /\ AcceptsHeader
  /\ \/ Fail("InvalidHeader")
     \/ format # "None" /\ Fail("FormatMismatch")
  /\ UNCHANGED <<format, global_pax_records, global_pax_extensions_size>>

AcceptFormat(h) == format \in {"None", h.format} /\ format' = h.format

(* Fault: the archive-wide budget is checked against one extension.        *)
BudgetPerExtension(size) == size

GlobalTotal(size) == global_pax_extensions_size + size

PaxHeader(h) ==
  LET kind  == PaxKind[h.typeflag]
      total == GlobalTotal(h.size)
  IN  /\ AcceptFormat(h)
      /\ h.format = "Pax" /\ h.typeflag \in DOMAIN PaxKind
      /\ UNCHANGED global_pax_records
      /\ \/ /\ state # AwaitingHeader
            /\ Fail("UnexpectedOrder")
            /\ UNCHANGED global_pax_extensions_size
         \/ /\ state = AwaitingHeader
            /\ h.size > MaxPaxExtensionSize
            /\ Fail("ExtensionTooLarge")
            /\ UNCHANGED global_pax_extensions_size
         \/ /\ state = AwaitingHeader
            /\ h.size <= MaxPaxExtensionSize
            /\ kind = "Global" /\ total > MaxGlobalPaxExtensionsSize
            /\ Fail("GlobalPaxExtensionsTooLarge")
            /\ UNCHANGED global_pax_extensions_size
         \/ /\ state = AwaitingHeader
            /\ h.size <= MaxPaxExtensionSize
            /\ kind = "Global" => total <= MaxGlobalPaxExtensionsSize
            /\ global_pax_extensions_size' =
                 IF kind = "Global" THEN total ELSE global_pax_extensions_size
            /\ IF h.size = 0
               THEN Fail("InvalidPaxRecord")
               ELSE SetState(ReadingPax(kind, h.size), PaxFrame(kind, h.size))

CarriesPaxPayload(kind) == kind \in {"Regular", "HardLink"}
CarriesGnuPayload(kind) == kind = "Regular"

UstarHeader(h) ==
  LET local == IF state = AwaitingHeader THEN NoRecords ELSE state.records
      size  == EffectiveSize(h.size, local)
  IN  /\ AcceptFormat(h)
      /\ h.format = "Pax" /\ h.typeflag \notin DOMAIN PaxKind
      /\ UNCHANGED <<global_pax_records, global_pax_extensions_size>>
      /\ IF \/ h.typeflag \notin MemberKinds
            \/ size = Deleted
            \/ ~CarriesPaxPayload(h.typeflag) /\ (h.size # 0 \/ size # 0)
         THEN Fail("InvalidMember")
         ELSE SetState(MemberPayloadState(size), HeaderFrame(h, size))

PendingGnu == IF state = AwaitingHeader THEN {} ELSE state.pending

GnuExtension(h) ==
  LET kind == GnuKind[h.typeflag]
      pending == PendingGnu \cup {kind}
  IN  /\ AcceptFormat(h)
      /\ h.format = "Gnu" /\ h.typeflag \in DOMAIN GnuKind
      /\ UNCHANGED <<global_pax_records, global_pax_extensions_size>>
      /\ \/ /\ kind \in PendingGnu
            /\ Fail("UnexpectedOrder")
         \/ /\ kind \notin PendingGnu
            /\ h.size > MaxGnuExtensionSize
            /\ Fail("ExtensionTooLarge")
         \/ /\ kind \notin PendingGnu
            /\ h.size <= MaxGnuExtensionSize
            /\ SetState(IF h.size = 0 THEN AwaitingGnuMember(pending)
                                      ELSE ReadingGnu(kind, h.size, pending),
                        GnuFrame(kind, h.size))

GnuHeader(h) ==
  /\ AcceptFormat(h)
  /\ h.format = "Gnu" /\ h.typeflag \notin DOMAIN GnuKind
  /\ UNCHANGED <<global_pax_records, global_pax_extensions_size>>
  /\ IF \/ h.typeflag \notin MemberKinds
        \/ "LongLink" \in PendingGnu /\ h.typeflag \notin {"HardLink", "SymbolicLink"}
        \/ ~CarriesGnuPayload(h.typeflag) /\ h.size # 0
     THEN Fail("InvalidMember")
     ELSE SetState(MemberPayloadState(h.size), HeaderFrame(h, h.size))

Header ==
  /\ AcceptsHeader
  /\ \E h \in Headers :
       \/ PaxHeader(h)
       \/ UstarHeader(h)
       \/ GnuExtension(h)
       \/ GnuHeader(h)

(* The last block of a pax payload is parsed; the records take effect.     *)
PaxRecordsParsed(records) ==
  /\ frame' = DataFrame(state.kind, Meaningful(state.remaining), {records})
  /\ IF state.kind = "Local"
     THEN /\ state' = AwaitingUstarHeader(records)
          /\ UNCHANGED global_pax_records
     ELSE /\ state' = AwaitingHeader
          /\ global_pax_records' = ApplyGlobal(records, global_pax_records)

PaxData ==
  /\ state.phase = "ReadingPax"
  /\ UNCHANGED <<format, global_pax_extensions_size>>
  /\ \/ /\ state.remaining > BLOCK_SIZE
        /\ SetState(ReadingPax(state.kind, state.remaining - BLOCK_SIZE),
                    DataFrame(state.kind, Meaningful(state.remaining), {}))
        /\ UNCHANGED global_pax_records
     \/ /\ state.remaining <= BLOCK_SIZE
        /\ \E records \in PaxPayloads : PaxRecordsParsed(records)
     \/ /\ state.remaining <= BLOCK_SIZE
        /\ Fail("InvalidPaxRecord")
        /\ UNCHANGED global_pax_records

GnuData ==
  LET left == state.remaining - Smaller(state.remaining, BLOCK_SIZE)
  IN  /\ state.phase = "ReadingGnu"
      /\ SetState(IF left = 0 THEN AwaitingGnuMember(state.pending)
                              ELSE ReadingGnu(state.kind, left, state.pending),
                  DataFrame(state.kind, Meaningful(state.remaining), {}))
      /\ UNCHANGED <<format, global_pax_records, global_pax_extensions_size>>

MemberData ==
  /\ state.phase = "ReadingMember"
  /\ SetState(MemberPayloadState(state.remaining - Smaller(state.remaining, BLOCK_SIZE)),
              DataFrame("Member", Meaningful(state.remaining), {}))
  /\ UNCHANGED <<format, global_pax_records, global_pax_extensions_size>>

ProcessBlock ==
  \/ ZeroBlock
  \/ BadEndMarker
  \/ RejectedHeader
  \/ Header
  \/ PaxData
  \/ GnuData
  \/ MemberData

(* One poll_read of poll_next_frame, and everything up to the next one.    *)
PollNextFrame ==
  \/ ReadPart
  \/ ReadBlock /\ ProcessBlock
  \/ Eof
  \/ IoError

-----------------------------------------------------------------------------
(* The public API: next_frame, any number of times, each call dropped at   *)
(* any of its suspension points.                                           *)

StreamInit ==
  /\ source = 0
  /\ position = 0
  /\ block = <<>>
  /\ format = "None"
  /\ global_pax_records = NoRecords
  /\ global_pax_extensions_size = 0
  /\ state = AwaitingHeader
  /\ frame = Pending
  /\ call = "idle"

Finished == state.phase \in {"Complete", "Failed"}

NextFrame ==
  /\ call = "idle"
  /\ frame' = IF Finished THEN End ELSE Pending
  /\ call' = IF Finished THEN "idle" ELSE "next_frame"
  /\ UNCHANGED <<source, position, block, format, global_pax_records,
                 global_pax_extensions_size, state>>

Poll ==
  /\ call = "next_frame"
  /\ PollNextFrame
  /\ call' = IF frame' = Pending THEN "next_frame" ELSE "idle"

(* The future is dropped: only what it kept on its stack is lost.          *)
Cancel ==
  /\ call # "idle"
  /\ call' = "idle"
  /\ UNCHANGED streamVars
=============================================================================
