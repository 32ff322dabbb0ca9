--------------------------- MODULE TarStreamProofs ---------------------------
(***************************************************************************)
(* What a client concludes from the frames is what the parser decides by,  *)
(* for every block size, archive, limit and set of sizes and records: how  *)
(* much payload is to come, what the global records say of the next size,  *)
(* and what is left of the budget for global headers.                      *)
(***************************************************************************)
EXTENDS TarStreamClient, SequenceTheorems, TLAPS

-----------------------------------------------------------------------------
(* The invariant, in named parts.                                          *)

BlockFits ==
  /\ source \in Nat
  /\ block \in Seq(Nat) /\ Len(block) < BLOCK_SIZE

(* A future waits for its frame.                                           *)
CallWaits == call # "idle" => frame = Pending

ReadingPhases == {"ReadingPax", "ReadingGnu", "ReadingMember"}

StateShape ==
  /\ state.phase \in ReadingPhases \cup
       {"AwaitingHeader", "AwaitingSecondZero", "AwaitingUstarHeader", "AwaitingGnuMember",
        "Complete", "Failed"}
  /\ state.phase \in ReadingPhases => state.remaining \in Nat \ {0}
  /\ state.phase = "AwaitingHeader" => state = AwaitingHeader
  /\ state.phase = "Failed" => state = Failed
  /\ state.phase = "ReadingPax" => state.kind \in PaxKinds
  /\ state.phase = "ReadingGnu" => state.kind \in GnuKinds

SeenShape ==
  /\ seen = [owed |-> seen.owed, waiting |-> seen.waiting, local |-> seen.local,
             globals |-> seen.globals, globalBytes |-> seen.globalBytes]
  /\ seen.owed \in Nat /\ seen.globalBytes \in Nat
  /\ seen.globals \in Seq(PaxPayloads)

(* Between an extension and its member, the family is known.               *)
FormatKnown ==
  /\ state.phase \in {"ReadingPax", "AwaitingUstarHeader"} => format = "Pax"
  /\ state.phase \in {"ReadingGnu", "AwaitingGnuMember"} => format = "Gnu"

Owes == state # Failed => seen.owed = Remaining(state)

(* The client knows which extensions wait for their member.                *)
Waits == state # Failed => seen.waiting = Waiting(state)

(* A record of a size holds a number or a tombstone.                       *)
SizeRecord(r) == r["size"] \in Nat \cup {Absent, Deleted}

SizeRecords ==
  /\ SizeRecord(global_pax_records)
  /\ state.phase = "AwaitingUstarHeader" => SizeRecord(state.records)

(* The client knows the local records the parser holds for the member.     *)
LocalSeen ==
  /\ state.phase = "AwaitingUstarHeader" => seen.local = state.records
  /\ state.phase \notin {"AwaitingUstarHeader", "Failed"} => seen.local = NoRecords

(* The global payload still to come.                                       *)
GlobalToCome ==
  IF state.phase = "ReadingPax" /\ state.kind = "Global" THEN state.remaining ELSE 0

(* What was charged stays within the limit, even by a header that fails.   *)
Charged ==
  /\ global_pax_extensions_size \in 0..MaxGlobalPaxExtensionsSize
  /\ seen.globalBytes <= global_pax_extensions_size
  /\ state # Failed => global_pax_extensions_size = seen.globalBytes + GlobalToCome

(* The global payloads that set a keyword; the last of them is in force.   *)
SetBy(globals, keyword) == { i \in 1..Len(globals) : globals[i][keyword] # Absent }

InForce(globals, keyword, value) ==
  \/ SetBy(globals, keyword) = {} /\ value = Absent
  \/ \E last \in SetBy(globals, keyword) :
       /\ \A i \in SetBy(globals, keyword) : i <= last
       /\ value = globals[last][keyword]

GlobalsSeen ==
  \A keyword \in Keywords : InForce(seen.globals, keyword, global_pax_records[keyword])

Agreement ==
  /\ StateShape
  /\ SeenShape
  /\ FormatKnown
  /\ SizeRecords
  /\ Owes
  /\ Waits
  /\ LocalSeen
  /\ Charged
  /\ GlobalsSeen

StreamInv == BlockFits /\ CallWaits /\ Agreement

-----------------------------------------------------------------------------
(* Blocks.                                                                 *)

(* A data frame has a block's worth of what remains.                       *)
LEMMA MeaningfulLength ==
  ASSUME BlockFits, NEW r \in Nat \ {0}
  PROVE  /\ Len(Meaningful(r)) = Smaller(r, BLOCK_SIZE)
         /\ Smaller(r, BLOCK_SIZE) \in 1..r
<1> DEFINE b == NextBytes(Missing)
<1>1. Missing \in Nat /\ Missing = BLOCK_SIZE - Len(block)
  BY BlockAssumption DEF BlockFits, Missing
<1>2. b \in Seq(Nat) /\ Len(b) = Missing
  BY <1>1 DEF NextBytes, BlockFits
<1> HIDE DEF b
<1>3. FullBlock = block \o b
  BY DEF FullBlock, b
<1>4. FullBlock \in Seq(Nat) /\ Len(FullBlock) = BLOCK_SIZE
  <2>1. block \in Seq(Nat) /\ Len(block) \in Nat /\ BLOCK_SIZE \in Nat
    BY BlockAssumption DEF BlockFits
  <2>2. block \o b \in Seq(Nat) /\ Len(block \o b) = Len(block) + Len(b)
    BY <1>2, <2>1, ConcatProperties
  <2> QED BY <1>1, <1>2, <1>3, <2>1, <2>2
<1>5. Smaller(r, BLOCK_SIZE) \in 1..r /\ Smaller(r, BLOCK_SIZE) <= BLOCK_SIZE
  BY BlockAssumption DEF Smaller
<1>6. Len(SubSeq(FullBlock, 1, Smaller(r, BLOCK_SIZE))) = Smaller(r, BLOCK_SIZE)
  BY <1>4, <1>5, BlockAssumption
<1> QED BY <1>5, <1>6 DEF Meaningful

(* However the source answers, the block in hand is less than a block.     *)
LEMMA PollKeepsBlock ==
  ASSUME BlockFits, PollNextFrame
  PROVE  BlockFits'
<1>1. CASE ReadPart
  <2>1. PICK n \in 1..(Missing - 1) : source' = source + n /\ block' = block \o NextBytes(n)
    BY <1>1 DEF ReadPart
  <2>2. n \in Nat /\ Len(block) \in Nat /\ Len(block) + n < BLOCK_SIZE
    BY <2>1, BlockAssumption DEF Missing, BlockFits
  <2>3. NextBytes(n) \in Seq(Nat) /\ Len(NextBytes(n)) = n
    BY <2>2 DEF NextBytes, BlockFits
  <2>4. block' \in Seq(Nat) /\ Len(block') = Len(block) + n
    <3>1. block \in Seq(Nat)
      BY DEF BlockFits
    <3> HIDE DEF NextBytes
    <3> QED BY <2>1, <2>3, <3>1, ConcatProperties
  <2> QED BY <2>1, <2>2, <2>4 DEF BlockFits
<1>2. CASE ReadBlock
  <2>1. source' \in Nat
    BY <1>2, BlockAssumption DEF ReadBlock, BlockFits, Missing
  <2>2. block' = <<>> /\ <<>> \in Seq(Nat) /\ Len(<<>>) = 0
    BY <1>2 DEF ReadBlock
  <2>3. Len(block') < BLOCK_SIZE
    BY <2>2, BlockAssumption
  <2> QED BY <2>1, <2>2, <2>3 DEF BlockFits
<1>3. CASE Eof
  BY <1>3 DEF Eof, BlockFits
<1>4. CASE IoError
  BY <1>4 DEF IoError, BlockFits
<1> QED BY <1>1, <1>2, <1>3, <1>4 DEF PollNextFrame

-----------------------------------------------------------------------------
(* What can become of a block.                                             *)

Quietly == frame'.type \notin {"Pax", "Gnu", "Header", "Data"}

LEMMA NothingSeen ==
  ASSUME Quietly, Observe(frame')
  PROVE  seen' = seen
BY DEF Quietly, Observe

(* A failure adds nothing to what was seen, and ends all promises but the  *)
(* budget's.                                                               *)
LEMMA FailureKeeps ==
  ASSUME Agreement, NEW e, Fail(e), Observe(frame'), UNCHANGED global_pax_records,
         UNCHANGED global_pax_extensions_size
  PROVE  Agreement'
<1>1. state' = Failed /\ state'.phase = "Failed" /\ Quietly
  BY DEF Fail, Error, Failed, Phase, Quietly
<1>2. seen' = seen
  BY <1>1, NothingSeen
<1>3. StateShape'
  BY <1>1 DEF StateShape, ReadingPhases, Failed, Phase, AwaitingHeader
<1>4. SeenShape' /\ GlobalsSeen'
  BY <1>2 DEF Agreement, SeenShape, GlobalsSeen
<1>5. FormatKnown' /\ SizeRecords' /\ Owes' /\ Waits' /\ LocalSeen'
  BY <1>1 DEF Agreement, FormatKnown, SizeRecords, Owes, Waits, LocalSeen
<1>6. Charged'
  BY <1>1, <1>2 DEF Agreement, Charged
<1> QED BY <1>3, <1>4, <1>5, <1>6 DEF Agreement

(* A state without payload and without local records, reached without a    *)
(* frame.                                                                  *)
LEMMA RestKeeps ==
  ASSUME Agreement, Quietly, Observe(frame'), UNCHANGED <<global_pax_records, global_pax_extensions_size>>,
         state.phase \in {"AwaitingHeader", "AwaitingSecondZero"},
         state' \in {AwaitingHeader, AwaitingSecondZero, Complete}
  PROVE  Agreement'
<1>1. seen' = seen
  BY NothingSeen
<1>2. /\ state'.phase \in {"AwaitingHeader", "AwaitingSecondZero", "Complete"}
      /\ state'.phase = "AwaitingHeader" => state' = AwaitingHeader
      /\ Remaining(state') = 0 /\ Remaining(state) = 0 /\ state # Failed
      /\ Waiting(state') = {} /\ Waiting(state) = {}
  BY DEF AwaitingHeader, AwaitingSecondZero, Complete, Phase, Remaining, Waiting, Failed
<1>3. StateShape'
  BY <1>2 DEF StateShape, ReadingPhases
<1>4. SeenShape' /\ GlobalsSeen'
  BY <1>1 DEF Agreement, SeenShape, GlobalsSeen
<1>5. FormatKnown' /\ SizeRecords' /\ LocalSeen'
  BY <1>1, <1>2 DEF Agreement, FormatKnown, SizeRecords, LocalSeen
<1>6. Owes' /\ Waits'
  BY <1>1, <1>2 DEF Agreement, Owes, Waits
<1>7. Charged'
  BY <1>1, <1>2 DEF Agreement, Charged, GlobalToCome
<1> QED BY <1>3, <1>4, <1>5, <1>6, <1>7 DEF Agreement
-----------------------------------------------------------------------------
(* What the client makes of a frame.                                       *)

LEMMA ExtensionSeen ==
  ASSUME SeenShape, Observe(frame'), frame'.type \in {"Pax", "Gnu"}
  PROVE  seen' = [owed |-> frame'.size, waiting |-> seen.waiting \cup ({frame'.kind} \ {"Global"}),
                  local |-> seen.local, globals |-> seen.globals,
                  globalBytes |-> seen.globalBytes]
<1>1. seen' = [seen EXCEPT !.owed = frame'.size,
                           !.waiting = seen.waiting \cup ({frame'.kind} \ {"Global"})]
  BY DEF Observe
<1> QED BY <1>1 DEF SeenShape

LEMMA MemberSeen ==
  ASSUME SeenShape, Observe(frame'), frame'.type = "Header"
  PROVE  seen' = [owed |-> frame'.size, waiting |-> {}, local |-> NoRecords,
                  globals |-> seen.globals, globalBytes |-> seen.globalBytes]
<1>1. seen' = [seen EXCEPT !.owed = frame'.size, !.waiting = {}, !.local = NoRecords]
  BY DEF Observe
<1> HIDE DEF NoRecords
<1> QED BY <1>1 DEF SeenShape

LEMMA DataSeen ==
  ASSUME SeenShape, Observe(frame'), NEW owner, NEW bytes, NEW records,
         frame' = DataFrame(owner, bytes, records)
  PROVE  seen' = [owed |-> seen.owed - Len(bytes),
                  waiting |-> seen.waiting,
                  local |-> IF owner = "Local" /\ records # {}
                            THEN CHOOSE r \in records : TRUE ELSE seen.local,
                  globals |-> IF owner = "Global" /\ records # {}
                              THEN Append(seen.globals, CHOOSE r \in records : TRUE)
                              ELSE seen.globals,
                  globalBytes |-> IF owner = "Global" THEN seen.globalBytes + Len(bytes)
                                  ELSE seen.globalBytes]
<1>1. /\ frame'.type = "Data" /\ frame'.owner = owner /\ frame'.bytes = bytes
      /\ frame'.completed = records
  BY DEF DataFrame
<1>2. seen' = [seen EXCEPT
              !.owed = @ - Len(frame'.bytes),
              !.local = IF frame'.owner = "Local" /\ frame'.completed # {} THEN Completed(frame') ELSE @,
              !.globals = IF frame'.owner = "Global" /\ frame'.completed # {}
                          THEN Append(@, Completed(frame')) ELSE @,
              !.globalBytes = IF frame'.owner = "Global" THEN @ + Len(frame'.bytes) ELSE @]
  BY <1>1 DEF Observe
<1>3. Completed(frame') = CHOOSE r \in records : TRUE
  BY <1>1 DEF Completed
<1> QED BY <1>1, <1>2, <1>3 DEF SeenShape

-----------------------------------------------------------------------------
(* Zero blocks and headers that are rejected.                              *)

LEMMA ZeroKeeps ==
  ASSUME Agreement, ZeroBlock, Observe(frame')
  PROVE  Agreement'
<1>1. UNCHANGED <<global_pax_records, global_pax_extensions_size>>
  BY DEF ZeroBlock
<1>2. CASE state = AwaitingHeader /\ SetState(AwaitingSecondZero, Pending)
  BY <1>1, <1>2, RestKeeps DEF SetState, Pending, Quietly, AwaitingHeader, Phase
<1>3. CASE state = AwaitingSecondZero /\ SetState(Complete, End)
  BY <1>1, <1>3, RestKeeps DEF SetState, End, Quietly, AwaitingSecondZero, Phase
<1>4. CASE Fail("UnexpectedOrder")
  BY <1>1, <1>4, FailureKeeps
<1> QED BY <1>2, <1>3, <1>4 DEF ZeroBlock

LEMMA RejectionKeeps ==
  ASSUME Agreement, BadEndMarker \/ RejectedHeader, Observe(frame')
  PROVE  Agreement'
<1>1. UNCHANGED <<global_pax_records, global_pax_extensions_size>>
  BY DEF BadEndMarker, RejectedHeader
<1>2. \/ Fail("InvalidEndMarker") \/ Fail("InvalidHeader") \/ Fail("FormatMismatch")
  BY DEF BadEndMarker, RejectedHeader
<1> QED BY <1>1, <1>2, FailureKeeps

LEMMA PaxHeaderKeeps ==
  ASSUME Agreement, NEW h \in Headers, PaxHeader(h), Observe(frame')
  PROVE  Agreement'
<1> DEFINE kind == PaxKind[h.typeflag]
           total == GlobalTotal(h.size)
<1>1. kind \in PaxKinds /\ h.size \in Nat
  <2>1. kind \in PaxKinds
    BY DEF PaxHeader, PaxKind, PaxKinds
  <2>2. h.size \in Nat
    BY SizeAssumption DEF Headers
  <2> QED BY <2>1, <2>2
<1>2. global_pax_extensions_size \in Nat /\ total = global_pax_extensions_size + h.size
  BY LimitAssumption DEF Agreement, Charged, GlobalTotal
<1>3. UNCHANGED global_pax_records /\ format' = "Pax"
  BY DEF PaxHeader, AcceptFormat
<1>4. CASE /\ \E e \in {"UnexpectedOrder", "ExtensionTooLarge", "GlobalPaxExtensionsTooLarge"} : Fail(e)
           /\ UNCHANGED global_pax_extensions_size
  BY <1>3, <1>4, FailureKeeps
<1>5. CASE /\ h.size = 0
           /\ Fail("InvalidPaxRecord")
           /\ global_pax_extensions_size' =
                IF kind = "Global" THEN total ELSE global_pax_extensions_size
  <2>1. UNCHANGED global_pax_extensions_size
    BY <1>2, <1>5
  <2> QED BY <1>3, <1>5, <2>1, FailureKeeps
<1>6. CASE /\ state = AwaitingHeader
           /\ kind = "Global" => total <= MaxGlobalPaxExtensionsSize
           /\ global_pax_extensions_size' =
                IF kind = "Global" THEN total ELSE global_pax_extensions_size
           /\ h.size # 0
           /\ SetState(ReadingPax(kind, h.size), PaxFrame(kind, h.size))
  <2> HIDE DEF kind, total
  <2>1. /\ state'.phase = "ReadingPax" /\ state'.kind = kind /\ state'.remaining = h.size
        /\ frame'.type = "Pax" /\ frame'.size = h.size /\ frame'.kind = kind
    BY <1>6 DEF SetState, ReadingPax, PaxFrame
  <2>2. SeenShape
    BY DEF Agreement
  <2>3. /\ seen' = [owed |-> h.size, waiting |-> seen.waiting \cup ({kind} \ {"Global"}),
                    local |-> seen.local, globals |-> seen.globals,
                    globalBytes |-> seen.globalBytes]
        /\ seen'.owed = h.size /\ seen'.local = seen.local /\ seen'.globals = seen.globals
        /\ seen'.globalBytes = seen.globalBytes
        /\ seen'.waiting = seen.waiting \cup ({kind} \ {"Global"})
    BY <2>1, <2>2, ExtensionSeen
  <2>4. /\ state.phase = "AwaitingHeader" /\ state # Failed /\ GlobalToCome = 0
        /\ Waiting(state) = {}
    BY <1>6 DEF AwaitingHeader, Failed, Phase, GlobalToCome, Waiting
  <2>5. StateShape'
    BY <2>1, <1>1, <1>6 DEF StateShape, ReadingPhases
  <2>6. SeenShape'
    BY <2>3, <2>2, <1>1 DEF SeenShape
  <2>7. FormatKnown' /\ SizeRecords'
    BY <1>3, <2>1 DEF Agreement, FormatKnown, SizeRecords
  <2>8. Owes' /\ Waits'
    BY <2>1, <2>3, <2>4 DEF Agreement, Owes, Waits, Remaining, Waiting
  <2>9. LocalSeen'
    BY <2>1, <2>3, <2>4 DEF Agreement, LocalSeen
  <2>10. GlobalsSeen'
    BY <1>3, <2>3 DEF Agreement, GlobalsSeen
  <2>11. Charged'
    <3>1. /\ global_pax_extensions_size = seen.globalBytes
          /\ global_pax_extensions_size <= MaxGlobalPaxExtensionsSize
          /\ seen.globalBytes \in Nat
      BY <2>4, <1>2, LimitAssumption DEF Agreement, Charged, SeenShape
    <3>2. GlobalToCome' = IF kind = "Global" THEN h.size ELSE 0
      BY <2>1 DEF GlobalToCome
    <3>3. global_pax_extensions_size' = seen'.globalBytes + GlobalToCome'
      BY <3>1, <3>2, <1>1, <1>2, <1>6, <2>3
    <3>4. global_pax_extensions_size' \in 0..MaxGlobalPaxExtensionsSize
      BY <3>1, <1>1, <1>2, <1>6, LimitAssumption
    <3>5. GlobalToCome' \in Nat /\ seen'.globalBytes \in Nat
      BY <3>1, <3>2, <1>1, <2>3
    <3> HIDE DEF GlobalToCome
    <3> QED BY <3>3, <3>4, <3>5 DEF Charged
  <2> QED BY <2>5, <2>6, <2>7, <2>8, <2>9, <2>10, <2>11 DEF Agreement
<1> QED BY <1>4, <1>5, <1>6 DEF PaxHeader
-----------------------------------------------------------------------------
(* Member headers, and the extensions of the GNU family.                   *)

LEMMA PayloadStateShape ==
  ASSUME NEW n \in Nat
  PROVE  LET s == MemberPayloadState(n) IN
         /\ s.phase \in {"AwaitingHeader", "ReadingMember"}
         /\ s.phase = "AwaitingHeader" => s = AwaitingHeader
         /\ s.phase = "ReadingMember" => s.remaining \in Nat \ {0}
         /\ Remaining(s) = n /\ Waiting(s) = {}
         /\ s # Failed
BY DEF MemberPayloadState, AwaitingHeader, ReadingMember, Phase, Remaining, Waiting, Failed

(* A member header ends what was known of its extensions.                  *)
LEMMA MemberKeeps ==
  ASSUME Agreement, NEW h \in Headers, NEW n \in Nat, Observe(frame'),
         SetState(MemberPayloadState(n), HeaderFrame(h, n)),
         state.phase \in {"AwaitingHeader", "AwaitingUstarHeader", "AwaitingGnuMember"},
         UNCHANGED <<global_pax_records, global_pax_extensions_size>>
  PROVE  Agreement'
<1>1. /\ frame'.type = "Header" /\ frame'.size = n
      /\ state' = MemberPayloadState(n)
  BY DEF SetState, HeaderFrame
<1>2. SeenShape
  BY DEF Agreement
<1>3. /\ seen' = [owed |-> n, waiting |-> {}, local |-> NoRecords, globals |-> seen.globals,
                  globalBytes |-> seen.globalBytes]
      /\ seen'.owed = n /\ seen'.local = NoRecords /\ seen'.globals = seen.globals
      /\ seen'.globalBytes = seen.globalBytes /\ seen'.waiting = {}
  <2>1. seen' = [owed |-> n, waiting |-> {}, local |-> NoRecords, globals |-> seen.globals,
                 globalBytes |-> seen.globalBytes]
    BY <1>1, <1>2, MemberSeen
  <2> HIDE DEF NoRecords
  <2> QED BY <2>1
<1>4. /\ state'.phase \in {"AwaitingHeader", "ReadingMember"}
      /\ state'.phase = "AwaitingHeader" => state' = AwaitingHeader
      /\ state'.phase = "ReadingMember" => state'.remaining \in Nat \ {0}
      /\ Remaining(state') = n /\ Waiting(state') = {}
      /\ state' # Failed
  BY <1>1, PayloadStateShape
<1>5. StateShape'
  BY <1>4 DEF StateShape, ReadingPhases
<1>6. SeenShape'
  BY <1>2, <1>3 DEF SeenShape
<1>7. FormatKnown' /\ SizeRecords'
  BY <1>4 DEF Agreement, FormatKnown, SizeRecords
<1>8. Owes' /\ Waits'
  BY <1>3, <1>4 DEF Owes, Waits
<1>9. LocalSeen'
  BY <1>3, <1>4 DEF LocalSeen
<1>10. GlobalsSeen'
  BY <1>3 DEF Agreement, GlobalsSeen
<1>11. Charged'
  <2>1. state # Failed /\ GlobalToCome = 0 /\ GlobalToCome' = 0
    BY <1>4 DEF Failed, Phase, GlobalToCome
  <2> QED BY <1>3, <2>1 DEF Agreement, Charged
<1> QED BY <1>5, <1>6, <1>7, <1>8, <1>9, <1>10, <1>11 DEF Agreement

(* The local records that decide the size of the next member.              *)
Local == IF state = AwaitingHeader THEN NoRecords ELSE state.records

(* A pax family header is read where no GNU extension waits.               *)
LEMMA LocalIsSeen ==
  ASSUME Agreement, AcceptsHeader, format \in {"None", "Pax"}
  PROVE  Local = seen.local /\ SizeRecord(Local)
<1>1. state.phase \in {"AwaitingHeader", "AwaitingUstarHeader"}
  BY DEF Agreement, AcceptsHeader, FormatKnown
<1>2. CASE state.phase = "AwaitingHeader"
  <2>1. state = AwaitingHeader /\ Local = NoRecords /\ seen.local = NoRecords
    BY <1>2 DEF Agreement, StateShape, LocalSeen, Local
  <2>2. SizeRecord(NoRecords)
    BY DEF SizeRecord, NoRecords, Keywords
  <2> QED BY <2>1, <2>2
<1>3. CASE state.phase = "AwaitingUstarHeader"
  <2>1. state # AwaitingHeader
    BY <1>3 DEF AwaitingHeader, Phase
  <2> QED BY <1>3, <2>1 DEF Agreement, LocalSeen, Local, SizeRecords
<1> QED BY <1>1, <1>2, <1>3

LEMMA EffectiveSizeType ==
  ASSUME SizeRecord(global_pax_records), NEW local, SizeRecord(local), NEW declared \in Nat
  PROVE  EffectiveSize(declared, local) \in Nat \cup {Deleted}
BY RecordAssumption DEF SizeRecord, EffectiveSize, EffectiveRecord

LEMMA UstarHeaderKeeps ==
  ASSUME Agreement, AcceptsHeader, NEW h \in Headers, UstarHeader(h), Observe(frame')
  PROVE  Agreement'
<1> DEFINE size == EffectiveSize(h.size, Local)
<1>1. /\ UNCHANGED <<global_pax_records, global_pax_extensions_size>>
      /\ format \in {"None", "Pax"} /\ h.size \in Nat
  BY SizeAssumption DEF UstarHeader, AcceptFormat, Headers
<1>2. size \in Nat \cup {Deleted}
  BY <1>1, LocalIsSeen, EffectiveSizeType DEF Agreement, SizeRecords
<1>3. \/ Fail("InvalidMember")
      \/ size # Deleted /\ SetState(MemberPayloadState(size), HeaderFrame(h, size))
  <2>1. size = EffectiveSize(h.size, IF state = AwaitingHeader THEN NoRecords ELSE state.records)
    BY DEF Local
  <2> HIDE DEF size
  <2> QED BY <2>1 DEF UstarHeader
<1>4. CASE Fail("InvalidMember")
  BY <1>1, <1>4, FailureKeeps
<1>5. CASE size # Deleted /\ SetState(MemberPayloadState(size), HeaderFrame(h, size))
  <2> HIDE DEF size
  <2>1. size \in Nat
    BY <1>2, <1>5
  <2> QED BY <1>1, <1>5, <2>1, MemberKeeps DEF AcceptsHeader
<1> QED BY <1>3, <1>4, <1>5

LEMMA GnuHeaderKeeps ==
  ASSUME Agreement, AcceptsHeader, NEW h \in Headers, GnuHeader(h), Observe(frame')
  PROVE  Agreement'
<1>1. /\ UNCHANGED <<global_pax_records, global_pax_extensions_size>> /\ h.size \in Nat
  BY SizeAssumption DEF GnuHeader, Headers
<1>2. CASE Fail("InvalidMember")
  BY <1>1, <1>2, FailureKeeps
<1>3. CASE SetState(MemberPayloadState(h.size), HeaderFrame(h, h.size))
  BY <1>1, <1>3, MemberKeeps DEF AcceptsHeader
<1> QED BY <1>2, <1>3 DEF GnuHeader

LEMMA GnuExtensionKeeps ==
  ASSUME Agreement, AcceptsHeader, NEW h \in Headers, GnuExtension(h), Observe(frame')
  PROVE  Agreement'
<1> DEFINE kind == GnuKind[h.typeflag]
           pending == PendingGnu \cup {kind}
<1>1. kind \in GnuKinds /\ h.size \in Nat
  <2>1. kind \in GnuKinds
    BY DEF GnuExtension, GnuKind, GnuKinds
  <2>2. h.size \in Nat
    BY SizeAssumption DEF Headers
  <2> QED BY <2>1, <2>2
<1>2. /\ UNCHANGED <<global_pax_records, global_pax_extensions_size>>
      /\ format \in {"None", "Gnu"} /\ format' = "Gnu"
  BY DEF GnuExtension, AcceptFormat
<1>3. CASE Fail("UnexpectedOrder") \/ Fail("ExtensionTooLarge")
  BY <1>2, <1>3, FailureKeeps
<1>4. CASE SetState(IF h.size = 0 THEN AwaitingGnuMember(pending)
                                  ELSE ReadingGnu(kind, h.size, pending),
                    GnuFrame(kind, h.size))
  <2> HIDE DEF kind, pending
  <2>1. frame'.type = "Gnu" /\ frame'.size = h.size /\ frame'.kind = kind
    BY <1>4 DEF SetState, GnuFrame
  <2>2. /\ state'.phase \in {"AwaitingGnuMember", "ReadingGnu"}
        /\ state'.phase = "ReadingGnu" => state'.remaining \in Nat \ {0} /\ state'.kind = kind
        /\ Remaining(state') = h.size /\ Waiting(state') = pending
    BY <1>1, <1>4 DEF SetState, AwaitingGnuMember, ReadingGnu, Remaining, Waiting
  <2>3. SeenShape
    BY DEF Agreement
  <2>4. /\ seen' = [owed |-> h.size, waiting |-> seen.waiting \cup ({kind} \ {"Global"}),
                    local |-> seen.local, globals |-> seen.globals,
                    globalBytes |-> seen.globalBytes]
        /\ seen'.owed = h.size /\ seen'.local = seen.local /\ seen'.globals = seen.globals
        /\ seen'.globalBytes = seen.globalBytes
        /\ seen'.waiting = seen.waiting \cup ({kind} \ {"Global"})
    BY <2>1, <2>3, ExtensionSeen
  <2>5. /\ state.phase \in {"AwaitingHeader", "AwaitingGnuMember"}
        /\ state # Failed /\ GlobalToCome = 0 /\ GlobalToCome' = 0
    BY <1>2, <2>2 DEF Agreement, FormatKnown, AcceptsHeader, Failed, Phase, GlobalToCome
  <2>6. StateShape'
    BY <1>1, <2>2 DEF StateShape, ReadingPhases
  <2>7. SeenShape'
    BY <1>1, <2>3, <2>4 DEF SeenShape
  <2>8. FormatKnown' /\ SizeRecords'
    BY <1>2, <2>2 DEF Agreement, FormatKnown, SizeRecords
  <2>9. Owes' /\ Waits'
    <3>1. Waiting(state) = PendingGnu
      <4>1. CASE state.phase = "AwaitingHeader"
        <5>1. state = AwaitingHeader
          BY <4>1 DEF Agreement, StateShape
        <5> QED BY <4>1, <5>1 DEF Waiting, PendingGnu
      <4>2. CASE state.phase = "AwaitingGnuMember"
        BY <4>2 DEF Waiting, PendingGnu, AwaitingHeader, Phase
      <4> QED BY <2>5, <4>1, <4>2
    <3>2. {kind} \ {"Global"} = {kind}
      BY <1>1 DEF GnuKinds
    <3>3. seen'.waiting = pending
      BY <2>4, <2>5, <3>1, <3>2 DEF Agreement, Waits, pending
    <3> QED BY <2>2, <2>4, <3>3 DEF Owes, Waits
  <2>10. LocalSeen'
    BY <2>2, <2>4, <2>5 DEF Agreement, LocalSeen
  <2>11. GlobalsSeen'
    BY <1>2, <2>4 DEF Agreement, GlobalsSeen
  <2>12. Charged'
    BY <1>2, <2>4, <2>5 DEF Agreement, Charged
  <2> QED BY <2>6, <2>7, <2>8, <2>9, <2>10, <2>11, <2>12 DEF Agreement
<1> QED BY <1>3, <1>4 DEF GnuExtension

LEMMA HeaderKeeps ==
  ASSUME Agreement, Header, Observe(frame')
  PROVE  Agreement'
BY PaxHeaderKeeps, UstarHeaderKeeps, GnuExtensionKeeps, GnuHeaderKeeps DEF Header
-----------------------------------------------------------------------------
(* Data.                                                                   *)

(* A global payload that parsed joins the others, and what it sets is in   *)
(* force from now on.                                                      *)
LEMMA AppendedGlobal ==
  ASSUME NEW globals \in Seq(PaxPayloads), NEW records \in PaxPayloads, NEW global,
         \A keyword \in Keywords : InForce(globals, keyword, global[keyword]),
         NEW keyword \in Keywords
  PROVE  InForce(Append(globals, records), keyword, ApplyGlobal(records, global)[keyword])
<1> DEFINE more == Append(globals, records)
           n == Len(globals)
           value == ApplyGlobal(records, global)[keyword]
<1>1. n \in Nat /\ Len(more) = n + 1 /\ more[n + 1] = records
      /\ \A i \in 1..n : more[i] = globals[i]
  OBVIOUS
<1>2. value = IF records[keyword] # Absent THEN records[keyword] ELSE global[keyword]
  BY DEF ApplyGlobal, EffectiveRecord
<1> HIDE DEF more, n, value
<1>3. CASE records[keyword] # Absent
  <2>1. n + 1 \in SetBy(more, keyword) /\ \A i \in SetBy(more, keyword) : i <= n + 1
    BY <1>1, <1>3 DEF SetBy
  <2>2. value = more[n + 1][keyword]
    BY <1>1, <1>2, <1>3
  <2>3. InForce(more, keyword, value)
    BY <2>1, <2>2 DEF InForce
  <2> QED BY <2>3 DEF more, value
<1>4. CASE records[keyword] = Absent
  <2>1. SetBy(more, keyword) = SetBy(globals, keyword)
    BY <1>1, <1>4 DEF SetBy, n
  <2>2. \A i \in SetBy(globals, keyword) : more[i][keyword] = globals[i][keyword]
    BY <1>1 DEF SetBy, n
  <2>3. InForce(globals, keyword, global[keyword]) /\ value = global[keyword]
    BY <1>2, <1>4
  <2>4. InForce(more, keyword, value)
    BY <2>1, <2>2, <2>3 DEF InForce
  <2> QED BY <2>4 DEF more, value
<1> QED BY <1>3, <1>4

(* A data frame whose payload goes on, or ends without records.            *)
LEMMA DataKeeps ==
  ASSUME Agreement, BlockFits, Observe(frame'), NEW owner,
         state.phase \in ReadingPhases,
         frame' = DataFrame(owner, Meaningful(state.remaining), {}),
         state'.phase \in {"AwaitingHeader", "AwaitingGnuMember"} \cup ReadingPhases,
         state'.phase = "AwaitingHeader" => state' = AwaitingHeader,
         state'.phase \in ReadingPhases =>
           state'.phase = state.phase /\ state'.remaining \in Nat \ {0},
         state'.phase \in {"ReadingPax", "ReadingGnu"} => state'.kind = state.kind,
         state'.phase = "AwaitingGnuMember" => state.phase = "ReadingGnu",
         state.phase = "ReadingPax" => state'.phase = "ReadingPax",
         state'.phase \in {"ReadingGnu", "AwaitingGnuMember"} => state'.pending = state.pending,
         state'.phase = "AwaitingHeader" => state.phase = "ReadingMember",
         Remaining(state') = state.remaining - Smaller(state.remaining, BLOCK_SIZE),
         (owner = "Global") <=> (state.phase = "ReadingPax" /\ state.kind = "Global"),
         UNCHANGED <<format, global_pax_records, global_pax_extensions_size>>
  PROVE  Agreement'
<1> DEFINE n == Smaller(state.remaining, BLOCK_SIZE)
<1>1. /\ SeenShape /\ StateShape
      /\ state.remaining \in Nat \ {0} /\ state # Failed /\ Remaining(state) = state.remaining
  BY DEF Agreement, StateShape, ReadingPhases, Failed, Phase, Remaining
<1>2. Len(Meaningful(state.remaining)) = n /\ n \in 1..state.remaining
  BY <1>1, MeaningfulLength
<1> HIDE DEF n
<1>3. /\ seen'.owed = seen.owed - n /\ seen'.local = seen.local /\ seen'.globals = seen.globals
      /\ seen'.globalBytes = IF owner = "Global" THEN seen.globalBytes + n ELSE seen.globalBytes
      /\ seen'.waiting = seen.waiting
      /\ seen' = [owed |-> seen'.owed, waiting |-> seen'.waiting, local |-> seen'.local,
                  globals |-> seen'.globals, globalBytes |-> seen'.globalBytes]
  <2>1. seen' = [owed |-> seen.owed - n, waiting |-> seen.waiting, local |-> seen.local,
                 globals |-> seen.globals,
                 globalBytes |-> IF owner = "Global" THEN seen.globalBytes + n
                                 ELSE seen.globalBytes]
    BY <1>1, <1>2, DataSeen
  <2> QED BY <2>1
<1>4. seen.owed = state.remaining /\ seen.owed \in Nat /\ seen.globalBytes \in Nat
  BY <1>1 DEF Agreement, Owes, SeenShape
<1>5. StateShape'
  BY <1>1 DEF StateShape, ReadingPhases, Failed, Phase
<1>6. SeenShape'
  BY <1>1, <1>2, <1>3, <1>4 DEF SeenShape
<1>7. FormatKnown' /\ SizeRecords'
  BY DEF Agreement, FormatKnown, SizeRecords, ReadingPhases
<1>8. Owes' /\ Waits'
  <2>1. Waiting(state') = Waiting(state)
    BY <1>1 DEF StateShape, ReadingPhases, Waiting
  <2> QED BY <1>1, <1>3, <1>4, <2>1 DEF Agreement, Owes, Waits, n
<1>9. LocalSeen'
  BY <1>3 DEF Agreement, LocalSeen, ReadingPhases
<1>10. GlobalsSeen'
  BY <1>3 DEF Agreement, GlobalsSeen
<1>11. Charged'
  <2>1. global_pax_extensions_size = seen.globalBytes + GlobalToCome
        /\ global_pax_extensions_size \in 0..MaxGlobalPaxExtensionsSize
    BY <1>1 DEF Agreement, Charged
  <2>2. CASE owner = "Global"
    <3>1. /\ state'.phase = "ReadingPax" /\ state'.kind = "Global"
          /\ state'.remaining = state.remaining - n
      BY <2>2 DEF Remaining, n
    <3>2. GlobalToCome = state.remaining /\ GlobalToCome' = state.remaining - n
      BY <2>2, <3>1 DEF GlobalToCome
    <3> QED BY <1>1, <1>2, <1>3, <1>4, <2>1, <2>2, <3>2 DEF Charged
  <2>3. CASE owner # "Global"
    <3>1. GlobalToCome = 0
      BY <2>3 DEF GlobalToCome
    <3>2. GlobalToCome' = 0
      BY <2>3, <1>1 DEF GlobalToCome, ReadingPhases
    <3> QED BY <1>3, <1>4, <2>1, <2>3, <3>1, <3>2 DEF Charged
  <2> QED BY <2>2, <2>3
<1> QED BY <1>5, <1>6, <1>7, <1>8, <1>9, <1>10, <1>11 DEF Agreement

LEMMA MemberDataKeeps ==
  ASSUME Agreement, BlockFits, MemberData, Observe(frame')
  PROVE  Agreement'
<1> DEFINE n == Smaller(state.remaining, BLOCK_SIZE)
           left == state.remaining - n
<1>1. /\ state.phase = "ReadingMember" /\ state.remaining \in Nat \ {0}
      /\ state' = MemberPayloadState(left)
      /\ frame' = DataFrame("Member", Meaningful(state.remaining), {})
      /\ UNCHANGED <<format, global_pax_records, global_pax_extensions_size>>
  BY DEF Agreement, StateShape, ReadingPhases, MemberData, SetState
<1>2. left \in Nat
  BY <1>1, MeaningfulLength
<1> HIDE DEF left
<1>3. /\ state'.phase \in {"AwaitingHeader", "ReadingMember"}
      /\ state'.phase = "AwaitingHeader" => state' = AwaitingHeader
      /\ state'.phase = "ReadingMember" => state'.remaining \in Nat \ {0}
      /\ Remaining(state') = left
  BY <1>1, <1>2, PayloadStateShape
<1> QED BY <1>1, <1>3, DataKeeps DEF ReadingPhases, left

LEMMA GnuDataKeeps ==
  ASSUME Agreement, BlockFits, GnuData, Observe(frame')
  PROVE  Agreement'
<1> DEFINE n == Smaller(state.remaining, BLOCK_SIZE)
           left == state.remaining - n
<1>1. /\ state.phase = "ReadingGnu" /\ state.remaining \in Nat \ {0}
      /\ state' = IF left = 0 THEN AwaitingGnuMember(state.pending)
                              ELSE ReadingGnu(state.kind, left, state.pending)
      /\ frame' = DataFrame(state.kind, Meaningful(state.remaining), {})
      /\ UNCHANGED <<format, global_pax_records, global_pax_extensions_size>>
      /\ state.kind # "Global"
  BY DEF Agreement, StateShape, ReadingPhases, GnuData, SetState, GnuKinds
<1>2. left \in Nat
  BY <1>1, MeaningfulLength
<1> HIDE DEF left
<1>3. /\ state'.phase \in {"AwaitingGnuMember", "ReadingGnu"}
      /\ state'.phase = "ReadingGnu" => state'.remaining \in Nat \ {0} /\ state'.kind = state.kind
      /\ Remaining(state') = left /\ state'.pending = state.pending
  BY <1>1, <1>2 DEF AwaitingGnuMember, ReadingGnu, Remaining
<1> QED BY <1>1, <1>3, DataKeeps DEF ReadingPhases, left
(* The last block of a pax payload, when its records parse.                *)
LEMMA RecordsKeep ==
  ASSUME Agreement, BlockFits, Observe(frame'),
         state.phase = "ReadingPax", state.remaining <= BLOCK_SIZE,
         NEW records \in PaxPayloads, PaxRecordsParsed(records),
         UNCHANGED <<format, global_pax_extensions_size>>
  PROVE  Agreement'
<1>1. /\ SeenShape /\ state.remaining \in Nat \ {0} /\ state # Failed
      /\ Remaining(state) = state.remaining /\ state.kind \in {"Local", "Global"}
  BY DEF Agreement, StateShape, ReadingPhases, Failed, Phase, Remaining, PaxKinds
<1>2. Smaller(state.remaining, BLOCK_SIZE) = state.remaining
  BY <1>1, BlockAssumption DEF Smaller
<1>3. Len(Meaningful(state.remaining)) = state.remaining
  BY <1>1, <1>2, MeaningfulLength
<1>4. /\ seen.owed = state.remaining /\ seen.globalBytes \in Nat /\ seen.local = NoRecords
      /\ seen.globals \in Seq(PaxPayloads) /\ format = "Pax"
  BY <1>1 DEF Agreement, Owes, SeenShape, LocalSeen, FormatKnown
<1>5. SizeRecord(records)
  BY RecordAssumption DEF SizeRecord
<1>6. seen' = [owed |-> seen.owed - state.remaining,
               waiting |-> seen.waiting,
               local |-> IF state.kind = "Local" THEN records ELSE seen.local,
               globals |-> IF state.kind = "Global" THEN Append(seen.globals, records)
                           ELSE seen.globals,
               globalBytes |-> IF state.kind = "Global" THEN seen.globalBytes + state.remaining
                               ELSE seen.globalBytes]
  <2>1. frame' = DataFrame(state.kind, Meaningful(state.remaining), {records})
    BY DEF PaxRecordsParsed
  <2>2. {records} # {} /\ (CHOOSE r \in {records} : TRUE) = records
    OBVIOUS
  <2> QED BY <1>1, <1>3, <2>1, <2>2, DataSeen
<1>7. global_pax_extensions_size = seen.globalBytes + GlobalToCome
      /\ global_pax_extensions_size \in 0..MaxGlobalPaxExtensionsSize
  BY <1>1 DEF Agreement, Charged
<1>8. CASE state.kind = "Local"
  <2>1. state' = AwaitingUstarHeader(records) /\ UNCHANGED global_pax_records
    BY <1>8 DEF PaxRecordsParsed
  <2>2. /\ state'.phase = "AwaitingUstarHeader" /\ state'.records = records
        /\ Remaining(state') = 0 /\ Waiting(state') = {"Local"} /\ Waiting(state) = {"Local"}
    BY <1>8, <2>1 DEF AwaitingUstarHeader, Remaining, Waiting
  <2>3. /\ seen' = [owed |-> 0, waiting |-> seen.waiting, local |-> records,
                    globals |-> seen.globals, globalBytes |-> seen.globalBytes]
        /\ seen'.waiting = seen.waiting /\ seen'.owed = 0 /\ seen'.local = records /\ seen'.globals = seen.globals
        /\ seen'.globalBytes = seen.globalBytes
    BY <1>1, <1>4, <1>6, <1>8
  <2>4. StateShape'
    BY <2>2 DEF StateShape, ReadingPhases
  <2>5. SeenShape'
    BY <1>4, <2>3 DEF SeenShape
  <2>6. FormatKnown' /\ SizeRecords'
    BY <1>4, <1>5, <2>1, <2>2 DEF Agreement, FormatKnown, SizeRecords, SizeRecord
  <2>7. Owes' /\ Waits' /\ LocalSeen'
    BY <1>1, <2>2, <2>3 DEF Agreement, Owes, Waits, LocalSeen
  <2>8. GlobalsSeen'
    BY <2>1, <2>3 DEF Agreement, GlobalsSeen
  <2>9. Charged'
    BY <1>4, <1>7, <1>8, <2>2, <2>3 DEF Charged, GlobalToCome
  <2> QED BY <2>4, <2>5, <2>6, <2>7, <2>8, <2>9 DEF Agreement
<1>9. CASE state.kind = "Global"
  <2>1. state' = AwaitingHeader /\ global_pax_records' = ApplyGlobal(records, global_pax_records)
    BY <1>9 DEF PaxRecordsParsed
  <2>2. /\ state'.phase = "AwaitingHeader" /\ Remaining(state') = 0
        /\ Waiting(state') = {} /\ Waiting(state) = {}
    BY <1>9, <2>1 DEF AwaitingHeader, Phase, Remaining, Waiting
  <2>3. /\ seen' = [owed |-> 0, waiting |-> seen.waiting, local |-> NoRecords,
                    globals |-> Append(seen.globals, records),
                    globalBytes |-> seen.globalBytes + state.remaining]
        /\ seen'.waiting = seen.waiting /\ seen'.owed = 0 /\ seen'.local = NoRecords
        /\ seen'.globals = Append(seen.globals, records)
        /\ seen'.globalBytes = seen.globalBytes + state.remaining
    <3> DEFINE all == Append(seen.globals, records)
               bytes == seen.globalBytes + state.remaining
    <3> HIDE DEF NoRecords, all, bytes
    <3>1. seen.owed - state.remaining = 0
      BY <1>1, <1>4
    <3>2. seen' = [owed |-> 0, waiting |-> seen.waiting, local |-> NoRecords, globals |-> all,
                   globalBytes |-> bytes]
      BY <1>4, <1>6, <1>9, <3>1 DEF all, bytes
    <3> QED BY <3>2 DEF all, bytes
  <2>4. StateShape'
    BY <2>1, <2>2 DEF StateShape, ReadingPhases
  <2>5. SeenShape'
    BY <1>1, <1>4, <2>3 DEF SeenShape
  <2>6. FormatKnown' /\ LocalSeen'
    BY <2>2, <2>3 DEF FormatKnown, LocalSeen
  <2>7. SizeRecords'
    <3>1. global_pax_records'["size"] =
            IF records["size"] # Absent THEN records["size"] ELSE global_pax_records["size"]
      BY <2>1 DEF ApplyGlobal, EffectiveRecord, Keywords
    <3>2. SizeRecord(global_pax_records)
      BY DEF Agreement, SizeRecords
    <3> QED BY <1>5, <2>2, <3>1, <3>2 DEF SizeRecords, SizeRecord
  <2>8. Owes' /\ Waits'
    BY <1>1, <2>2, <2>3 DEF Agreement, Owes, Waits
  <2>9. GlobalsSeen'
    <3>1. \A keyword \in Keywords : InForce(seen.globals, keyword, global_pax_records[keyword])
      BY DEF Agreement, GlobalsSeen
    <3>2. \A keyword \in Keywords :
            InForce(Append(seen.globals, records), keyword,
                    ApplyGlobal(records, global_pax_records)[keyword])
      BY <1>4, <3>1, AppendedGlobal
    <3> QED BY <2>1, <2>3, <3>2 DEF GlobalsSeen
  <2>10. Charged'
    <3>1. GlobalToCome = state.remaining /\ GlobalToCome' = 0
      BY <1>9, <2>2 DEF GlobalToCome
    <3> QED BY <1>1, <1>4, <1>7, <2>3, <3>1 DEF Charged
  <2> QED BY <2>4, <2>5, <2>6, <2>7, <2>8, <2>9, <2>10 DEF Agreement
<1> QED BY <1>1, <1>8, <1>9

LEMMA PaxDataKeeps ==
  ASSUME Agreement, BlockFits, PaxData, Observe(frame')
  PROVE  Agreement'
<1>1. /\ state.phase = "ReadingPax" /\ state.remaining \in Nat \ {0}
      /\ UNCHANGED <<format, global_pax_extensions_size>>
  BY DEF Agreement, StateShape, ReadingPhases, PaxData
<1>2. CASE /\ state.remaining > BLOCK_SIZE
           /\ SetState(ReadingPax(state.kind, state.remaining - BLOCK_SIZE),
                       DataFrame(state.kind, Meaningful(state.remaining), {}))
           /\ UNCHANGED global_pax_records
  <2>1. Smaller(state.remaining, BLOCK_SIZE) = BLOCK_SIZE
    BY <1>1, <1>2, BlockAssumption DEF Smaller
  <2>2. /\ state'.phase = "ReadingPax" /\ state'.kind = state.kind
        /\ state'.remaining = state.remaining - BLOCK_SIZE
        /\ frame' = DataFrame(state.kind, Meaningful(state.remaining), {})
    BY <1>2 DEF SetState, ReadingPax
  <2>3. state'.remaining \in Nat \ {0} /\ Remaining(state') = state'.remaining
    BY <1>1, <1>2, <2>2, BlockAssumption DEF Remaining
  <2> QED BY <1>1, <1>2, <2>1, <2>2, <2>3, DataKeeps DEF ReadingPhases
<1>3. CASE /\ state.remaining <= BLOCK_SIZE
           /\ \E records \in PaxPayloads : PaxRecordsParsed(records)
  BY <1>1, <1>3, RecordsKeep
<1>4. CASE Fail("InvalidPaxRecord") /\ UNCHANGED global_pax_records
  BY <1>1, <1>4, FailureKeeps
<1> QED BY <1>2, <1>3, <1>4 DEF PaxData

-----------------------------------------------------------------------------
(* The invariant.                                                          *)

LEMMA PollKeeps ==
  ASSUME StreamInv, Poll, Observe(frame')
  PROVE  StreamInv'
<1>1. BlockFits' /\ CallWaits'
  BY PollKeepsBlock DEF StreamInv, Poll, CallWaits
<1>2. Agreement /\ BlockFits /\ PollNextFrame
  BY DEF StreamInv, Poll
<1>3. CASE ReadPart
  <2>1. UNCHANGED <<format, global_pax_records, global_pax_extensions_size, state>> /\ Quietly
    BY <1>3 DEF ReadPart, Pending, Quietly
  <2>2. seen' = seen
    BY <2>1, NothingSeen
  <2> QED BY <1>1, <1>2, <2>1, <2>2
       DEF StreamInv, Agreement, StateShape, SeenShape, FormatKnown, SizeRecords, SizeRecord,
           Owes, Waits, LocalSeen, Charged, GlobalToCome, GlobalsSeen
<1>4. CASE ReadBlock /\ ProcessBlock
  BY <1>1, <1>2, <1>4, ZeroKeeps, RejectionKeeps, HeaderKeeps, PaxDataKeeps, GnuDataKeeps,
     MemberDataKeeps DEF StreamInv, ProcessBlock
<1>5. CASE Eof \/ IoError
  <2>1. \E e : Fail(e)
    BY <1>5 DEF Eof, IoError
  <2>2. UNCHANGED global_pax_records /\ UNCHANGED global_pax_extensions_size
    BY <1>5 DEF Eof, IoError
  <2> QED BY <1>1, <1>2, <2>1, <2>2, FailureKeeps DEF StreamInv
<1> QED BY <1>2, <1>3, <1>4, <1>5 DEF PollNextFrame

LEMMA StreamInvInit == ClientInit => StreamInv
<1> SUFFICES ASSUME ClientInit PROVE StreamInv
  OBVIOUS
<1>1. BlockFits /\ CallWaits
  BY BlockAssumption DEF ClientInit, StreamInit, BlockFits, CallWaits
<1>2. StateShape /\ FormatKnown /\ Owes /\ Waits
  BY DEF ClientInit, StreamInit, StateShape, ReadingPhases, AwaitingHeader, Phase, FormatKnown,
         Owes, Remaining, Waits, Waiting, Failed
<1>3. SeenShape
  <2>1. <<>> \in Seq(PaxPayloads)
    OBVIOUS
  <2> HIDE DEF NoRecords
  <2> QED BY <2>1 DEF ClientInit, SeenShape
<1>4. SizeRecords /\ LocalSeen /\ Charged
  BY LimitAssumption DEF ClientInit, StreamInit, AwaitingHeader, Phase, SizeRecords, SizeRecord,
     NoRecords, Keywords, LocalSeen, Charged, GlobalToCome
<1>5. GlobalsSeen
  <2>1. seen.globals = <<>> /\ \A keyword \in Keywords : global_pax_records[keyword] = Absent
    BY DEF ClientInit, StreamInit, NoRecords
  <2>2. Len(<<>>) = 0 /\ 1..0 = {}
    OBVIOUS
  <2>3. \A keyword : SetBy(<<>>, keyword) = {}
    BY <2>2 DEF SetBy
  <2> QED BY <2>1, <2>3 DEF GlobalsSeen, InForce
<1> QED BY <1>1, <1>2, <1>3, <1>4, <1>5 DEF StreamInv, Agreement

LEMMA StreamInvStep == StreamInv /\ [ClientNext]_clientVars => StreamInv'
<1> SUFFICES ASSUME StreamInv, [ClientNext]_clientVars PROVE StreamInv'
  OBVIOUS
<1>1. CASE Poll /\ Observe(frame')
  BY <1>1, PollKeeps
<1>2. ASSUME UNCHANGED <<source, block, format, global_pax_records, global_pax_extensions_size,
                         state>>,
             seen' = seen, CallWaits'
      PROVE  StreamInv'
  BY <1>2 DEF StreamInv, BlockFits, Agreement, StateShape, SeenShape, FormatKnown, SizeRecords,
       SizeRecord, Owes, Waits, LocalSeen, Charged, GlobalToCome, GlobalsSeen
<1>3. CASE NextFrame /\ Observe(frame')
  <2>1. Quietly
    BY <1>3 DEF NextFrame, End, Pending, Quietly
  <2>2. CallWaits'
    BY <1>3 DEF NextFrame, CallWaits
  <2> QED BY <1>2, <1>3, <2>1, <2>2, NothingSeen DEF NextFrame
<1>4. CASE Cancel /\ Observe(frame')
  <2>1. frame' = Pending
    BY <1>4 DEF Cancel, streamVars, StreamInv, CallWaits
  <2>2. Quietly
    BY <2>1 DEF Pending, Quietly
  <2>3. CallWaits'
    BY <1>4 DEF Cancel, CallWaits
  <2> QED BY <1>2, <1>4, <2>2, <2>3, NothingSeen DEF Cancel, streamVars
<1>5. CASE UNCHANGED clientVars
  BY <1>2, <1>5 DEF clientVars, streamVars, StreamInv, CallWaits
<1> QED BY <1>1, <1>3, <1>4, <1>5 DEF ClientNext

(* Everything the parser decides by is what its client concludes: payload  *)
(* to come, local records, global records, budget, whatever the archive.   *)
THEOREM StreamInvariant == ClientSpec => []StreamInv
<1>1. ClientInit => StreamInv
  BY StreamInvInit
<1>2. StreamInv /\ [ClientNext]_clientVars => StreamInv'
  BY StreamInvStep
<1> QED BY <1>1, <1>2, PTL DEF ClientSpec

(* The frames tell how much payload is to come and which extensions wait   *)
(* for their member; at the end of the archive there is neither payload to *)
(* come nor an extension, pax or GNU, without its member.                  *)
THEOREM PayloadIsOwed == ClientSpec => []PayloadOwed
<1>1. StreamInv => PayloadOwed
  BY DEF StreamInv, Agreement, Owes, Waits, PayloadOwed, Complete, Phase, Failed, Remaining,
     Waiting
<1> QED BY <1>1, StreamInvariant, PTL

(* The budget for global headers is what was handed out and announced.     *)
THEOREM BudgetIsKept == ClientSpec => []GlobalBudget
<1>1. StreamInv => GlobalBudget
  <2> SUFFICES ASSUME StreamInv PROVE GlobalBudget
    OBVIOUS
  <2>1. /\ global_pax_extensions_size \in 0..MaxGlobalPaxExtensionsSize
        /\ seen.globalBytes <= global_pax_extensions_size /\ seen.globalBytes \in Nat
    BY DEF StreamInv, Agreement, Charged, SeenShape
  <2>2. seen.globalBytes <= MaxGlobalPaxExtensionsSize
    BY <2>1, LimitAssumption
  <2> QED BY <2>2 DEF StreamInv, Agreement, Charged, GlobalToCome, GlobalBudget
<1> QED BY <1>1, StreamInvariant, PTL

-----------------------------------------------------------------------------
(* The size of the next member.                                            *)

LEMMA LastIsInForce ==
  ASSUME NEW keyword, NEW value, InForce(seen.globals, keyword, value),
         seen.globals \in Seq(PaxPayloads)
  PROVE  LastGlobal(keyword) = value
<1> DEFINE at == SetBy(seen.globals, keyword)
<1>1. LastGlobal(keyword) =
        IF at = {} THEN Absent
        ELSE seen.globals[CHOOSE i \in at : \A j \in at : j <= i][keyword]
  BY DEF LastGlobal, SetBy
<1>2. at \subseteq Nat
  BY DEF SetBy
<1> HIDE DEF at
<1>3. CASE at = {}
  BY <1>1, <1>3 DEF InForce, at
<1>4. ASSUME NEW last \in at, \A i \in at : i <= last, value = seen.globals[last][keyword]
      PROVE  LastGlobal(keyword) = value
  <2>1. (CHOOSE i \in at : \A j \in at : j <= i) = last
    <3>1. \A i \in at : (\A j \in at : j <= i) => i = last
      BY <1>2, <1>4
    <3> QED BY <1>4, <3>1
  <2> QED BY <1>1, <1>4, <2>1
<1> QED BY <1>3, <1>4 DEF InForce, at

(* The size a reader of the frames computes for a member of a header h:    *)
(* the local record, else the last global one, else the header's own.      *)
SizeRead(h) ==
  LET local  == seen.local["size"]
      record == IF local # Absent THEN local ELSE LastGlobal("size")
  IN  IF h.format = "Pax" /\ record # Absent THEN record ELSE h.size

(* A member header in the pax family announces that size.                  *)
LEMMA UstarSize ==
  ASSUME StreamInv, AcceptsHeader, NEW h \in Headers, UstarHeader(h), frame'.type = "Header"
  PROVE  /\ frame'.format = h.format /\ frame'.declared = h.size
         /\ SizeRead(h) # Deleted /\ frame'.size = SizeRead(h)
<1>1. Agreement /\ format \in {"None", "Pax"} /\ h.format = "Pax"
  BY DEF StreamInv, UstarHeader, AcceptFormat
<1>2. Local = seen.local
  BY <1>1, LocalIsSeen
<1>3. LastGlobal("size") = global_pax_records["size"]
  BY <1>1, LastIsInForce DEF Agreement, GlobalsSeen, SeenShape, Keywords
<1> DEFINE size == EffectiveSize(h.size, Local)
<1>4. /\ size # Deleted /\ frame'.size = size
      /\ frame'.format = h.format /\ frame'.declared = h.size
  <2>1. size = EffectiveSize(h.size, IF state = AwaitingHeader THEN NoRecords ELSE state.records)
    BY DEF Local
  <2> HIDE DEF size
  <2>2. \/ Fail("InvalidMember")
        \/ size # Deleted /\ SetState(MemberPayloadState(size), HeaderFrame(h, size))
    BY <2>1 DEF UstarHeader
  <2> QED BY <2>2 DEF Fail, Error, SetState, HeaderFrame
<1>5. SizeRead(h) = size
  BY <1>1, <1>2, <1>3, RecordAssumption DEF SizeRead, EffectiveSize, EffectiveRecord
<1> QED BY <1>4, <1>5

(* A member header in the GNU family announces its own size.               *)
LEMMA GnuSize ==
  ASSUME NEW h \in Headers, GnuHeader(h), frame'.type = "Header"
  PROVE  /\ frame'.format = h.format /\ frame'.declared = h.size
         /\ SizeRead(h) # Deleted /\ frame'.size = SizeRead(h)
<1>1. h.format = "Gnu" /\ h.size # Deleted
  BY SizeAssumption, RecordAssumption DEF GnuHeader, Headers
<1>2. SetState(MemberPayloadState(h.size), HeaderFrame(h, h.size))
  BY DEF GnuHeader, Fail, Error
<1> QED BY <1>1, <1>2 DEF SetState, HeaderFrame, SizeRead

(* Whatever mixture of local and global records came before, the size the  *)
(* parser announces is the one a reader of the frames computes, the        *)
(* header's own where no record is in force.                               *)
THEOREM SizesAreFromFrames == ClientSpec => SizeFromFrames
<1> DEFINE Read ==
      LET local  == seen.local["size"]
          record == IF local # Absent THEN local ELSE LastGlobal("size")
          size   == IF frame'.format = "Pax" /\ record # Absent
                    THEN record ELSE frame'.declared
      IN  size # Deleted /\ frame'.size = size
<1>1. StreamInv /\ [ClientNext]_clientVars =>
        [ frame'.type = "Header" /\ frame' # frame => Read ]_clientVars
  <2> SUFFICES ASSUME StreamInv, ClientNext, frame'.type = "Header", frame' # frame
               PROVE  Read
    OBVIOUS
  <2>1. Poll
    BY DEF ClientNext, NextFrame, Cancel, streamVars, End, Pending
  <2>2. ReadBlock /\ ProcessBlock
    BY <2>1 DEF Poll, PollNextFrame, ReadPart, Eof, IoError, Fail, Error, Pending
  <2>3. AcceptsHeader /\ \E h \in Headers : UstarHeader(h) \/ GnuHeader(h)
    <3>1. ~ZeroBlock /\ ~BadEndMarker /\ ~RejectedHeader
      BY DEF ZeroBlock, BadEndMarker, RejectedHeader, SetState, Fail, Error, Pending, End
    <3>2. ~PaxData /\ ~GnuData /\ ~MemberData
      BY DEF PaxData, GnuData, MemberData, PaxRecordsParsed, SetState, Fail, Error, DataFrame
    <3>3. \A h \in Headers : ~PaxHeader(h) /\ ~GnuExtension(h)
      BY DEF PaxHeader, GnuExtension, SetState, Fail, Error, PaxFrame, GnuFrame
    <3> QED BY <2>2, <3>1, <3>2, <3>3 DEF ProcessBlock, Header
  <2>4. PICK h \in Headers : /\ frame'.format = h.format /\ frame'.declared = h.size
                            /\ SizeRead(h) # Deleted /\ frame'.size = SizeRead(h)
    BY <2>3, UstarSize, GnuSize
  <2> QED BY <2>4 DEF SizeRead
<1> QED BY <1>1, StreamInvariant, PTL DEF ClientSpec, SizeFromFrames
=============================================================================
