-------------------------- MODULE BufferAndTreeProofs --------------------------
(***************************************************************************)
(* The two data structures that calls of the builder share.  First the     *)
(* buffer of SourceFiles, for any files, sizes, chunk length and number of *)
(* calls: the inductive invariant says where every byte read is (returned  *)
(* before, in the chunk returned last, or filled in the buffer for the     *)
(* call to come) and what each range of the shared buffer holds.  Then the *)
(* ComponentTree, for any components, states and arena: its count of       *)
(* active children, and that it is a function from paths to states.        *)
(***************************************************************************)
EXTENDS SourceFiles, ComponentTree, SharedLemmas, SequenceTheorems

(* What was returned last is the file's, behind what was returned before.  *)
ChunkOfFile ==
  \/ chunk.is \notin {"Some", "None"}
  \/ chunk.is = "None" /\ taken = size
  \/ \E k \in Nat \ {0} : chunk = Some(Bytes(file, taken, k))

(* The reader's bytes up to position are accounted for.                    *)
ReaderInv ==
  inner = "Reader" =>
    /\ remaining = size - (taken + Returned)
    /\ position = taken + Returned + filled
    /\ filled > 0 \/ reading => /\ filled < ChunkLen
                                /\ buffer = [i \in 1..ChunkLen |-> buffer[i]]
    /\ \A i \in 1..filled : buffer[i] = <<file, taken + Returned + i>>
    /\ ~started => filled = 0 /\ ~reading

SliceInv ==
  inner = "Buffered" =>
    /\ ~reading
    /\ data # Consumed => data = Bytes(file, 0, size) /\ taken + Returned = 0
    /\ data = Consumed => taken + Returned = size

PayloadInv ==
  /\ size \in Nat /\ taken \in Nat /\ Returned \in Nat /\ remaining \in Nat
  /\ filled \in Nat /\ position \in Nat /\ length \in Nat
  /\ inner \in {"Buffered", "Reader"}
  /\ started \in BOOLEAN /\ reading \in BOOLEAN
  /\ reading => chunk = Pending
  /\ ~started => taken + Returned = 0
  /\ ChunkOfFile
  /\ ReaderInv
  /\ SliceInv

LEMMA BytesLength ==
  ASSUME NEW f, NEW from \in Nat, NEW n \in Nat
  PROVE  Len(Bytes(f, from, n)) = n
BY DEF Bytes

(* A payload just made, of a slice with the file's bytes or of a reader.   *)
LEMMA FreshPayload ==
  ASSUME NEW f,
         \/ \E n \in Nat : SlicePayload(f, Bytes(f, 0, n))
         \/ \E n \in Nat, m \in Nat : \E lent : ReaderPayload(f, n, m, lent)
  PROVE  PayloadInv'
<1>1. Unread
  BY DEF SlicePayload, ReaderPayload
<1>2. chunk' = Pending /\ chunk'.is = "Pending" /\ reading' = FALSE /\ started' = FALSE /\ taken' = 0
  BY <1>1 DEF Unread, Pending
<1>3. Returned' = 0 /\ taken' + Returned' = 0 /\ ChunkOfFile'
  BY <1>2 DEF Returned, ChunkOfFile
<1>4. CASE \E n \in Nat : SlicePayload(f, Bytes(f, 0, n))
  <2>. PICK n \in Nat : SlicePayload(f, Bytes(f, 0, n))
    BY <1>4
  <2>1. file' = f /\ size' = n /\ inner' = "Buffered" /\ data' = Bytes(f, 0, n)
    BY BytesLength DEF SlicePayload
  <2>2. data' = Consumed => taken' + Returned' = size'
    BY <1>2, <1>3, <2>1, BytesLength DEF Consumed
  <2>3. data' = Bytes(file', 0, size') /\ taken' + Returned' = 0
    BY <1>2, <1>3, <2>1
  <2>4. SliceInv'
    BY <1>2, <2>2, <2>3 DEF SliceInv
  <2>5. ReaderInv'
    BY <2>1 DEF ReaderInv
  <2>. QED  BY <1>2, <1>3, <2>1, <2>4, <2>5 DEF SlicePayload, PayloadInv
<1>5. CASE \E n \in Nat, m \in Nat : \E lent : ReaderPayload(f, n, m, lent)
  <2>0. PICK n \in Nat, m \in Nat : \E lent : ReaderPayload(f, n, m, lent)
    BY <1>5
  <2>. PICK lent : ReaderPayload(f, n, m, lent)
    BY <2>0
  <2>1. /\ inner' = "Reader" /\ size' = n /\ length' = m
        /\ filled' = 0 /\ position' = 0 /\ remaining' = n
    BY DEF ReaderPayload
  <2>2. /\ remaining' = size' - (taken' + Returned')
        /\ position' = taken' + Returned' + filled'
        /\ ~(filled' > 0 \/ reading') /\ 1..filled' = {}
    BY <1>2, <1>3, <2>1
  <2>3. ReaderInv'
    BY <1>2, <2>1, <2>2 DEF ReaderInv
  <2>4. SliceInv'
    BY <2>1 DEF SliceInv
  <2>. QED  BY <1>2, <1>3, <2>1, <2>3, <2>4 DEF PayloadInv
<1>. QED  BY <1>4, <1>5

(* Whatever a call answers, what was returned before counts as taken.      *)
LEMMA TakenSoFar ==
  ASSUME PayloadInv
  PROVE  /\ taken + Returned \in Nat
         /\ chunk.is # "Some" => Returned = 0
BY DEF PayloadInv, Returned

LEMMA TakeSliceInv ==
  ASSUME PayloadInv, ~reading, TakeSlice, started' = TRUE
  PROVE  PayloadInv'
<1>1. /\ inner = "Buffered" /\ inner' = inner /\ size' = size /\ file' = file /\ length' = length
      /\ position' = position /\ remaining' = remaining /\ filled' = filled
      /\ data' = Consumed /\ reading' = FALSE /\ taken' = taken + Returned
      /\ chunk' = IF data = <<>> THEN NoMore ELSE Some(data)
  BY DEF TakeSlice, Answer, fixedVars
<1>2. taken' \in Nat /\ size \in Nat
  BY <1>1, TakenSoFar DEF PayloadInv
<1>3. CASE data = <<>>
  <2>1. chunk'.is = "None" /\ Returned' = 0 /\ taken' = size
    BY <1>1, <1>3 DEF NoMore, Returned, PayloadInv, SliceInv, Consumed
  <2>2. ChunkOfFile' /\ SliceInv' /\ ReaderInv'
    BY <1>1, <1>2, <2>1 DEF ChunkOfFile, SliceInv, ReaderInv
  <2>. QED  BY <1>1, <1>2, <2>1, <2>2 DEF PayloadInv
<1>4. CASE data # <<>>
  <2>1. data = Bytes(file, 0, size) /\ taken + Returned = 0 /\ size # 0
    BY <1>1, <1>4 DEF PayloadInv, SliceInv, Consumed, Bytes
  <2>2. chunk' = Some(Bytes(file', taken', size)) /\ taken' = 0
    BY <1>1, <1>4, <2>1
  <2>3. Returned' = size
    BY <1>2, <2>2, BytesLength DEF Returned, Some
  <2>4. ChunkOfFile'
    BY <1>2, <2>1, <2>2 DEF ChunkOfFile
  <2>5. SliceInv' /\ ReaderInv'
    BY <1>1, <1>2, <2>2, <2>3 DEF SliceInv, ReaderInv
  <2>. QED  BY <1>1, <1>2, <2>3, <2>4, <2>5 DEF PayloadInv
<1>. QED  BY <1>3, <1>4

LEMMA NoneRemainingInv ==
  ASSUME PayloadInv, ~reading, NoneRemaining, started' = TRUE
  PROVE  PayloadInv'
<1>1. /\ inner = "Reader" /\ inner' = inner /\ size' = size /\ file' = file /\ length' = length
      /\ position' = position /\ remaining' = remaining /\ filled' = filled /\ buffer' = buffer
      /\ remaining = 0 /\ chunk' = NoMore /\ reading' = FALSE /\ taken' = taken + Returned
  BY DEF NoneRemaining, Answer, fixedVars
<1>2. taken' \in Nat /\ size \in Nat /\ filled \in Nat
  BY <1>1, TakenSoFar DEF PayloadInv
<1>3. chunk'.is = "None" /\ Returned' = 0 /\ ChunkLen = 0
  BY <1>1, PayloadAssumption DEF NoMore, Returned, ChunkLen
<1>4. taken' = size /\ filled = 0
  BY <1>1, <1>2, <1>3 DEF PayloadInv, ReaderInv
<1>5. ChunkOfFile' /\ SliceInv'
  BY <1>1, <1>3, <1>4 DEF ChunkOfFile, SliceInv
<1>6. /\ remaining' = size' - (taken' + Returned')
      /\ position' = taken' + Returned' + filled'
      /\ ~(filled' > 0 \/ reading') /\ 1..filled' = {}
  BY <1>1, <1>2, <1>3, <1>4 DEF PayloadInv, ReaderInv
<1>7. ReaderInv'
  BY <1>6, <1>1, <1>4 DEF ReaderInv
<1>. QED  BY <1>1, <1>2, <1>3, <1>5, <1>7 DEF PayloadInv

(* Resizing the buffer keeps what is filled: a chunk is as long as before. *)
LEMMA StartsReadingInv ==
  ASSUME PayloadInv, ~reading, StartsReading, started' = TRUE
  PROVE  PayloadInv'
<1>1. /\ inner = "Reader" /\ inner' = inner /\ size' = size /\ file' = file /\ length' = length
      /\ position' = position /\ remaining' = remaining /\ filled' = filled
      /\ remaining > 0 /\ chunk' = Pending /\ reading' = TRUE /\ taken' = taken + Returned
      /\ buffer' = Resized(buffer, ChunkLen)
  BY DEF StartsReading, fixedVars, Progress
<1>2. /\ taken' \in Nat /\ size \in Nat /\ filled \in Nat /\ remaining \in Nat
      /\ ChunkLen \in Nat \ {0} /\ ChunkLen' = ChunkLen
  BY <1>1, TakenSoFar, PayloadAssumption DEF PayloadInv, ChunkLen
<1>3. chunk'.is = "Pending" /\ Returned' = 0
  BY <1>1 DEF Pending, Returned
<1>4. ChunkOfFile' /\ SliceInv'
  BY <1>1, <1>3 DEF ChunkOfFile, SliceInv
<1>5. filled < ChunkLen
  BY <1>1, <1>2 DEF PayloadInv, ReaderInv
<1>6. buffer' = [i \in 1..ChunkLen |-> buffer'[i]]
  BY <1>1 DEF Resized
<1>7. ASSUME NEW i \in 1..filled PROVE buffer'[i] = <<file, taken' + i>>
  <2>1. filled > 0 /\ i \in 1..ChunkLen
    BY <1>2, <1>5, <1>7
  <2>2. buffer = [k \in 1..ChunkLen |-> buffer[k]] /\ buffer[i] = <<file, taken + Returned + i>>
    BY <1>1, <1>7, <2>1 DEF PayloadInv, ReaderInv
  <2>3. Len(buffer) = ChunkLen
    BY <1>2, <2>2
  <2>. QED  BY <1>1, <1>2, <2>1, <2>2, <2>3 DEF Resized
<1>8. /\ remaining' = size' - (taken' + Returned')
      /\ position' = taken' + Returned' + filled'
  BY <1>1, <1>2, <1>3 DEF PayloadInv, ReaderInv
<1>9. ReaderInv'
  <2>1. \A i \in 1..filled' : buffer'[i] = <<file', taken' + Returned' + i>>
    BY <1>1, <1>2, <1>3, <1>7
  <2>. QED  BY <1>1, <1>2, <1>5, <1>6, <1>8, <2>1 DEF ReaderInv
<1>. QED  BY <1>1, <1>2, <1>3, <1>4, <1>9 DEF PayloadInv

(* A read fills the buffer on; the last one of a chunk hands it out.       *)
LEMMA ReadSomeInv ==
  ASSUME PayloadInv, ReadSome
  PROVE  PayloadInv'
<1>. PICK n \in 1..(ChunkLen - filled) :
       /\ position' = position + n /\ buffer' = ReadBytes(n)
       /\ IF filled + n = ChunkLen
          THEN /\ filled' = 0
               /\ remaining' = remaining - ChunkLen
               /\ Answer(Some(buffer'))
          ELSE /\ filled' = filled + n
               /\ UNCHANGED <<remaining, reading, chunk, taken>>
  BY DEF ReadSome
<1>1. /\ reading /\ chunk.is = "Pending" /\ inner = "Reader" /\ inner' = inner
      /\ size' = size /\ file' = file /\ length' = length /\ started' = started
  BY DEF ReadSome, PayloadInv, Pending, SliceInv, fixedVars
<1>2. /\ Returned = 0 /\ taken \in Nat /\ size \in Nat /\ filled \in Nat /\ position \in Nat
      /\ remaining \in Nat /\ length \in Nat /\ ChunkLen \in Nat /\ ChunkLen <= remaining
  BY <1>1, PayloadAssumption DEF PayloadInv, Returned, ChunkLen
<1>3. /\ remaining = size - taken /\ position = taken + filled
      /\ filled < ChunkLen /\ buffer = [i \in 1..ChunkLen |-> buffer[i]]
      /\ \A i \in 1..filled : buffer[i] = <<file, taken + i>>
      /\ started
  BY <1>1, <1>2 DEF PayloadInv, ReaderInv
<1>4. n \in Nat /\ n > 0 /\ filled + n <= ChunkLen
  BY <1>2
<1>5. Len(buffer) = ChunkLen
  BY <1>2, <1>3
<1>6. /\ buffer' = [i \in 1..ChunkLen |-> buffer'[i]]
      /\ \A i \in 1..(filled + n) : buffer'[i] = <<file, taken + i>>
  <2>1. buffer' = [i \in 1..ChunkLen |-> IF i \in (filled + 1)..(filled + n)
                                         THEN <<file, position + i - filled>> ELSE buffer[i]]
    BY <1>5 DEF ReadBytes
  <2>2. ASSUME NEW i \in 1..(filled + n) PROVE buffer'[i] = <<file, taken + i>>
    <3>1. i \in 1..ChunkLen
      BY <1>2, <1>4
    <3>2. CASE i \in 1..filled
      <4>1. i \notin (filled + 1)..(filled + n)
        BY <1>2, <3>2
      <4>2. buffer'[i] = buffer[i]
        BY <2>1, <3>1, <4>1
      <4>. QED  BY <1>3, <3>2, <4>2
    <3>3. CASE i \in (filled + 1)..(filled + n)
      <4>1. position + i - filled = taken + i
        BY <1>2, <1>3
      <4>. QED  BY <2>1, <3>1, <3>3, <4>1
    <3>. QED  BY <1>2, <3>2, <3>3
  <2>. QED  BY <2>1, <2>2
<1>7. SliceInv'
  BY <1>1 DEF SliceInv
<1>8. CASE filled + n = ChunkLen
  <2>1. /\ filled' = 0 /\ remaining' = remaining - ChunkLen /\ reading' = FALSE
        /\ chunk' = Some(buffer') /\ taken' = taken
    BY <1>2, <1>8 DEF Answer
  <2>2. buffer' = Bytes(file, taken, ChunkLen)
    BY <1>6, <1>8 DEF Bytes
  <2>3. chunk' = Some(Bytes(file', taken', ChunkLen)) /\ Returned' = ChunkLen /\ chunk'.is = "Some"
    BY <1>1, <1>2, <2>1, <2>2, BytesLength DEF Returned, Some
  <2>4. ChunkOfFile'
    BY <1>2, <1>3, <2>3 DEF ChunkOfFile
  <2>5. /\ remaining' = size' - (taken' + Returned')
        /\ position' = taken' + Returned' + filled'
        /\ ~(filled' > 0 \/ reading') /\ 1..filled' = {}
    BY SMTT(30), <1>1, <1>2, <1>3, <1>8, <2>1, <2>3
  <2>6. ReaderInv'
    BY <1>1, <1>3, <2>1, <2>5 DEF ReaderInv
  <2>7. remaining' \in Nat /\ position' \in Nat
    BY <1>2, <1>4, <2>1
  <2>. QED  BY <1>1, <1>2, <1>3, <1>7, <2>1, <2>3, <2>4, <2>6, <2>7 DEF PayloadInv
<1>9. CASE filled + n # ChunkLen
  <2>1. /\ filled' = filled + n /\ remaining' = remaining /\ reading' = reading
        /\ chunk' = chunk /\ taken' = taken
    BY <1>9
  <2>2. Returned' = 0 /\ ChunkLen' = ChunkLen /\ chunk' = Pending
    BY <1>1, <2>1 DEF Returned, ChunkLen, PayloadInv
  <2>3. ChunkOfFile'
    BY <1>1, <2>1 DEF ChunkOfFile
  <2>4. /\ remaining' = size' - (taken' + Returned')
        /\ position' = taken' + Returned' + filled'
        /\ filled' < ChunkLen' /\ filled' \in Nat /\ position' \in Nat
    BY <1>1, <1>2, <1>3, <1>4, <1>9, <2>1, <2>2
  <2>5. buffer' = [i \in 1..ChunkLen' |-> buffer'[i]]
    BY <1>6, <2>2
  <2>6. \A i \in 1..filled' : buffer'[i] = <<file', taken' + Returned' + i>>
    BY <1>1, <1>2, <1>6, <2>1, <2>2
  <2>7. ReaderInv'
    BY <1>1, <1>3, <2>4, <2>5, <2>6 DEF ReaderInv
  <2>. QED  BY <1>1, <1>2, <1>3, <1>7, <2>1, <2>2, <2>3, <2>4, <2>7 DEF PayloadInv
<1>. QED  BY <1>8, <1>9

(* The future ends without a chunk: what is filled stays for the next call.*)
LEMMA EndsInv ==
  ASSUME PayloadInv, ReadEnds \/ ReadFails \/ DropNextChunk
  PROVE  PayloadInv'
<1>1. /\ reading /\ chunk.is = "Pending" /\ inner = "Reader" /\ inner' = inner
      /\ size' = size /\ file' = file /\ length' = length /\ started' = started
      /\ position' = position /\ buffer' = buffer /\ remaining' = remaining /\ filled' = filled
      /\ reading' = FALSE /\ taken' = taken + Returned
      /\ chunk'.is \in {"Pending", "Err"}
  BY DEF ReadEnds, ReadFails, DropNextChunk, Answer, Failure, PayloadInv, Pending, SliceInv, fixedVars
<1>2. Returned = 0 /\ taken \in Nat /\ taken' = taken /\ Returned' = 0
  BY <1>1 DEF PayloadInv, Returned
<1>3. ChunkOfFile' /\ SliceInv'
  BY <1>1 DEF ChunkOfFile, SliceInv
<1>4. ChunkLen' = ChunkLen /\ started
  BY <1>1 DEF ChunkLen, PayloadInv, ReaderInv
<1>5. ReaderInv'
  BY <1>1, <1>2, <1>4 DEF PayloadInv, ReaderInv
<1>. QED  BY <1>1, <1>2, <1>3, <1>5 DEF PayloadInv

LEMMA PayloadNextInv ==
  ASSUME PayloadInv, PayloadNext
  PROVE  PayloadInv'
BY TakeSliceInv, NoneRemainingInv, StartsReadingInv, ReadSomeInv, EndsInv DEF PayloadNext, NextChunk

-----------------------------------------------------------------------------
(* Slices of a buffer that grows at its end.                               *)

LEMMA SliceOfLonger ==
  ASSUME NEW S, NEW s \in Seq(S), NEW t \in Seq(S), NEW from \in Nat, NEW to \in Nat,
         to <= Len(s)
  PROVE  SubSeq(s \o t, from + 1, to) = SubSeq(s, from + 1, to)
<1>1. \A i \in 1..Len(s) : (s \o t)[i] = s[i]
  BY ConcatProperties
<1>2. s \o t \in Seq(S) /\ Len(s \o t) = Len(s) + Len(t)
  BY ConcatProperties
<1>. DEFINE u == s \o t
<1>. HIDE DEF u
<1>3. u \in Seq(S) /\ Len(u) >= to /\ \A i \in 1..Len(s) : u[i] = s[i]
  BY <1>1, <1>2 DEF u
<1>4. /\ Len(SubSeq(u, from + 1, to)) = Len(SubSeq(s, from + 1, to))
      /\ SubSeq(u, from + 1, to) \in Seq(S) /\ SubSeq(s, from + 1, to) \in Seq(S)
  BY <1>3
<1>5. \A i \in 1..Len(SubSeq(s, from + 1, to)) :
        SubSeq(u, from + 1, to)[i] = SubSeq(s, from + 1, to)[i]
  BY <1>3
<1>6. SubSeq(u, from + 1, to) = SubSeq(s, from + 1, to)
  BY <1>4, <1>5, SeqEqual
<1>. QED  BY <1>6 DEF u

LEMMA SliceAdded ==
  ASSUME NEW S, NEW s \in Seq(S), NEW t \in Seq(S)
  PROVE  SubSeq(s \o t, Len(s) + 1, Len(s \o t)) = t
<1>. DEFINE u == s \o t
<1>1. \A i \in 1..Len(t) : u[Len(s) + i] = t[i]
  BY ConcatProperties
<1>2. u \in Seq(S) /\ Len(u) = Len(s) + Len(t)
  BY ConcatProperties
<1>. HIDE DEF u
<1>3. SubSeq(u, Len(s) + 1, Len(u)) \in Seq(S) /\ Len(SubSeq(u, Len(s) + 1, Len(u))) = Len(t)
  BY <1>2
<1>4. \A i \in 1..Len(t) : SubSeq(u, Len(s) + 1, Len(u))[i] = t[i]
  BY <1>1, <1>2
<1>5. SubSeq(u, Len(s) + 1, Len(u)) = t
  BY <1>3, <1>4, SeqEqual
<1>. QED  BY <1>5 DEF u

-----------------------------------------------------------------------------
(* The calls around the payload: while one may be read it declares the     *)
(* size of its file, and what is prepared are files.                       *)
Entries == [file : Files, from : Nat, to : Nat]

CallsInv ==
  /\ batch \in Seq(Files)
  /\ prepared \in Seq(Entries)
  /\ call = "idle" => ~hook
  /\ call # "idle" => ~held
  /\ hook /\ call # "add_file" => Len(prepared) > 0
  /\ held \/ hook => size = Size[file]
  /\ hook => skipped = 0
  /\ MembersAreWhole

(* Only the last file of a group is streamed, and while it borrows the     *)
(* buffer no range of it is needed any more.                               *)
GroupInv ==
  /\ preparing => call = "add_directory_all" /\ ~hook /\ batch # <<>>
  /\ preparing => source_buffer \in Seq(Files \X Nat)
  /\ call # "add_directory_all" => prepared = <<>>
  /\ \A n \in 1..Len(prepared) :
       Small(prepared[n].file) \/ (n = Len(prepared) /\ ~preparing)
  /\ hook /\ inner = "Reader" => Len(prepared) <= 1
  /\ RangesStayFilled

SourceInv == PayloadInv /\ CallsInv /\ GroupInv

LEMMA NothingPrepared ==
  ASSUME prepared' = <<>>, ~preparing'
  PROVE  GroupInv'
BY DEF GroupInv, RangesStayFilled

LEMMA GroupKeeps ==
  ASSUME GroupInv, UNCHANGED <<call, batch, prepared, preparing, source_buffer>>,
         hook' => hook, inner' = inner \/ ~hook'
  PROVE  GroupInv'
BY DEF GroupInv, RangesStayFilled

LEMMA SourceInitInv == SourceInit => SourceInv
<1>. SUFFICES ASSUME SourceInit PROVE SourceInv
  OBVIOUS
<1>1. Returned = 0 /\ taken + Returned = 0 /\ chunk.is = "Pending"
  BY DEF SourceInit, NoPayload, Pending, Returned
<1>2. PayloadInv
  <2>1. ChunkOfFile /\ ReaderInv /\ SliceInv
    BY <1>1 DEF SourceInit, NoPayload, ChunkOfFile, ReaderInv, SliceInv, Consumed
  <2>. QED  BY <1>1, <2>1 DEF SourceInit, NoPayload, PayloadInv
<1>3. CallsInv
  BY DEF SourceInit, CallsInv, MembersAreWhole
<1>4. GroupInv
  BY DEF SourceInit, GroupInv, RangesStayFilled
<1>. QED  BY <1>2, <1>3, <1>4 DEF SourceInv

LEMMA PayloadKeeps == PayloadNext => file' = file /\ size' = size /\ inner' = inner
BY DEF PayloadNext, NextChunk, TakeSlice, NoneRemaining, StartsReading, ReadSome, ReadEnds,
       ReadFails, DropNextChunk, fixedVars

LEMMA DropPayloadInv == DropPayload => PayloadInv'
<1>1. <<>> = Bytes(CHOOSE f \in Files : TRUE, 0, 0)
  BY DEF Bytes
<1>. QED  BY <1>1, FreshPayload DEF DropPayload

LEMMA MakePayloadInv ==
  ASSUME SourceInv, NEW f \in Files, MakePayload(f)
  PROVE  SourceInv'
<1>1. Size[f] \in Nat /\ Holds(f) \subseteq Nat
  BY SourceAssumption DEF Holds
<1>2. PayloadInv'
  BY <1>1, FreshPayload DEF MakePayload
<1>3. file' = f /\ size' = Size[f]
  BY <1>1, BytesLength DEF MakePayload, SlicePayload, ReaderPayload
<1>4. GroupInv'
  BY GroupKeeps DEF MakePayload, SourceInv, CallsInv
<1>. QED  BY <1>2, <1>3, <1>4 DEF SourceInv, CallsInv, MembersAreWhole, MakePayload

LEMMA AddFileInv ==
  ASSUME SourceInv, AddFile
  PROVE  SourceInv'
<1>1. CASE Untouched
  <2>1. /\ UNCHANGED <<file, size, inner, data, length, position, remaining, filled,
                       started, reading, chunk, taken, batch, prepared, archived>>
        /\ call' = "add_file" /\ skipped' = 0 /\ held /\ ~held' /\ ~started /\ ~reading
        /\ inner = "Buffered" => buffer' = buffer
    BY <1>1 DEF AddFile, Untouched, SourceInv, PayloadInv
  <2>2. /\ Returned' = Returned
        /\ ChunkLen' = ChunkLen
    BY <2>1 DEF Returned, ChunkLen
  <2>3. ChunkOfFile' /\ SliceInv'
    BY <2>1, <2>2 DEF SourceInv, PayloadInv, ChunkOfFile, SliceInv
  <2>4. ReaderInv'
    BY <2>1, <2>2 DEF SourceInv, PayloadInv, ReaderInv
  <2>5. PayloadInv'
    BY <2>1, <2>2, <2>3, <2>4 DEF SourceInv, PayloadInv
  <2>6. GroupInv'
    <3>1. prepared' = <<>> /\ ~preparing'
      BY DEF AddFile, SourceInv, GroupInv
    <3>. QED  BY <3>1, NothingPrepared
  <2>. QED  BY <2>1, <2>5, <2>6 DEF SourceInv, CallsInv, MembersAreWhole
<1>2. CASE ~Untouched
  <2>1. /\ DropPayload /\ held' = FALSE /\ UNCHANGED <<call, hook, batch, prepared, archived>>
        /\ ~hook
    BY <1>2 DEF AddFile, SourceInv, CallsInv
  <2>2. GroupInv'
    <3>1. prepared' = <<>> /\ ~preparing'
      BY DEF AddFile, SourceInv, GroupInv
    <3>. QED  BY <3>1, NothingPrepared
  <2>. QED  BY <2>1, <2>2, DropPayloadInv DEF SourceInv, CallsInv, MembersAreWhole
<1>. QED  BY <1>1, <1>2

LEMMA AddDirectoryAllInv ==
  ASSUME SourceInv, NEW files \in Additions, AddDirectoryAll(files)
  PROVE  SourceInv'
<1>1. UNCHANGED <<payloadVars, held, prepared, hook, skipped, archived>> /\ batch' = files /\ call = "idle" /\ ~held
  BY DEF AddDirectoryAll
<1>2. PayloadInv'
  BY <1>1 DEF payloadVars, SourceInv, PayloadInv, ChunkOfFile, ReaderInv, SliceInv, Returned, ChunkLen
<1>3. CallsInv'
  BY <1>1, SourceAssumption DEF payloadVars, SourceInv, CallsInv, MembersAreWhole
<1>4. GroupInv'
  <2>1. prepared' = <<>> /\ ~preparing'
    BY DEF AddDirectoryAll, SourceInv, GroupInv
  <2>. QED  BY <2>1, NothingPrepared
<1>. QED  BY <1>2, <1>3, <1>4 DEF SourceInv

(* A call that ends, well or not, leaves no hook and nothing prepared.     *)
LEMMA EndsCall ==
  ASSUME SourceInv, NEW how, Ends(how), call # "idle"
  PROVE  CallsInv' /\ GroupInv'
<1>1. /\ batch' = <<>> /\ prepared' = <<>> /\ ~preparing' /\ hook' = FALSE /\ held' = held
      /\ archived' = archived /\ ~held
  BY DEF Ends, SourceInv, CallsInv
<1>2. batch' \in Seq(Files) /\ prepared' \in Seq(Entries)
  BY <1>1
<1>3. GroupInv'
  BY <1>1, NothingPrepared
<1>. QED  BY <1>1, <1>2, <1>3 DEF SourceInv, CallsInv, MembersAreWhole

LEMMA StartGroupInv ==
  ASSUME SourceInv, StartGroup
  PROVE  SourceInv'
<1>1. /\ UNCHANGED payloadVars /\ call = "add_directory_all" /\ ~hook
      /\ UNCHANGED <<call, held, batch, prepared, hook, skipped, archived>>
      /\ prepared = <<>> /\ batch # <<>> /\ source_buffer' = <<>>
  BY DEF StartGroup, NoBuffer
<1>2. PayloadInv'
  BY <1>1 DEF payloadVars, SourceInv, PayloadInv, ChunkOfFile, ReaderInv, SliceInv, Returned, ChunkLen
<1>3. CallsInv'
  BY <1>1 DEF payloadVars, SourceInv, CallsInv, MembersAreWhole
<1>4. GroupInv'
  BY <1>1 DEF GroupInv, RangesStayFilled
<1>. QED  BY <1>2, <1>3, <1>4 DEF SourceInv

(* A file joins the group: its range is behind the others, which stay.     *)
LEMMA PrepareFileInv ==
  ASSUME SourceInv, PrepareFile
  PROVE  SourceInv'
<1>. DEFINE f == Head(batch)
            ahead == IF Small(f) THEN Bytes(f, 0, Size[f]) ELSE <<>>
            entry == [file |-> f, from |-> Len(source_buffer), to |-> Len(source_buffer \o ahead)]
<1>1. /\ preparing /\ call = "add_directory_all" /\ ~hook /\ batch # <<>> /\ batch \in Seq(Files)
      /\ source_buffer \in Seq(Files \X Nat) /\ prepared \in Seq(Entries)
      /\ \A n \in 1..Len(prepared) : Small(prepared[n].file)
      /\ RangesStayFilled
  BY DEF PrepareFile, SourceInv, CallsInv, GroupInv
<1>2. f \in Files /\ Size[f] \in Nat /\ batch' = Tail(batch) /\ batch' \in Seq(Files)
      /\ Len(batch') = Len(batch) - 1
  BY <1>1, SourceAssumption DEF PrepareFile
<1>3. ahead \in Seq(Files \X Nat) /\ (Small(f) => ahead = Bytes(f, 0, Size[f]))
  BY <1>2 DEF Bytes
<1>4. /\ source_buffer' = source_buffer \o ahead /\ prepared' = Append(prepared, entry)
      /\ preparing' = (Len(batch) > 1 /\ ~EndsGroup(f, Len(source_buffer \o ahead)))
      /\ UNCHANGED <<payloadVars, call, held, hook, calls, skipped, archived>>
  BY DEF PrepareFile, Ahead
<1>. HIDE DEF f, ahead
<1>5. /\ source_buffer' \in Seq(Files \X Nat)
      /\ Len(source_buffer') = Len(source_buffer) + Len(ahead)
      /\ Len(source_buffer) \in Nat /\ Len(ahead) \in Nat
  BY <1>1, <1>3, <1>4, ConcatProperties
<1>6. entry \in Entries /\ entry.file = f /\ entry.from = Len(source_buffer)
      /\ entry.to = Len(source_buffer')
  BY <1>2, <1>4, <1>5 DEF Entries
<1>. HIDE DEF entry
<1>7. /\ prepared' \in Seq(Entries) /\ Len(prepared') = Len(prepared) + 1
      /\ prepared'[Len(prepared) + 1] = entry
      /\ \A n \in 1..Len(prepared) : prepared'[n] = prepared[n]
      /\ Len(prepared) \in Nat
  BY <1>1, <1>4, <1>6
<1>8. PayloadInv'
  BY <1>4 DEF payloadVars, SourceInv, PayloadInv, ChunkOfFile, ReaderInv, SliceInv, Returned, ChunkLen
<1>9. CallsInv'
  BY <1>1, <1>2, <1>4, <1>7 DEF payloadVars, SourceInv, CallsInv, MembersAreWhole
<1>10. ASSUME NEW n \in 1..Len(prepared'), Small(prepared'[n].file)
       PROVE  /\ prepared'[n].to <= Len(source_buffer')
              /\ SubSeq(source_buffer', prepared'[n].from + 1, prepared'[n].to)
                   = Bytes(prepared'[n].file, 0, Size[prepared'[n].file])
  <2>1. CASE n \in 1..Len(prepared)
    <3>1. /\ prepared'[n] = prepared[n] /\ prepared[n] \in Entries
          /\ prepared[n].to <= Len(source_buffer)
          /\ SubSeq(source_buffer, prepared[n].from + 1, prepared[n].to)
               = Bytes(prepared[n].file, 0, Size[prepared[n].file])
      BY <1>1, <1>7, <1>10, <2>1 DEF RangesStayFilled
    <3>2. prepared[n].from \in Nat /\ prepared[n].to \in Nat
      BY <3>1 DEF Entries
    <3>3. SubSeq(source_buffer', prepared[n].from + 1, prepared[n].to)
            = SubSeq(source_buffer, prepared[n].from + 1, prepared[n].to)
      BY <1>1, <1>3, <1>4, <3>1, <3>2, SliceOfLonger
    <3>4. prepared[n].to <= Len(source_buffer')
      BY <1>5, <3>1, <3>2
    <3>5. SubSeq(source_buffer', prepared[n].from + 1, prepared[n].to)
            = Bytes(prepared[n].file, 0, Size[prepared[n].file])
      BY <3>1, <3>3
    <3>. QED  BY <3>1, <3>4, <3>5
  <2>2. CASE n = Len(prepared) + 1
    <3>1. prepared'[n] = entry /\ Small(f)
      BY <1>6, <1>7, <1>10, <2>2
    <3>2. SubSeq(source_buffer', Len(source_buffer) + 1, Len(source_buffer')) = ahead
      BY <1>1, <1>3, <1>4, SliceAdded
    <3>3. entry.to <= Len(source_buffer')
      BY <1>5, <1>6
    <3>4. SubSeq(source_buffer', entry.from + 1, entry.to)
            = Bytes(entry.file, 0, Size[entry.file])
      BY <1>3, <1>6, <3>1, <3>2
    <3>. QED  BY <3>1, <3>3, <3>4
  <2>. QED  BY <1>7, <1>10, <2>1, <2>2
<1>11. GroupInv'
  <2>1. preparing' => Len(batch) > 1 /\ Small(f)
    BY <1>4 DEF EndsGroup
  <2>4. Len(batch) > 1 => batch' # <<>>
    <3>1. Len(batch) > 1 => Len(batch') > 0
      BY <1>1, <1>2
    <3>2. batch' = <<>> => Len(batch') = 0
      BY Zenon, EmptySeq
    <3>. QED  BY <3>1, <3>2
  <2>2. \A n \in 1..Len(prepared') :
          Small(prepared'[n].file) \/ (n = Len(prepared') /\ ~preparing')
    <3>. TAKE n \in 1..Len(prepared')
    <3>1. CASE n \in 1..Len(prepared)
      BY <1>1, <1>7, <3>1
    <3>2. CASE n = Len(prepared')
      BY <1>6, <1>7, <2>1, <3>2
    <3>. QED  BY <1>7, <3>1, <3>2
  <2>3. RangesStayFilled'
    BY <1>10 DEF RangesStayFilled
  <2>. QED  BY <1>1, <1>4, <1>5, <2>1, <2>2, <2>3, <2>4 DEF GroupInv
<1>. QED  BY <1>8, <1>9, <1>11 DEF SourceInv

LEMMA PrepareFailsInv ==
  ASSUME SourceInv, PrepareFails
  PROVE  SourceInv'
<1>1. UNCHANGED payloadVars /\ call # "idle" /\ \E how \in {"idle", "stopped"} : Ends(how)
  BY DEF PrepareFails, SourceInv, GroupInv
<1>2. PayloadInv'
  BY <1>1 DEF payloadVars, SourceInv, PayloadInv, ChunkOfFile, ReaderInv, SliceInv, Returned, ChunkLen
<1>. QED  BY <1>1, <1>2, EndsCall DEF SourceInv

(* The only place the shared buffer's contents matter.                     *)
LEMMA StartFileInv ==
  ASSUME SourceInv, StartFile
  PROVE  SourceInv'
<1>1. /\ call = "add_directory_all" /\ hook' = TRUE /\ skipped' = 0 /\ prepared # <<>>
      /\ UNCHANGED <<call, held, batch, prepared, preparing, calls, archived>> /\ ~preparing
  BY DEF StartFile
<1>2. Entry = prepared[1] /\ 1 \in 1..Len(prepared) /\ prepared[1] \in Entries
      /\ Len(prepared) \in Nat /\ Len(prepared) > 0
  BY <1>1 DEF Entry, SourceInv, CallsInv
<1>3. Entry.file \in Files /\ Size[Entry.file] \in Nat /\ Holds(Entry.file) \subseteq Nat
  BY <1>2, SourceAssumption DEF Entries, Holds
<1>4. CASE /\ Small(Entry.file)
           /\ SlicePayload(Entry.file, SubSeq(source_buffer, Entry.from + 1, Entry.to))
  <2>1. SlicePayload(Entry.file, Bytes(Entry.file, 0, Size[Entry.file]))
    BY <1>2, <1>4 DEF SourceInv, GroupInv, RangesStayFilled
  <2>2. PayloadInv' /\ file' = Entry.file /\ size' = Size[Entry.file] /\ inner' = "Buffered"
    BY <1>3, <2>1, FreshPayload, BytesLength DEF SlicePayload
  <2>3. source_buffer' = source_buffer
    BY <1>4 DEF StartFile
  <2>4. GroupInv'
    BY <1>1, <2>2, <2>3 DEF SourceInv, GroupInv, RangesStayFilled
  <2>. QED  BY <1>1, <1>2, <2>2, <2>4 DEF SourceInv, CallsInv, MembersAreWhole
<1>5. CASE /\ ~Small(Entry.file)
           /\ \E n \in Holds(Entry.file) :
                ReaderPayload(Entry.file, Size[Entry.file], n, source_buffer)
  <2>1. PayloadInv' /\ file' = Entry.file /\ size' = Size[Entry.file]
    BY <1>3, <1>5, FreshPayload DEF ReaderPayload
  <2>2. Len(prepared) = 1 /\ ~Small(prepared[1].file)
    BY <1>2, <1>5 DEF SourceInv, GroupInv
  <2>3. GroupInv'
    BY <1>1, <2>2 DEF SourceInv, GroupInv, RangesStayFilled
  <2>. QED  BY <1>1, <1>2, <2>1, <2>3 DEF SourceInv, CallsInv, MembersAreWhole
<1>. QED  BY <1>4, <1>5 DEF StartFile

LEMMA ReadsInv ==
  ASSUME SourceInv, CallerReads \/ HookReads
  PROVE  SourceInv'
<1>1. PayloadNext /\ UNCHANGED callVars /\ UNCHANGED source_buffer
  BY DEF CallerReads, HookReads
<1>2. PayloadInv' /\ file' = file /\ size' = size /\ inner' = inner
  BY <1>1, PayloadNextInv, PayloadKeeps DEF SourceInv
<1>3. GroupInv'
  BY <1>1, <1>2, GroupKeeps DEF callVars, SourceInv
<1>. QED  BY <1>1, <1>2, <1>3 DEF callVars, SourceInv, CallsInv, MembersAreWhole

LEMMA HookReturnsInv ==
  ASSUME SourceInv, HookReturns
  PROVE  SourceInv'
<1>1. /\ hook /\ chunk.is = "None" /\ DropPayload /\ archived' = <<file, taken - skipped>>
      /\ hook' = FALSE /\ UNCHANGED <<held, batch>> /\ call # "idle" /\ ~held
  BY DEF HookReturns, GivesBack, SourceInv, CallsInv
<1>2. taken = size /\ size = Size[file] /\ skipped = 0 /\ taken \in Nat
  BY <1>1 DEF SourceInv, CallsInv, PayloadInv, ChunkOfFile, Some
<1>3. MembersAreWhole'
  BY <1>1, <1>2 DEF MembersAreWhole
<1>4. /\ prepared \in Seq(Entries) /\ Len(prepared) \in Nat /\ ~preparing /\ ~preparing'
      /\ hook' = FALSE
  BY <1>1 DEF HookReturns, SourceInv, CallsInv, GroupInv
<1>5. CASE call = "add_file"
  <2>1. prepared' = prepared /\ prepared = <<>>
    BY <1>5 DEF HookReturns, SourceInv, GroupInv
  <2>2. GroupInv'
    BY <1>4, <2>1, NothingPrepared
  <2>. QED  BY <1>1, <1>3, <1>4, <2>1, <2>2, DropPayloadInv DEF SourceInv, CallsInv
<1>6. CASE call # "add_file"
  <2>1. /\ prepared' = Tail(prepared) /\ Len(prepared) > 0 /\ call = "add_directory_all"
        /\ call' = IF Len(prepared) = 1 /\ batch = <<>> THEN "idle" ELSE call
    BY <1>1, <1>4, <1>6 DEF HookReturns, SourceInv, CallsInv, GroupInv
  <2>2. /\ prepared' \in Seq(Entries) /\ Len(prepared') = Len(prepared) - 1
        /\ \A n \in 1..Len(prepared') : prepared'[n] = prepared[n + 1] /\ n + 1 \in 1..Len(prepared)
    BY <1>4, <2>1, HeadTailProperties
  <2>3. call' # "add_directory_all" => prepared' = <<>>
    BY <2>1, <2>2
  <2>4. \A n \in 1..Len(prepared') :
          Small(prepared'[n].file) \/ (n = Len(prepared') /\ ~preparing')
    BY <1>4, <2>2 DEF SourceInv, GroupInv
  <2>5. RangesStayFilled'
    <3>1. CASE inner = "Reader"
      <4>1. Len(prepared') <= 0
        BY <1>1, <1>4, <2>2, <3>1 DEF SourceInv, GroupInv
      <4>. QED  BY <2>2, <4>1 DEF RangesStayFilled
    <3>2. CASE inner # "Reader"
      <4>1. source_buffer' = source_buffer
        BY <3>2 DEF HookReturns, GivesBack
      <4>. QED  BY <2>2, <4>1 DEF SourceInv, GroupInv, RangesStayFilled
    <3>. QED  BY <3>1, <3>2
  <2>6. GroupInv'
    BY <1>4, <2>3, <2>4, <2>5 DEF GroupInv
  <2>. QED  BY <1>1, <1>3, <1>4, <2>1, <2>2, <2>6, DropPayloadInv DEF SourceInv, CallsInv
<1>. QED  BY <1>5, <1>6

LEMMA SourceNextInv ==
  ASSUME SourceInv, [SourceNext]_sourceVars
  PROVE  SourceInv'
<1>1. CASE UNCHANGED sourceVars
  BY <1>1 DEF sourceVars, payloadVars, callVars, SourceInv, CallsInv, MembersAreWhole,
              GroupInv, RangesStayFilled, PayloadInv, ChunkOfFile, ReaderInv, SliceInv, Returned, ChunkLen
<1>2. CASE HookFails
  <2>1. hook /\ DropPayload /\ \E how \in {"idle", "stopped"} : Ends(how)
    BY <1>2 DEF HookFails, GivesBack
  <2>2. call # "idle"
    BY <2>1 DEF SourceInv, CallsInv
  <2>. QED  BY <2>1, <2>2, DropPayloadInv, EndsCall DEF SourceInv
<1>3. CASE DropCall
  <2>1. DropPayload /\ Ends("stopped") /\ call # "idle"
    BY <1>3 DEF DropCall
  <2>. QED  BY <2>1, DropPayloadInv, EndsCall DEF SourceInv
<1>. QED  BY <1>1, <1>2, <1>3, MakePayloadInv, ReadsInv, AddFileInv, AddDirectoryAllInv,
             StartGroupInv, PrepareFileInv, PrepareFailsInv, StartFileInv, HookReturnsInv DEF SourceNext

(* Whatever the files, and however often the hook drops next_chunk and     *)
(* calls it again, it gets each byte of the payload once and in order.     *)
THEOREM ChunksAreTheFile == SourceSpec => []ChunksFollowOn
<1>1. SourceInv => ChunksFollowOn
  <2>. SUFFICES ASSUME SourceInv PROVE ChunksFollowOn
    OBVIOUS
  <2>1. chunk.is = "Some" => chunk.bytes = Bytes(file, taken, Len(chunk.bytes))
    BY BytesLength DEF SourceInv, PayloadInv, ChunkOfFile, Some
  <2>. QED  BY <2>1 DEF SourceInv, PayloadInv, ChunkOfFile, ReaderInv, ChunksFollowOn, Some
<1>. QED  BY SourceInitInv, SourceNextInv, <1>1, PTL DEF SourceSpec

(* A range of the shared buffer keeps its file's bytes until its turn,     *)
(* however long the files, the chunks and the groups are.                  *)
THEOREM RangesAreKept == SourceSpec => []RangesStayFilled
<1>1. SourceInv => RangesStayFilled
  BY DEF SourceInv, GroupInv
<1>. QED  BY SourceInitInv, SourceNextInv, <1>1, PTL DEF SourceSpec

(* A member whose hook returned has the bytes its header declares. *)
THEOREM ArchivedFilesAreWhole == SourceSpec => []MembersAreWhole
<1>1. SourceInv => MembersAreWhole
  BY DEF SourceInv, CallsInv
<1>. QED  BY SourceInitInv, SourceNextInv, <1>1, PTL DEF SourceSpec

-----------------------------------------------------------------------------
(* The count of active children is inductive beside the types: a step      *)
(* gives or takes the state of one node, and only the count of that node's *)
(* parent follows.                                                         *)

TreeInv == TreeType /\ CountsActiveChildren

(* There are finitely many active children, all of them nodes.             *)
LEMMA ActiveChildrenFinite ==
  ASSUME len \in Nat, NEW n
  PROVE  IsFiniteSet(ActiveChildren(n))
<1>1. IsFiniteSet(Nodes)
  BY FS_Interval DEF Nodes
<1>2. ActiveChildren(n) \subseteq Nodes
  BY DEF ActiveChildren
<1>. QED  BY <1>1, <1>2, FS_Subset

LEMMA TreeInitInv == TreeInit => TreeInv
<1>. SUFFICES ASSUME TreeInit PROVE TreeInv
  OBVIOUS
<1>1. Nodes = {ROOT_NODE}
  BY DEF TreeInit, Nodes, ROOT_NODE
<1>2. TreeType
  BY <1>1 DEF TreeInit, TreeType, ROOT_NODE
<1>3. ActiveChildren(ROOT_NODE) = {}
  BY <1>1, TreeAssumption DEF TreeInit, ActiveChildren, ROOT_NODE
<1>4. CountsActiveChildren
  BY <1>1, <1>3, FS_EmptySet DEF TreeInit, CountsActiveChildren, ROOT_NODE
<1>. QED  BY <1>2, <1>4 DEF TreeInv

(* A step that leaves the nodes, and who of them is active below whom,     *)
(* leaves the count true.                                                  *)
LEMMA SameTreeSameCount ==
  ASSUME TreeInv, UNCHANGED <<len, parent, state, children, active_children>>
  PROVE  TreeInv'
<1>1. Nodes' = Nodes /\ \A n : ActiveChildren(n)' = ActiveChildren(n)
  BY DEF Nodes, ActiveChildren
<1>. QED  BY <1>1 DEF TreeInv, TreeType, CountsActiveChildren

LEMMA AddedChildKeepsCount ==
  ASSUME TreeInv, NEW n \in Nodes, NEW component \in Components,
         AddedChild(n, component)
  PROVE  TreeInv'
<1>1. len \in Nat \ {0} /\ Nodes' = Nodes \cup {len} /\ len \notin Nodes
  BY DEF TreeInv, TreeType, AddedChild, Nodes
<1>2. TreeType'
  <2>1. /\ len' \in Nat \ {0}
        /\ parent' \in [Nodes' -> Nodes' \cup {None}]
        /\ state' \in [Nodes' -> States \cup {None}]
        /\ active_children' \in [Nodes' -> Nat]
    BY <1>1 DEF TreeInv, TreeType, AddedChild, Nodes
  <2>2. children' \in [Nodes' -> [Components -> Nodes' \cup {None}]]
    BY <1>1 DEF TreeInv, TreeType, AddedChild, Nodes
  <2>. QED  BY <2>1, <2>2 DEF TreeType
<1>3. ASSUME NEW m \in Nodes' PROVE ActiveChildren(m)' = IF m = len THEN {} ELSE ActiveChildren(m)
  BY <1>1, TreeAssumption DEF TreeInv, TreeType, AddedChild, ActiveChildren, Nodes
<1>4. ASSUME NEW m \in Nodes' PROVE active_children'[m] = Cardinality(ActiveChildren(m)')
  <2>1. CASE m = len
    <3>1. ActiveChildren(m)' = {} /\ len \in 0..len
      BY <1>1, <1>3, <2>1
    <3>. QED  BY <2>1, <3>1, FS_EmptySet DEF AddedChild
  <2>2. CASE m # len
    <3>1. m \in Nodes /\ m \in 0..len
      BY <1>1, <2>2 DEF Nodes
    <3>2. active_children'[m] = active_children[m]
      BY <2>2, <3>1 DEF AddedChild
    <3>. QED  BY <1>3, <2>2, <3>1, <3>2 DEF TreeInv, CountsActiveChildren
  <2>. QED  BY <2>1, <2>2
<1>. QED  BY <1>2, <1>4 DEF TreeInv, CountsActiveChildren

LEMMA SetStateKeepsCount ==
  ASSUME TreeInv, NEW n \in Nodes, NEW new \in States, SetState(n, new)
  PROVE  TreeInv'
<1>1. Nodes' = Nodes /\ parent' = parent
  BY DEF SetState, Nodes
<1>2. TreeType'
  BY <1>1 DEF TreeInv, TreeType, SetState, Activates
<1>3. CASE Activates(n)
  <2>. DEFINE p == parent[n]
  <2>1. p \in Nodes /\ n \notin ActiveChildren(p)
    BY <1>3 DEF TreeInv, TreeType, Activates, ActiveChildren
  <2>2. ActiveChildren(p)' = ActiveChildren(p) \cup {n}
    BY <1>1, <1>3, <2>1, TreeAssumption DEF TreeInv, TreeType, SetState, ActiveChildren
  <2>3. active_children'[p] = Cardinality(ActiveChildren(p)')
    <3>1. active_children'[p] = Cardinality(ActiveChildren(p)) + 1
      BY <1>3, <2>1 DEF TreeInv, TreeType, CountsActiveChildren, SetState
    <3>2. Cardinality(ActiveChildren(p) \cup {n}) = Cardinality(ActiveChildren(p)) + 1
      BY <2>1, ActiveChildrenFinite, FS_AddElement DEF TreeInv, TreeType
    <3>. QED  BY <2>2, <3>1, <3>2
  <2>4. ASSUME NEW m \in Nodes, m # p
        PROVE  active_children'[m] = Cardinality(ActiveChildren(m)')
    <3>1. ActiveChildren(m)' = ActiveChildren(m)
      BY <1>1, <2>4 DEF TreeInv, TreeType, SetState, ActiveChildren
    <3>. QED  BY <1>3, <2>1, <2>4, <3>1 DEF TreeInv, TreeType, CountsActiveChildren, SetState
  <2>. QED  BY <1>1, <1>2, <2>3, <2>4 DEF TreeInv, CountsActiveChildren
<1>4. CASE ~Activates(n)
  <2>1. ASSUME NEW m \in Nodes PROVE ActiveChildren(m)' = ActiveChildren(m)
    BY <1>1, <1>4, TreeAssumption
    DEF TreeInv, TreeType, SetState, Activates, ActiveChildren, Nodes
  <2>. QED  BY <1>1, <1>2, <1>4, <2>1 DEF TreeInv, CountsActiveChildren, SetState
<1>. QED  BY <1>3, <1>4

LEMMA ClearStateKeepsCount ==
  ASSUME TreeInv, NEW n \in Nodes, ClearState(n)
  PROVE  TreeInv'
<1>1. Nodes' = Nodes /\ parent' = parent
  BY DEF ClearState, Nodes
<1>2. CASE Deactivates(n)
  <2>. DEFINE p == parent[n]
  <2>1. p \in Nodes /\ n \in ActiveChildren(p)
    BY <1>2 DEF TreeInv, TreeType, Deactivates, ActiveChildren
  <2>2. ActiveChildren(p)' = ActiveChildren(p) \ {n}
    BY <1>1, <1>2, <2>1 DEF TreeInv, TreeType, ClearState, ActiveChildren
  <2>3. Cardinality(ActiveChildren(p) \ {n}) = Cardinality(ActiveChildren(p)) - 1
    BY <2>1, ActiveChildrenFinite, FS_RemoveElement DEF TreeInv, TreeType
  <2>4. Cardinality(ActiveChildren(p) \ {n}) \in Nat
    BY ActiveChildrenFinite, FS_RemoveElement, FS_CardinalityType DEF TreeInv, TreeType
  <2>5. /\ active_children' = [active_children EXCEPT ![p] = @ - 1]
        /\ active_children'[p] = Cardinality(ActiveChildren(p)')
    BY <1>2, <2>1, <2>2, <2>3 DEF TreeInv, TreeType, CountsActiveChildren, ClearState
  <2>6. TreeType'
    BY <1>1, <2>1, <2>2, <2>4, <2>5 DEF TreeInv, TreeType, ClearState
  <2>7. ASSUME NEW m \in Nodes, m # p
        PROVE  active_children'[m] = Cardinality(ActiveChildren(m)')
    <3>1. ActiveChildren(m)' = ActiveChildren(m)
      BY <1>1, <2>7 DEF TreeInv, TreeType, ClearState, ActiveChildren
    <3>. QED  BY <2>1, <2>5, <2>7, <3>1 DEF TreeInv, TreeType, CountsActiveChildren
  <2>. QED  BY <1>1, <2>5, <2>6, <2>7 DEF TreeInv, CountsActiveChildren
<1>3. CASE ~Deactivates(n)
  <2>1. TreeType'
    BY <1>1, <1>3 DEF TreeInv, TreeType, ClearState
  <2>2. ASSUME NEW m \in Nodes PROVE ActiveChildren(m)' = ActiveChildren(m)
    BY <1>1, <1>3, TreeAssumption
    DEF TreeInv, TreeType, ClearState, Deactivates, ActiveChildren, Nodes
  <2>. QED  BY <1>1, <1>3, <2>1, <2>2 DEF TreeInv, CountsActiveChildren, ClearState
<1>. QED  BY <1>2, <1>3

LEMMA TreeNextInv == TreeInv /\ [TreeNext]_treeVars => TreeInv'
<1>. SUFFICES ASSUME TreeInv, [TreeNext]_treeVars PROVE TreeInv'
  OBVIOUS
<1>1. CASE UNCHANGED treeVars
  BY <1>1, SameTreeSameCount DEF treeVars
<1>2. ASSUME NEW n \in Nodes, NEW component \in Components, EnsureChild(n, component)
      PROVE  TreeInv'
  BY <1>2, AddedChildKeepsCount, SameTreeSameCount DEF EnsureChild, FoundChild
<1>3. ASSUME NEW n \in Nodes, Asks(n) PROVE TreeInv'
  BY <1>3, SameTreeSameCount DEF Asks
<1>. QED  BY <1>1, <1>2, <1>3, SetStateKeepsCount, ClearStateKeepsCount DEF TreeNext

(* The count is the number of direct children with a state, for every      *)
(* sequence of calls.                                                      *)
THEOREM ChildrenAreCounted == TreeSpec => []CountsActiveChildren
<1>1. TreeInv => CountsActiveChildren
  BY DEF TreeInv
<1>. QED  BY TreeInitInv, TreeNextInv, <1>1, PTL DEF TreeSpec

-----------------------------------------------------------------------------
(* The tree is a function from paths to states.                            *)

Paths == Seq(Components)

(* The edges make a tree: a node is made after its parent, and one edge    *)
(* leads to it.                                                            *)
RootInv == parent[ROOT_NODE] = None

EdgesInv ==
  /\ \A n \in Nodes : n # ROOT_NODE =>
       /\ parent[n] \in 0..(n - 1)
       /\ \E c \in Components : children[parent[n]][c] = n
  /\ \A m \in Nodes, c \in Components : children[m][c] # None =>
       /\ children[m][c] # ROOT_NODE
       /\ parent[children[m][c]] = m
       /\ \A d \in Components : children[m][d] = children[m][c] => d = c

LEMMA EdgeOf ==
  ASSUME TreeType, EdgesInv, NEW n \in Nodes, n # ROOT_NODE
  PROVE  /\ Edge(n) \in Components /\ parent[n] \in Nodes /\ parent[n] \in 0..(n - 1)
         /\ children[parent[n]][Edge(n)] = n
         /\ \A c \in Components : children[parent[n]][c] = n => c = Edge(n)
<1>1. parent[n] \in 0..(n - 1) /\ parent[n] \in Nodes
  BY DEF EdgesInv, Nodes, TreeType
<1>2. PICK c \in Components : children[parent[n]][c] = n
  BY DEF EdgesInv
<1>3. Edge(n) \in Components /\ children[parent[n]][Edge(n)] = n
  BY <1>2 DEF Edge
<1>4. n # None
  BY TreeAssumption DEF TreeType, Nodes
<1>5. \A d \in Components : children[parent[n]][d] = n => d = Edge(n)
  BY <1>1, <1>3, <1>4 DEF EdgesInv
<1>. QED  BY <1>1, <1>3, <1>5

LEMMA ChildOf ==
  ASSUME TreeType, EdgesInv, NEW m \in Nodes, NEW c \in Components, children[m][c] # None
  PROVE  /\ children[m][c] \in Nodes /\ children[m][c] # ROOT_NODE
         /\ parent[children[m][c]] = m /\ Edge(children[m][c]) = c
<1>. DEFINE n == children[m][c]
<1>1. n \in Nodes /\ n # ROOT_NODE /\ parent[n] = m
  BY DEF TreeType, EdgesInv
<1>. QED  BY <1>1, EdgeOf

-----------------------------------------------------------------------------
(* Every node has one path.                                                *)

IsPaths(f) ==
  f = [n \in Nodes |-> IF n = ROOT_NODE THEN <<>> ELSE Append(f[parent[n]], Edge(n))]

LEMMA AppendEq ==
  \A p, q \in Paths : \A c, d \in Components :
    /\ Append(p, c) = Append(q, d) => p = q /\ c = d
    /\ Append(p, c) # <<>> /\ Append(p, c) \in Paths /\ Len(Append(p, c)) = Len(p) + 1
    /\ Len(p) \in Nat
    /\ SubSeq(Append(p, c), 1, Len(p)) = p
<1>. SUFFICES ASSUME NEW p \in Paths, NEW q \in Paths, NEW c \in Components, NEW d \in Components
     PROVE  /\ Append(p, c) = Append(q, d) => p = q /\ c = d
            /\ Append(p, c) # <<>> /\ Append(p, c) \in Paths /\ Len(Append(p, c)) = Len(p) + 1
            /\ Len(p) \in Nat
            /\ SubSeq(Append(p, c), 1, Len(p)) = p
  OBVIOUS
<1>1. /\ Append(p, c) \in Paths /\ Len(Append(p, c)) = Len(p) + 1 /\ Append(p, c)[Len(p) + 1] = c
      /\ \A i \in 1..Len(p) : Append(p, c)[i] = p[i]
      /\ Len(p) \in Nat
  BY DEF Paths
<1>2. /\ Append(q, d) \in Paths /\ Len(Append(q, d)) = Len(q) + 1 /\ Append(q, d)[Len(q) + 1] = d
      /\ \A i \in 1..Len(q) : Append(q, d)[i] = q[i]
      /\ Len(q) \in Nat
  BY DEF Paths
<1>3. Append(p, c) = Append(q, d) => p = q /\ c = d
  <2>1. ASSUME Append(p, c) = Append(q, d) PROVE p = q /\ c = d
    <3>1. Len(p) = Len(q) /\ c = d /\ \A i \in 1..Len(p) : p[i] = q[i]
      BY <1>1, <1>2, <2>1
    <3>. QED  BY <3>1, SeqEqual DEF Paths
  <2>. QED  BY <2>1
<1>4. Append(p, c) # <<>>
  BY <1>1
<1>5. SubSeq(Append(p, c), 1, Len(p)) = p
  <2>. DEFINE a == Append(p, c)
  <2>1. \A i \in 1..Len(p) : a[i] \in Components
    BY <1>1 DEF Paths
  <2>. HIDE DEF a
  <2>2. /\ SubSeq(a, 1, Len(p)) \in Paths /\ Len(SubSeq(a, 1, Len(p))) = Len(p)
        /\ \A i \in 1..Len(p) : SubSeq(a, 1, Len(p))[i] = a[i]
    BY <1>1, <2>1, SubSeqProperties DEF Paths
  <2>3. \A i \in 1..Len(p) : SubSeq(a, 1, Len(p))[i] = p[i]
    BY <1>1, <2>2 DEF a
  <2>. QED  BY <2>2, <2>3, SeqEqual DEF Paths, a
<1>. QED  BY <1>1, <1>3, <1>4, <1>5

LEMMA PathsExist ==
  ASSUME TreeType, EdgesInv
  PROVE  \E f : IsPaths(f)
<1>. DEFINE Upto(k, f) == f = [n \in 0..k |->
                           IF n = ROOT_NODE THEN <<>> ELSE Append(f[parent[n]], Edge(n))]
            T == { k \in 0..(len - 1) : \E f : Upto(k, f) }
<1>1. len - 1 \in Nat /\ 0 \in 0..(len - 1)
  BY DEF TreeType
<1>2. 0 \in T
  <2>1. Upto(0, [n \in 0..0 |-> <<>>])
    BY DEF ROOT_NODE
  <2>. QED  BY <1>1, <2>1
<1>3. ASSUME NEW k \in 0..(len - 1 - 1), k \in T PROVE k + 1 \in T
  <2>1. PICK f : Upto(k, f)
    BY <1>3
  <2>. DEFINE g == [n \in 0..(k + 1) |->
                      IF n = ROOT_NODE THEN <<>> ELSE Append(f[parent[n]], Edge(n))]
  <2>2. k + 1 \in 0..(len - 1) /\ k \in Nat
    BY <1>1, <1>3
  <2>3. ASSUME NEW n \in 0..k PROVE n \in 0..(k + 1) /\ g[n] = f[n]
    <3>1. n \in 0..(k + 1)
      BY <2>2
    <3>2. g[n] = IF n = ROOT_NODE THEN <<>> ELSE Append(f[parent[n]], Edge(n))
      BY <3>1
    <3>3. f[n] = IF n = ROOT_NODE THEN <<>> ELSE Append(f[parent[n]], Edge(n))
      BY <2>1
    <3>. QED  BY <3>1, <3>2, <3>3
  <2>4. ASSUME NEW n \in 0..(k + 1), n # ROOT_NODE PROVE g[parent[n]] = f[parent[n]]
    <3>1. n \in Nodes /\ n - 1 \in 0..k
      BY <1>1, <2>2, <2>4 DEF Nodes, ROOT_NODE, TreeType
    <3>2. parent[n] \in 0..(n - 1)
      BY <2>4, <3>1, EdgeOf
    <3>3. parent[n] \in 0..k
      BY <2>2, <3>1, <3>2
    <3>. QED  BY <2>3, <3>3
  <2>5. Upto(k + 1, g)
    BY <2>4
  <2>. HIDE DEF g, Upto
  <2>. QED  BY <2>2, <2>5
<1>4. len - 1 \in T
  <2>. HIDE DEF T
  <2>1. \A k \in 0..(len - 1) : k \in T
    <3>. DEFINE N == len - 1
    <3>1. N \in Nat /\ \A k \in 0..(N - 1) : k \in T => k + 1 \in T
      BY <1>1, <1>3
    <3>. HIDE DEF N
    <3>2. \A k \in 0..N : k \in T
      BY <1>2, <3>1, CountingUp
    <3>. QED  BY <3>2 DEF N
  <2>2. len - 1 \in 0..(len - 1)
    BY <1>1
  <2>. QED  BY <2>1, <2>2
<1>. QED  BY <1>4 DEF IsPaths, Nodes

LEMMA PathsOf ==
  ASSUME TreeType, EdgesInv
  PROVE  /\ DOMAIN PathOf = Nodes /\ PathOf[ROOT_NODE] = <<>>
         /\ \A n \in Nodes : n # ROOT_NODE => PathOf[n] = Append(PathOf[parent[n]], Edge(n))
<1>1. IsPaths(PathOf)
  BY PathsExist DEF PathOf, IsPaths
<1>2. ROOT_NODE \in Nodes
  BY DEF Nodes, ROOT_NODE, TreeType
<1>. HIDE DEF PathOf
<1>3. DOMAIN PathOf = Nodes
  BY <1>1 DEF IsPaths
<1>4. \A n \in Nodes : PathOf[n] = IF n = ROOT_NODE THEN <<>> ELSE Append(PathOf[parent[n]], Edge(n))
  BY <1>1 DEF IsPaths
<1>. QED  BY <1>2, <1>3, <1>4

(* A claim about a node follows from that about its parent.                *)
LEMMA DownTheTree ==
  ASSUME TreeType, EdgesInv, NEW S, ROOT_NODE \in S,
         \A n \in Nodes : n # ROOT_NODE /\ parent[n] \in S => n \in S
  PROVE  Nodes \subseteq S
<1>. DEFINE N == len - 1
            T == { k \in 0..N : \A n \in 0..k : n \in S }
<1>1. N \in Nat
  BY DEF TreeType
<1>2. 0 \in T
  BY <1>1 DEF ROOT_NODE
<1>3. ASSUME NEW k \in 0..(N - 1), k \in T PROVE k + 1 \in T
  <2>1. k + 1 \in 0..N /\ k + 1 \in Nodes /\ k + 1 # ROOT_NODE /\ (k + 1) - 1 = k
    BY <1>1, <1>3 DEF Nodes, ROOT_NODE
  <2>2. parent[k + 1] \in 0..k
    BY <2>1, EdgeOf
  <2>3. k + 1 \in S
    BY <1>3, <2>1, <2>2
  <2>4. \A n \in 0..(k + 1) : n \in 0..k \/ n = k + 1
    BY <1>1, <1>3
  <2>. QED  BY <1>3, <2>1, <2>3, <2>4
<1>4. \A k \in 0..N : k \in T
  <2>. HIDE DEF T, N
  <2>. QED  BY <1>1, <1>2, <1>3, CountingUp
<1>5. N \in 0..N
  BY <1>1
<1>. QED  BY <1>4, <1>5 DEF Nodes

LEMMA PathsType ==
  ASSUME TreeType, EdgesInv
  PROVE  \A n \in Nodes : PathOf[n] \in Paths
<1>. DEFINE S == { n \in Nodes : PathOf[n] \in Paths }
<1>1. ROOT_NODE \in S
  <2>1. PathOf[ROOT_NODE] = <<>> /\ <<>> \in Paths
    BY PathsOf, EmptySeq DEF Paths
  <2>2. ROOT_NODE \in Nodes
    BY DEF Nodes, ROOT_NODE, TreeType
  <2>. QED  BY <2>1, <2>2
<1>2. ASSUME NEW n \in Nodes, n # ROOT_NODE, parent[n] \in S PROVE n \in S
  <2>1. PathOf[n] = Append(PathOf[parent[n]], Edge(n)) /\ Edge(n) \in Components
    BY <1>2, PathsOf, EdgeOf
  <2>2. PathOf[parent[n]] \in Paths
    BY <1>2
  <2>3. Append(PathOf[parent[n]], Edge(n)) \in Paths
    BY <2>1, <2>2, AppendEq, Zenon
  <2>. QED  BY <2>1, <2>3
<1>3. Nodes \subseteq S
  <2>. HIDE DEF S
  <2>. QED  BY <1>1, <1>2, DownTheTree
<1>. QED  BY <1>3

LEMMA PathsApart ==
  ASSUME TreeType, EdgesInv
  PROVE  \A n, m \in Nodes : PathOf[n] = PathOf[m] => n = m
<1>. DEFINE S == { n \in Nodes : \A m \in Nodes : PathOf[n] = PathOf[m] => n = m }
<1>0. \A m \in Nodes : m # ROOT_NODE =>
        /\ PathOf[m] = Append(PathOf[parent[m]], Edge(m)) /\ Edge(m) \in Components
        /\ parent[m] \in Nodes /\ PathOf[parent[m]] \in Paths
        /\ children[parent[m]][Edge(m)] = m
  BY PathsOf, EdgeOf, PathsType
<1>1. ROOT_NODE \in S
  <2>1. \A m \in Nodes : m # ROOT_NODE => PathOf[m] # <<>>
    BY <1>0, AppendEq
  <2>. QED  BY <2>1, PathsOf DEF Nodes, ROOT_NODE, TreeType
<1>2. ASSUME NEW n \in Nodes, n # ROOT_NODE, parent[n] \in S PROVE n \in S
  <2>1. SUFFICES ASSUME NEW m \in Nodes, PathOf[n] = PathOf[m] PROVE n = m
    OBVIOUS
  <2>2. m # ROOT_NODE
    BY <1>0, <1>2, <2>1, PathsOf, AppendEq
  <2>3. PathOf[parent[n]] = PathOf[parent[m]] /\ Edge(n) = Edge(m)
    <3>1. Append(PathOf[parent[n]], Edge(n)) = Append(PathOf[parent[m]], Edge(m))
      BY <1>0, <1>2, <2>1, <2>2
    <3>2. /\ PathOf[parent[n]] \in Paths /\ Edge(n) \in Components
          /\ PathOf[parent[m]] \in Paths /\ Edge(m) \in Components
      BY <1>0, <1>2, <2>2
    <3>3. \A p, q \in Paths : \A c, d \in Components :
            Append(p, c) = Append(q, d) => p = q /\ c = d
      BY AppendEq
    <3>. QED  BY SMTT(30), <3>1, <3>2, <3>3
  <2>4. parent[n] = parent[m]
    BY <1>0, <1>2, <2>2, <2>3
  <2>. QED  BY <1>0, <1>2, <2>2, <2>3, <2>4
<1>3. Nodes \subseteq S
  <2>. HIDE DEF S
  <2>. QED  BY <1>1, <1>2, DownTheTree
<1>. QED  BY <1>3

(* The child is the node whose path is one component longer.               *)
LEMMA ChildByPath ==
  ASSUME TreeType, EdgesInv, NEW n \in Nodes, NEW c \in Components
  PROVE  \A k \in Nodes : PathOf[k] = Append(PathOf[n], c) <=> children[n][c] = k
<1>1. SUFFICES ASSUME NEW k \in Nodes
      PROVE  PathOf[k] = Append(PathOf[n], c) <=> children[n][c] = k
  OBVIOUS
<1>2. PathOf[n] \in Paths
  BY PathsType
<1>3. ASSUME children[n][c] = k PROVE PathOf[k] = Append(PathOf[n], c)
  <2>1. k # None
    BY TreeAssumption DEF Nodes, TreeType
  <2>2. k # ROOT_NODE /\ parent[k] = n /\ Edge(k) = c
    BY <1>3, <2>1, ChildOf
  <2>. QED  BY <2>2, PathsOf
<1>4. ASSUME PathOf[k] = Append(PathOf[n], c) PROVE children[n][c] = k
  <2>1. k # ROOT_NODE
    BY <1>2, <1>4, PathsOf, AppendEq
  <2>2. /\ PathOf[k] = Append(PathOf[parent[k]], Edge(k)) /\ Edge(k) \in Components
        /\ parent[k] \in Nodes /\ children[parent[k]][Edge(k)] = k
    BY <2>1, PathsOf, EdgeOf
  <2>3. PathOf[parent[k]] \in Paths
    BY <2>2, PathsType
  <2>4. PathOf[parent[k]] = PathOf[n] /\ Edge(k) = c
    <3>1. Append(PathOf[parent[k]], Edge(k)) = Append(PathOf[n], c)
      BY <1>4, <2>2
    <3>. QED  BY <1>2, <2>2, <2>3, <3>1, AppendEq
  <2>5. parent[k] = n
    BY <2>2, <2>4, PathsApart
  <2>. QED  BY <2>2, <2>4, <2>5
<1>. QED  BY <1>3, <1>4
-----------------------------------------------------------------------------
(* What the path of a node and the states by path are, in one formula that *)
(* can be taken over a step.                                               *)

PathsGood ==
  /\ ROOT_NODE \in Nodes /\ PathOf[ROOT_NODE] = <<>>
  /\ \A n \in Nodes : n # ROOT_NODE =>
       /\ PathOf[n] = Append(PathOf[parent[n]], Edge(n))
       /\ Edge(n) \in Components /\ parent[n] \in Nodes
       /\ \A c \in Components : children[parent[n]][c] = n <=> c = Edge(n)
  /\ \A n \in Nodes : PathOf[n] \in Paths
  /\ \A n, m \in Nodes : PathOf[n] = PathOf[m] => n = m
  /\ \A n, k \in Nodes : \A c \in Components :
       PathOf[k] = Append(PathOf[n], c) <=> children[n][c] = k

LEMMA PathsAreGood == TreeType /\ EdgesInv => PathsGood
<1>1. SUFFICES ASSUME TreeType, EdgesInv PROVE PathsGood
  OBVIOUS
<1>2. ROOT_NODE \in Nodes /\ PathOf[ROOT_NODE] = <<>>
  BY <1>1, PathsOf DEF Nodes, ROOT_NODE, TreeType
<1>3. ASSUME NEW n \in Nodes, n # ROOT_NODE
      PROVE  /\ PathOf[n] = Append(PathOf[parent[n]], Edge(n))
             /\ Edge(n) \in Components /\ parent[n] \in Nodes
             /\ \A c \in Components : children[parent[n]][c] = n <=> c = Edge(n)
  BY <1>1, <1>3, PathsOf, EdgeOf
<1>. QED  BY <1>1, <1>2, <1>3, PathsType, PathsApart, ChildByPath DEF PathsGood

StatesGood ==
  /\ DOMAIN StatesByPath = { PathOf[n] : n \in Active }
  /\ \A n \in Nodes : PathOf[n] \in DOMAIN StatesByPath <=> state[n] # None
  /\ \A n \in Nodes : state[n] # None => StatesByPath[PathOf[n]] = state[n]

LEMMA StatesAreGood == PathsGood => StatesGood
<1>1. SUFFICES ASSUME PathsGood PROVE StatesGood
  OBVIOUS
<1>2. DOMAIN StatesByPath = { PathOf[n] : n \in Active }
  BY DEF StatesByPath
<1>3. ASSUME NEW n \in Nodes PROVE PathOf[n] \in DOMAIN StatesByPath <=> state[n] # None
  BY <1>1, <1>2 DEF PathsGood, Active
<1>4. ASSUME NEW n \in Nodes, state[n] # None PROVE StatesByPath[PathOf[n]] = state[n]
  <2>1. n \in Active /\ PathOf[n] \in { PathOf[m] : m \in Active }
    BY <1>4 DEF Active
  <2>2. \A m \in Active : PathOf[m] = PathOf[n] => m = n
    BY <1>1 DEF PathsGood, Active
  <2>3. (CHOOSE m \in Active : PathOf[m] = PathOf[n]) = n
    BY <2>1, <2>2
  <2>. QED  BY <2>1, <2>3 DEF StatesByPath
<1>. QED  BY <1>2, <1>3, <1>4 DEF StatesGood

(* Paths with a state one component below that of n are those of its       *)
(* active children.                                                        *)
LEMMA BelowNode ==
  ASSUME RootInv, PathsGood, StatesGood, TreeType, NEW n \in Nodes
  PROVE  Abstract!Below(PathOf[n]) = { PathOf[m] : m \in ActiveChildren(n) }
<1>. DEFINE p == PathOf[n]
            Under(q) == Len(q) = Len(p) + 1 /\ SubSeq(q, 1, Len(p)) = p
<1>1. p \in Paths /\ Len(p) \in Nat
  BY DEF PathsGood, Paths
<1>2. ASSUME NEW m \in Nodes PROVE Under(PathOf[m]) <=> parent[m] = n
  <2>1. CASE m = ROOT_NODE
    <3>1. PathOf[m] = <<>> /\ Len(<<>>) = 0
      BY <2>1 DEF PathsGood
    <3>2. parent[m] # n
      BY <2>1, TreeAssumption DEF RootInv, Nodes, TreeType
    <3>. QED  BY <1>1, <3>1, <3>2
  <2>2. CASE m # ROOT_NODE
    <3>1. /\ PathOf[m] = Append(PathOf[parent[m]], Edge(m)) /\ Edge(m) \in Components
          /\ parent[m] \in Nodes /\ PathOf[parent[m]] \in Paths
      BY <2>2 DEF PathsGood
    <3>. DEFINE r == PathOf[parent[m]]
                e == Edge(m)
    <3>2. /\ Len(Append(r, e)) = Len(r) + 1 /\ Len(r) \in Nat
          /\ SubSeq(Append(r, e), 1, Len(r)) = r
      BY <3>1, AppendEq
    <3>3. Under(PathOf[m]) <=> r = p
      <4>. HIDE DEF p, r, e
      <4>. QED  BY <1>1, <3>1, <3>2 DEF r, e
    <3>4. r = p <=> parent[m] = n
      BY <3>1 DEF PathsGood
    <3>. QED  BY <3>3, <3>4
  <2>. QED  BY <2>1, <2>2
<1>3. Abstract!Below(p) = { q \in DOMAIN StatesByPath : Under(q) }
  BY DEF Abstract!Below
<1>4. ActiveChildren(n) = { m \in Active : parent[m] = n }
  BY DEF ActiveChildren, Active
<1>. HIDE DEF Under
<1>5. DOMAIN StatesByPath = { PathOf[m] : m \in Active } /\ Active \subseteq Nodes
  BY DEF StatesGood, Active
<1>. QED  BY <1>2, <1>3, <1>4, <1>5
-----------------------------------------------------------------------------
(* The steps.                                                              *)

PathsInv == TreeInv /\ RootInv /\ EdgesInv

LEMMA InitPaths == TreeInit => PathsInv
<1>. SUFFICES ASSUME TreeInit PROVE PathsInv
  OBVIOUS
<1>1. Nodes = {ROOT_NODE}
  BY DEF TreeInit, Nodes, ROOT_NODE
<1>. QED  BY <1>1, TreeInitInv DEF PathsInv, RootInv, EdgesInv, TreeInit, ROOT_NODE

LEMMA AddedKeepsPaths ==
  ASSUME PathsInv, NEW n \in Nodes, NEW component \in Components, AddedChild(n, component)
  PROVE  PathsInv'
<1>1. TreeInv'
  BY AddedChildKeepsCount DEF PathsInv
<1>2. /\ len \in Nat \ {0} /\ Nodes' = Nodes \cup {len} /\ len \notin Nodes
      /\ ROOT_NODE \in Nodes /\ Nodes' = 0..len /\ None \notin Nodes'
  BY TreeAssumption DEF PathsInv, TreeInv, TreeType, AddedChild, Nodes, ROOT_NODE
<1>3. /\ parent'[len] = n /\ \A m \in Nodes : parent'[m] = parent[m]
      /\ \A c \in Components : children'[len][c] = None
      /\ \A m \in Nodes, c \in Components :
           children'[m][c] = IF m = n /\ c = component THEN len ELSE children[m][c]
  <2>1. \A m \in Nodes : children[m] \in [Components -> Nodes \cup {None}]
    BY DEF PathsInv, TreeInv, TreeType
  <2>. QED  BY <1>2, <2>1 DEF AddedChild
<1>4. children[n][component] = None
  BY DEF AddedChild, Known
<1>5. RootInv'
  BY <1>2, <1>3 DEF PathsInv, RootInv
<1>6. \A m \in Nodes, c \in Components : children[m][c] # None => children[m][c] \in Nodes
  BY DEF PathsInv, TreeInv, TreeType
<1>7. ASSUME NEW m \in Nodes', m # ROOT_NODE
      PROVE  /\ parent'[m] \in 0..(m - 1)
             /\ \E c \in Components : children'[parent'[m]][c] = m
  <2>1. CASE m = len
    <3>1. n \in 0..(len - 1)
      BY DEF Nodes
    <3>. QED  BY <1>3, <2>1, <3>1
  <2>2. CASE m \in Nodes
    <3>1. parent[m] \in 0..(m - 1) /\ parent[m] \in Nodes
      BY <1>7, <2>2 DEF PathsInv, TreeInv, TreeType, EdgesInv, Nodes
    <3>2. PICK c \in Components : children[parent[m]][c] = m
      BY <1>7, <2>2 DEF PathsInv, EdgesInv
    <3>3. children'[parent[m]][c] = m
      BY <1>2, <1>3, <1>4, <2>2, <3>1, <3>2
    <3>. QED  BY <1>3, <2>2, <3>1, <3>3
  <2>. QED  BY <1>2, <2>1, <2>2
<1>8. ASSUME NEW m \in Nodes', NEW c \in Components, children'[m][c] # None
      PROVE  /\ children'[m][c] # ROOT_NODE
             /\ parent'[children'[m][c]] = m
             /\ \A d \in Components : children'[m][d] = children'[m][c] => d = c
  <2>1. m \in Nodes
    BY <1>2, <1>3, <1>8
  <2>2. CASE m = n /\ c = component
    <3>1. children'[m][c] = len /\ \A d \in Components : d # c => children'[m][d] # len
      BY <1>2, <1>3, <1>6, <2>1, <2>2
    <3>. QED  BY <1>2, <1>3, <2>2, <3>1
  <2>3. CASE ~(m = n /\ c = component)
    <3>1. /\ children'[m][c] = children[m][c] /\ children[m][c] \in Nodes
          /\ children[m][c] # ROOT_NODE /\ parent[children[m][c]] = m
      BY <1>3, <1>6, <1>8, <2>1, <2>3 DEF PathsInv, EdgesInv
    <3>2. ASSUME NEW d \in Components, children'[m][d] = children'[m][c] PROVE d = c
      <4>1. children'[m][d] = children[m][d]
        BY <1>2, <1>3, <2>1, <3>1, <3>2
      <4>2. children[m][c] # None /\ children[m][d] = children[m][c]
        BY <1>8, <3>1, <3>2, <4>1
      <4>. QED  BY <2>1, <4>2 DEF PathsInv, EdgesInv
    <3>. QED  BY <1>3, <3>1, <3>2
  <2>. QED  BY <2>2, <2>3
<1>9. EdgesInv'
  BY <1>7, <1>8 DEF EdgesInv
<1>. QED  BY <1>1, <1>5, <1>9 DEF PathsInv

LEMMA SameEdges ==
  ASSUME PathsInv, UNCHANGED <<len, parent, children>>
  PROVE  RootInv' /\ EdgesInv' /\ NodePaths' = NodePaths /\ PathOf' = PathOf /\ Nodes' = Nodes
<1>1. Nodes' = Nodes
  BY DEF Nodes
<1>2. \A n : Edge(n)' = Edge(n)
  BY DEF Edge
<1>3. PathOf' = PathOf
  BY <1>1, <1>2 DEF PathOf
<1>. QED  BY <1>1, <1>3 DEF PathsInv, RootInv, EdgesInv, NodePaths

LEMMA NextPaths == PathsInv /\ [TreeNext]_treeVars => PathsInv'
<1>. SUFFICES ASSUME PathsInv, [TreeNext]_treeVars PROVE PathsInv'
  OBVIOUS
<1>1. TreeInv'
  BY TreeNextInv DEF PathsInv
<1>2. CASE UNCHANGED <<len, parent, children>>
  BY <1>1, <1>2, SameEdges DEF PathsInv
<1>3. ASSUME NEW n \in Nodes, NEW component \in Components, AddedChild(n, component)
      PROVE  PathsInv'
  BY <1>3, AddedKeepsPaths
<1>. QED  BY <1>2, <1>3 DEF TreeNext, treeVars, EnsureChild, FoundChild, SetState, ClearState, Asks

LEMMA GoodPaths == PathsInv => PathsGood /\ StatesGood /\ TreeType /\ RootInv
BY PathsAreGood, StatesAreGood DEF PathsInv, TreeInv

LEMMA HandlesAreNodes == DOMAIN NodePaths = Nodes /\ \A n \in Nodes : NodePaths[n] = PathOf[n]
BY DEF NodePaths

(* The answers to the queries are those of the paths.                      *)
LEMMA AsksByPath ==
  ASSUME PathsInv, NEW n \in Nodes, Asks(n)
  PROVE  Abstract!PathStatesNext
<1>1. PathsGood /\ StatesGood /\ TreeType /\ RootInv
  BY GoodPaths
<1>2. NodePaths' = NodePaths /\ StatesByPath' = StatesByPath /\ n \in DOMAIN NodePaths
  BY SameEdges, HandlesAreNodes DEF Asks, StatesByPath, Active
<1>3. ASSUME NEW component \in Components, answer' = [node |-> Child(n, component)]
      PROVE  Abstract!AskChild(n, component)
  <2>. DEFINE known == { k \in DOMAIN NodePaths : NodePaths[k] = Append(NodePaths[n], component) }
  <2>1. known = { k \in Nodes : children[n][component] = k }
    BY <1>1, HandlesAreNodes DEF PathsGood
  <2>2. CASE children[n][component] = None
    <3>1. known = {}
      <4>1. \A k \in Nodes : k # None
        BY <1>1, TreeAssumption DEF TreeType, Nodes
      <4>. HIDE DEF known
      <4>. QED  BY <2>1, <2>2, <4>1
    <3>. QED  BY <1>2, <1>3, <2>2, <3>1 DEF Abstract!AskChild, Child
  <2>3. CASE children[n][component] # None
    <3>1. children[n][component] \in known
      BY <1>1, <2>1, <2>3 DEF TreeType
    <3>. QED  BY <1>2, <1>3, <3>1 DEF Abstract!AskChild, Child
  <2>. QED  BY <2>2, <2>3
<1>4. ASSUME answer' = [state |-> State(n)] PROVE Abstract!AskState(n)
  BY <1>1, <1>2, <1>4, HandlesAreNodes DEF Abstract!AskState, State, StatesGood
<1>5. ASSUME answer' = [active |-> HasActiveChildren(n)] PROVE Abstract!AskActiveChildren(n)
  <2>1. HasActiveChildren(n) <=> ActiveChildren(n) # {}
    <3>1. IsFiniteSet(ActiveChildren(n)) /\ active_children[n] = Cardinality(ActiveChildren(n))
      BY <1>1, ActiveChildrenFinite DEF PathsInv, TreeInv, TreeType, CountsActiveChildren
    <3>. QED  BY <3>1, FS_EmptySet DEF HasActiveChildren
  <2>2. Abstract!Below(NodePaths[n]) # {} <=> ActiveChildren(n) # {}
    BY <1>1, BelowNode, HandlesAreNodes
  <2>3. HasActiveChildren(n) = (Abstract!Below(NodePaths[n]) # {})
    BY <2>1, <2>2 DEF HasActiveChildren
  <2>. QED  BY <1>2, <1>5, <2>3 DEF Abstract!AskActiveChildren
<1>. QED  BY <1>2, <1>3, <1>4, <1>5 DEF Abstract!PathStatesNext, Asks
(* A new node brings one new path; the others stay.                        *)
LEMMA AddedPath ==
  ASSUME PathsInv, NEW n \in Nodes, NEW component \in Components, AddedChild(n, component)
  PROVE  /\ \A m \in Nodes : PathOf'[m] = PathOf[m]
         /\ PathOf'[len] = Append(PathOf[n], component)
         /\ Nodes' = Nodes \cup {len} /\ len \notin Nodes
<1>1. PathsGood /\ TreeType /\ EdgesInv
  BY GoodPaths DEF PathsInv
<1>2. PathsInv'
  BY AddedKeepsPaths
<1>3. (PathsInv => PathsGood /\ StatesGood /\ TreeType /\ RootInv)'
  BY GoodPaths, PTL
<1>4. PathsGood'
  BY <1>2, <1>3
<1>5. /\ len \in Nat \ {0} /\ Nodes' = Nodes \cup {len} /\ len \notin Nodes
      /\ ROOT_NODE \in Nodes /\ Nodes' = 0..len
  BY <1>1 DEF TreeType, AddedChild, Nodes, ROOT_NODE
<1>6. /\ parent'[len] = n /\ children'[n][component] = len
      /\ \A m \in Nodes : parent'[m] = parent[m]
      /\ \A m \in Nodes, k \in Nodes, c \in Components : children'[m][c] = k <=> children[m][c] = k
  <2>1. \A m \in Nodes : children[m] \in [Components -> Nodes \cup {None}]
    BY <1>1 DEF TreeType
  <2>2. children[n][component] = None /\ None \notin Nodes
    BY <1>1, TreeAssumption DEF AddedChild, Known, Nodes, TreeType
  <2>3. \A m \in Nodes, c \in Components :
          children'[m][c] = IF m = n /\ c = component THEN len ELSE children[m][c]
    BY <1>5, <2>1 DEF AddedChild
  <2>4. parent'[len] = n /\ \A m \in Nodes : parent'[m] = parent[m]
    BY <1>5 DEF AddedChild
  <2>. QED  BY <1>5, <2>2, <2>3, <2>4
<1>. DEFINE S == { m \in Nodes : PathOf'[m] = PathOf[m] }
<1>7. ROOT_NODE \in S
  BY <1>1, <1>4, <1>5 DEF PathsGood
<1>8. ASSUME NEW m \in Nodes, m # ROOT_NODE, parent[m] \in S PROVE m \in S
  <2>1. /\ PathOf[m] = Append(PathOf[parent[m]], Edge(m)) /\ Edge(m) \in Components
        /\ parent[m] \in Nodes /\ children[parent[m]][Edge(m)] = m
    BY <1>1, <1>8 DEF PathsGood
  <2>2. /\ PathOf'[m] = Append(PathOf'[parent'[m]], Edge(m)')
        /\ \A c \in Components : children'[parent'[m]][c] = m <=> c = Edge(m)'
    BY <1>4, <1>5, <1>8 DEF PathsGood
  <2>3. Edge(m)' = Edge(m) /\ parent'[m] = parent[m]
    BY <1>6, <1>8, <2>1, <2>2
  <2>4. PathOf'[parent[m]] = PathOf[parent[m]]
    BY <1>8
  <2>5. PathOf'[m] = Append(PathOf[parent[m]], Edge(m))
    BY <2>2, <2>3, <2>4
  <2>. QED  BY <2>1, <2>5
<1>9. Nodes \subseteq S
  <2>. HIDE DEF S
  <2>. QED  BY <1>1, <1>7, <1>8, DownTheTree
<1>10. PathOf'[len] = Append(PathOf[n], component)
  <2>0. PICK k \in Nodes' : k = len /\ k # ROOT_NODE
    BY <1>5
  <2>1. /\ PathOf'[k] = Append(PathOf'[parent'[k]], Edge(k)')
        /\ \A c \in Components : children'[parent'[k]][c] = k <=> c = Edge(k)'
    BY <1>4, <2>0 DEF PathsGood
  <2>2. Edge(k)' = component
    BY <1>6, <2>0, <2>1
  <2>3. PathOf'[n] = PathOf[n]
    BY <1>9
  <2>. QED  BY <1>6, <2>0, <2>1, <2>2, <2>3
<1>. QED  BY <1>5, <1>9, <1>10

LEMMA AddsByPath ==
  ASSUME PathsInv, NEW n \in Nodes, NEW component \in Components, AddedChild(n, component)
  PROVE  Abstract!PathStatesNext
<1>1. PathsGood /\ StatesGood /\ TreeType
  BY GoodPaths
<1>2. /\ \A m \in Nodes : PathOf'[m] = PathOf[m]
      /\ PathOf'[len] = Append(PathOf[n], component)
      /\ Nodes' = Nodes \cup {len} /\ len \notin Nodes
  BY AddedPath
<1>3. Cardinality(Nodes) = len
  BY <1>1, FS_Interval DEF TreeType, Nodes
<1>4. NodePaths' = [k \in DOMAIN NodePaths \cup {len} |->
                      IF k = len THEN Append(NodePaths[n], component) ELSE NodePaths[k]]
  <2>1. NodePaths' = [m \in Nodes' |-> PathOf'[m]]
    BY DEF NodePaths
  <2>. QED  BY <1>2, <2>1, HandlesAreNodes
<1>5. Append(NodePaths[n], component) \notin { NodePaths[k] : k \in DOMAIN NodePaths }
  <2>1. \A k \in Nodes : k # None
    BY <1>1, TreeAssumption DEF TreeType, Nodes
  <2>2. \A k \in Nodes : PathOf[k] # Append(PathOf[n], component)
    BY <1>1, <2>1 DEF PathsGood, AddedChild, Known
  <2>. QED  BY <2>2, HandlesAreNodes
<1>6. StatesByPath' = StatesByPath
  <2>1. \A m \in Nodes : state'[m] = state[m]
    BY <1>1 DEF AddedChild, TreeType, Nodes
  <2>2. state'[len] = None
    BY <1>1 DEF AddedChild, TreeType
  <2>3. Active' = Active /\ Active \subseteq Nodes
    BY <1>2, <2>1, <2>2 DEF Active
  <2>4. DOMAIN StatesByPath' = DOMAIN StatesByPath
    BY <1>2, <2>3 DEF StatesByPath
  <2>5. PathsInv'
    BY AddedKeepsPaths
  <2>6. (PathsInv => PathsGood /\ StatesGood /\ TreeType /\ RootInv)'
    BY GoodPaths, PTL
  <2>7. StatesGood'
    BY <2>5, <2>6
  <2>8. ASSUME NEW q \in DOMAIN StatesByPath PROVE StatesByPath'[q] = StatesByPath[q]
    <3>1. PICK m \in Active : q = PathOf[m]
      BY <1>1, <2>8 DEF StatesGood
    <3>2. m \in Nodes /\ m \in Nodes' /\ state[m] # None /\ state'[m] = state[m] /\ q = PathOf'[m]
      BY <1>2, <2>1, <2>3, <3>1 DEF Active
    <3>. QED  BY <1>1, <2>7, <3>1, <3>2 DEF StatesGood
  <2>9. /\ StatesByPath = [q \in DOMAIN StatesByPath |-> StatesByPath[q]]
        /\ StatesByPath' = [q \in DOMAIN StatesByPath' |-> StatesByPath'[q]]
    BY DEF StatesByPath
  <2>. QED  BY <2>4, <2>8, <2>9
<1>7. answer' = [node |-> len]
  BY DEF AddedChild
<1>8. Abstract!Ensure(n, component)
  <2>1. Abstract!Cardinality(DOMAIN NodePaths) = len
    BY <1>3, HandlesAreNodes DEF Abstract!Cardinality, Cardinality
  <2>2. \E new \in {Abstract!Cardinality(DOMAIN NodePaths)} :
          /\ NodePaths' = [k \in DOMAIN NodePaths \cup {new} |->
                             IF k = new THEN Append(NodePaths[n], component) ELSE NodePaths[k]]
          /\ answer' = [node |-> new]
    BY <1>4, <1>7, <2>1, Zenon
  <2>. QED  BY <1>5, <1>6, <2>2 DEF Abstract!Ensure
<1>. QED  BY <1>8, HandlesAreNodes DEF Abstract!PathStatesNext

LEMMA FindsByPath ==
  ASSUME PathsInv, NEW n \in Nodes, NEW component \in Components, FoundChild(n, component)
  PROVE  Abstract!PathStatesNext
<1>1. PathsGood /\ TreeType
  BY GoodPaths
<1>2. NodePaths' = NodePaths /\ StatesByPath' = StatesByPath
  BY SameEdges DEF FoundChild, StatesByPath, Active
<1>. DEFINE known == children[n][component]
<1>3. known \in Nodes /\ PathOf[known] = Append(PathOf[n], component)
  <2>1. known \in Nodes
    BY <1>1 DEF FoundChild, Known, TreeType
  <2>. QED  BY <1>1, <2>1 DEF PathsGood
<1>4. Abstract!Ensure(n, component)
  BY <1>2, <1>3, HandlesAreNodes DEF Abstract!Ensure, FoundChild
<1>. QED  BY <1>4, HandlesAreNodes DEF Abstract!PathStatesNext

(* What the states by path are once the state of one node is another.      *)
LEMMA StateByPath ==
  ASSUME PathsInv, PathsInv', UNCHANGED <<len, parent, children>>, NEW n \in Nodes,
         NEW new \in States \cup {None}, state' = [state EXCEPT ![n] = new]
  PROVE  StatesByPath' =
           [q \in IF new = None THEN DOMAIN StatesByPath \ {PathOf[n]}
                  ELSE DOMAIN StatesByPath \cup {PathOf[n]}
              |-> IF q = PathOf[n] THEN new ELSE StatesByPath[q]]
<1>1. PathsGood /\ StatesGood /\ TreeType
  BY GoodPaths
<1>2. (PathsInv => PathsGood /\ StatesGood /\ TreeType /\ RootInv)'
  BY GoodPaths, PTL
<1>3. StatesGood' /\ PathOf' = PathOf /\ Nodes' = Nodes
  BY <1>2, SameEdges
<1>4. \A m \in Nodes : state'[m] = IF m = n THEN new ELSE state[m]
  BY <1>1 DEF TreeType
<1>. DEFINE D == IF new = None THEN DOMAIN StatesByPath \ {PathOf[n]}
                 ELSE DOMAIN StatesByPath \cup {PathOf[n]}
<1>5. \A m \in Nodes : PathOf[m] = PathOf[n] => m = n
  BY <1>1 DEF PathsGood
<1>6. DOMAIN StatesByPath' = { PathOf[m] : m \in { k \in Nodes : state'[k] # None } }
  BY <1>3 DEF StatesGood, Active
<1>7. DOMAIN StatesByPath = { PathOf[m] : m \in { k \in Nodes : state[k] # None } }
  BY <1>1 DEF StatesGood, Active
<1>8. DOMAIN StatesByPath' = D
  BY <1>4, <1>5, <1>6, <1>7
<1>9. ASSUME NEW q \in D
      PROVE  StatesByPath'[q] = IF q = PathOf[n] THEN new ELSE StatesByPath[q]
  <2>1. PICK m \in Nodes : q = PathOf[m] /\ state'[m] # None
    BY <1>6, <1>8, <1>9
  <2>2. StatesByPath'[q] = state'[m]
    BY <1>3, <2>1 DEF StatesGood
  <2>3. CASE m = n
    BY <1>4, <2>1, <2>2, <2>3
  <2>4. CASE m # n
    <3>1. state'[m] = state[m] /\ q # PathOf[n]
      BY <1>4, <1>5, <2>1, <2>4
    <3>2. StatesByPath[q] = state[m]
      BY <1>1, <2>1, <3>1 DEF StatesGood
    <3>. QED  BY <2>2, <3>1, <3>2
  <2>. QED  BY <2>3, <2>4
<1>10. StatesByPath' = [q \in DOMAIN StatesByPath' |-> StatesByPath'[q]]
  BY DEF StatesByPath
<1>. QED  BY <1>8, <1>9, <1>10

LEMMA SetsByPath ==
  ASSUME PathsInv, NEW n \in Nodes, NEW new \in States, SetState(n, new)
  PROVE  Abstract!PathStatesNext
<1>1. PathsInv' /\ UNCHANGED <<len, parent, children>>
  BY NextPaths DEF TreeNext, SetState
<1>2. NodePaths' = NodePaths /\ n \in DOMAIN NodePaths /\ NodePaths[n] = PathOf[n]
  BY <1>1, SameEdges, HandlesAreNodes
<1>3. new # None
  BY TreeAssumption
<1>4. StatesByPath' = [q \in DOMAIN StatesByPath \cup {PathOf[n]} |->
                         IF q = PathOf[n] THEN new ELSE StatesByPath[q]]
  BY <1>1, <1>3, StateByPath DEF SetState
<1>5. Abstract!Set(n, new)
  BY <1>2, <1>4 DEF Abstract!Set, SetState
<1>. QED  BY <1>2, <1>5 DEF Abstract!PathStatesNext

LEMMA ClearsByPath ==
  ASSUME PathsInv, NEW n \in Nodes, ClearState(n)
  PROVE  Abstract!PathStatesNext
<1>1. PathsInv' /\ UNCHANGED <<len, parent, children>>
  BY NextPaths DEF TreeNext, ClearState
<1>2. NodePaths' = NodePaths /\ n \in DOMAIN NodePaths /\ NodePaths[n] = PathOf[n]
  BY <1>1, SameEdges, HandlesAreNodes
<1>3. StatesByPath' = [q \in DOMAIN StatesByPath \ {PathOf[n]} |->
                         IF q = PathOf[n] THEN None ELSE StatesByPath[q]]
  BY <1>1, StateByPath DEF ClearState
<1>4. StatesByPath' = [q \in DOMAIN StatesByPath \ {PathOf[n]} |-> StatesByPath[q]]
  BY <1>3
<1>5. Abstract!Clear(n)
  BY <1>2, <1>4 DEF Abstract!Clear, ClearState
<1>. QED  BY <1>2, <1>5 DEF Abstract!PathStatesNext

LEMMA InitByPath == TreeInit => Abstract!PathStatesInit
<1>. SUFFICES ASSUME TreeInit PROVE Abstract!PathStatesInit
  OBVIOUS
<1>1. PathsGood /\ StatesGood
  BY InitPaths, GoodPaths
<1>2. Nodes = {ROOT_NODE} /\ ROOT_NODE = 0
  BY DEF TreeInit, Nodes, ROOT_NODE
<1>3. NodePaths = [h \in {0} |-> Abstract!Root]
  BY <1>1, <1>2 DEF NodePaths, PathsGood, Abstract!Root
<1>4. \E known \in SUBSET {Abstract!Root} : StatesByPath \in [known -> States]
  <2>1. PathOf[ROOT_NODE] = <<>> /\ state[ROOT_NODE] \in States \cup {None}
    BY <1>1 DEF PathsGood, TreeInit
  <2>2. DOMAIN StatesByPath \subseteq {<<>>}
    BY <1>1, <1>2, <2>1 DEF StatesGood, Active
  <2>3. \A q \in DOMAIN StatesByPath : StatesByPath[q] \in States
    BY <1>1, <1>2, <2>1, <2>2 DEF StatesGood
  <2>4. StatesByPath = [q \in DOMAIN StatesByPath |-> StatesByPath[q]]
    BY DEF StatesByPath
  <2>. QED  BY <2>2, <2>3, <2>4 DEF Abstract!Root
<1>. QED  BY <1>3, <1>4 DEF Abstract!PathStatesInit, TreeInit

(* For any components, states, arena and order of calls: the arena is a    *)
(* function from paths to states, with handles that stand for one path for *)
(* good, and every answer is the one paths and states give.                *)
THEOREM TreeImplementsPathStates == TreeSpec => ImplementsPathStates
<1>1. PathsInv /\ [TreeNext]_treeVars => [Abstract!PathStatesNext]_(Abstract!pathVars)
  <2>. SUFFICES ASSUME PathsInv, [TreeNext]_treeVars
                PROVE  [Abstract!PathStatesNext]_(Abstract!pathVars)
    OBVIOUS
  <2>1. CASE UNCHANGED treeVars
    BY <2>1, SameEdges DEF treeVars, Abstract!pathVars, StatesByPath, Active
  <2>. QED  BY <2>1, AsksByPath, AddsByPath, FindsByPath, SetsByPath, ClearsByPath
            DEF TreeNext, EnsureChild
<1>. QED  BY InitPaths, NextPaths, InitByPath, <1>1, PTL
          DEF TreeSpec, ImplementsPathStates, Abstract!PathStatesSpec
=============================================================================
