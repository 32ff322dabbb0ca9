--------------------------- MODULE TarReaderProofs ---------------------------
(***************************************************************************)
(* The reader's invariant holds for every block size, archive, policy and  *)
(* drain size, and with it no byte is lost, the payload is accounted for,  *)
(* the two copies of the global records agree and the reader's own checks  *)
(* on the stream never fail.                                               *)
(***************************************************************************)
EXTENDS TarReaderInv, SequenceTheorems, TLAPS

-----------------------------------------------------------------------------
(* Sequences of offsets.                                                   *)

LEMMA OffsetsAppend ==
  ASSUME NEW first \in Nat, NEW m \in Nat, NEW n \in Nat
  PROVE  Offsets(first, m) \o Offsets(first + m, n) = Offsets(first, m + n)
<1> DEFINE a == Offsets(first, m)
           b == Offsets(first + m, n)
<1>1. a \in Seq(Int) /\ Len(a) = m
  BY DEF Offsets
<1>2. b \in Seq(Int) /\ Len(b) = n
  BY DEF Offsets
<1>3. Offsets(first, m + n) \in Seq(Int) /\ Len(Offsets(first, m + n)) = m + n
  BY DEF Offsets
<1>4. a \o b \in Seq(Int) /\ Len(a \o b) = m + n
  BY <1>1, <1>2
<1>5. \A i \in 1..(m + n) : (a \o b)[i] = IF i <= m THEN a[i] ELSE b[i - m]
  <2> HIDE DEF a, b
  <2> QED BY <1>1, <1>2, ConcatProperties
<1>6. \A i \in 1..(m + n) : (a \o b)[i] = Offsets(first, m + n)[i]
  BY <1>5 DEF Offsets
<1> HIDE DEF a, b
<1> QED BY <1>3, <1>4, <1>6, SeqEqual DEF a, b

LEMMA OffsetsType ==
  ASSUME NEW first \in Nat, NEW m \in Nat
  PROVE  /\ Offsets(first, m) \in Seq(Nat)
         /\ Len(Offsets(first, m)) = m
BY DEF Offsets

(* An empty block buffer agrees with any position.                         *)
LEMMA EmptyBuffer ==
  ASSUME NEW b, NEW src, NEW pos \in Nat, b = <<>>, src = pos
  PROVE  Len(b) = 0 /\ b = Offsets(pos, Len(b)) /\ src = pos + Len(b) + 0
<1>1. Len(b) = 0
  OBVIOUS
<1>2. Offsets(pos, 0) = <<>>
  BY DEF Offsets
<1>3. src = pos + 0 + 0
  OBVIOUS
<1> QED BY <1>1, <1>2, <1>3

LEMMA SliceLength ==
  ASSUME NEW q \in Seq(Nat), NEW a \in Nat, NEW b \in Nat, a < b, b <= Len(q)
  PROVE  /\ SubSeq(q, a + 1, b) \in Seq(Nat)
         /\ Len(SubSeq(q, a + 1, b)) = b - a
OBVIOUS

(* Whole blocks: the code's div_ceil and multiplication.                   *)
LEMMA RoundUp ==
  ASSUME NEW n \in Nat \ {0}
  PROVE  /\ WholeBlocks(n) \in Nat
         /\ WholeBlocks(n) >= n
         /\ \E q \in 1..WholeBlocks(n) :
              WholeBlocks(n) = q * BLOCK_SIZE /\ n > (q - 1) * BLOCK_SIZE
<1> DEFINE q == (n + BLOCK_SIZE - 1) \div BLOCK_SIZE
           r == (n + BLOCK_SIZE - 1) % BLOCK_SIZE
<1>1. q \in Nat /\ r \in 0..(BLOCK_SIZE - 1) /\ n + BLOCK_SIZE - 1 = q * BLOCK_SIZE + r
  BY BlockAssumption
<1>2. q * BLOCK_SIZE >= n /\ n > q * BLOCK_SIZE - BLOCK_SIZE
  BY <1>1, BlockAssumption
<1>3. q # 0
  BY <1>2, BlockAssumption
<1>4. q * BLOCK_SIZE - BLOCK_SIZE = (q - 1) * BLOCK_SIZE
  BY <1>1, BlockAssumption
<1>5. q <= q * BLOCK_SIZE /\ q * BLOCK_SIZE \in Nat
  BY <1>1, BlockAssumption
<1> QED BY <1>1, <1>2, <1>3, <1>4, <1>5 DEF WholeBlocks

-----------------------------------------------------------------------------
(* Blocks and chunks.                                                      *)

LEMMA MeaningfulLength ==
  ASSUME BuffersOK, NEW r \in Nat \ {0}
  PROVE  /\ Meaningful(r) \in Seq(Nat)
         /\ Len(Meaningful(r)) = Smaller(r, BLOCK_SIZE)
         /\ Smaller(r, BLOCK_SIZE) \in 1..r
<1> DEFINE b == NextBytes(Missing)
<1>1. Missing \in Nat /\ Missing = BLOCK_SIZE - Len(block)
  BY BlockAssumption DEF BuffersOK, Missing
<1>2. b \in Seq(Nat) /\ Len(b) = Missing
  BY <1>1 DEF NextBytes, BuffersOK
<1> HIDE DEF b
<1>0. FullBlock = block \o b
  BY DEF FullBlock, b
<1>3. FullBlock \in Seq(Nat) /\ Len(FullBlock) = BLOCK_SIZE
  <2>1. block \in Seq(Nat) /\ Len(block) \in Nat /\ BLOCK_SIZE \in Nat
    BY BlockAssumption DEF BuffersOK
  <2>2. block \o b \in Seq(Nat) /\ Len(block \o b) = Len(block) + Len(b)
    BY <1>2, <2>1, ConcatProperties
  <2> QED BY <1>0, <1>1, <1>2, <2>1, <2>2
<1>4. Smaller(r, BLOCK_SIZE) \in 1..r /\ Smaller(r, BLOCK_SIZE) <= BLOCK_SIZE
  BY BlockAssumption DEF Smaller
<1>5. /\ SubSeq(FullBlock, 0 + 1, Smaller(r, BLOCK_SIZE)) \in Seq(Nat)
      /\ Len(SubSeq(FullBlock, 0 + 1, Smaller(r, BLOCK_SIZE))) = Smaller(r, BLOCK_SIZE) - 0
  BY <1>3, <1>4, SliceLength
<1> QED BY <1>4, <1>5 DEF Meaningful

(* Reading part of a block keeps the buffer in order.                      *)
LEMMA ReadPartInOrder ==
  ASSUME BuffersOK, ReadPart, source = position + Len(block),
         block = Offsets(position, Len(block))
  PROVE  /\ BuffersOK'
         /\ source' = position + Len(block')
         /\ block' = Offsets(position, Len(block'))
<1>1. PICK n \in 1..(Missing - 1) : source' = source + n /\ block' = block \o NextBytes(n)
  BY DEF ReadPart
<1>2. n \in Nat /\ Len(block) + n < BLOCK_SIZE /\ Len(block) \in Nat
  BY <1>1, BlockAssumption DEF Missing, BuffersOK
<1>3. block' = Offsets(position, Len(block) + n)
  <2>1. Offsets(position, Len(block)) \o Offsets(position + Len(block), n)
          = Offsets(position, Len(block) + n)
    BY <1>2, OffsetsAppend DEF BuffersOK
  <2>2. block' = block \o Offsets(position + Len(block), n)
    BY <1>1 DEF NextBytes, Offsets
  <2> QED BY <2>1, <2>2
<1>4. block' \in Seq(Nat) /\ Len(block') = Len(block) + n
  BY <1>2, <1>3, OffsetsType DEF BuffersOK
<1>5. position' = position
  BY DEF ReadPart
<1>6. BuffersOK'
  BY <1>1, <1>2, <1>4, <1>5 DEF BuffersOK
<1>7. source' = position + Len(block')
  BY <1>1, <1>2, <1>4 DEF BuffersOK
<1> QED BY <1>3, <1>4, <1>6, <1>7

LEMMA NewChunkShape ==
  ASSUME NEW left \in Nat \ {0}, NEW target \in Nat, NEW pos \in Nat
  PROVE  /\ ReadingShape(NewChunk(left, target, pos))
         /\ NewChunk(left, target, pos).phase = "Reading"
         /\ NewChunk(left, target, pos).start = pos
         /\ NewChunk(left, target, pos).buffer = <<>>
         /\ NewChunk(left, target, pos).member_remaining = left
<1> DEFINE n == Smaller(left, Larger(target, BLOCK_SIZE))
           c == NewChunk(left, target, pos)
<1>1. n \in Nat \ {0} /\ n <= left
  BY BlockAssumption DEF Smaller, Larger
<1>2. PICK q \in 1..WholeBlocks(n) :
        WholeBlocks(n) = q * BLOCK_SIZE /\ n > (q - 1) * BLOCK_SIZE
  BY <1>1, RoundUp
<1>3. WholeBlocks(n) \in Nat \ {0} /\ WholeBlocks(n) >= n
  BY <1>1, RoundUp
<1>4. /\ Smaller(left, WholeBlocks(n)) \in Nat \ {0}
      /\ Smaller(left, WholeBlocks(n)) <= left
      /\ Smaller(left, WholeBlocks(n)) <= WholeBlocks(n)
      /\ Smaller(left, WholeBlocks(n)) >= n
  BY <1>1, <1>3 DEF Smaller
<1>5. Spans(WholeBlocks(n), Smaller(left, WholeBlocks(n)), q)
  <2>1. (q - 1) * BLOCK_SIZE \in Int
    BY BlockAssumption
  <2> QED BY <1>1, <1>2, <1>4, <2>1 DEF Spans
<1>6. c = [phase |-> "Reading", start |-> pos, physical |-> WholeBlocks(n),
           meaningful |-> Smaller(left, WholeBlocks(n)), member_remaining |-> left,
           buffer |-> <<>>]
  BY DEF NewChunk
<1>7. <<>> = Offsets(pos, 0) /\ <<>> \in Seq(Nat) /\ Len(<<>>) = 0
  BY DEF Offsets
<1> HIDE DEF c, n
<1> QED BY <1>2, <1>3, <1>4, <1>5, <1>6, <1>7 DEF ReadingShape, Positive, c

(* Block counts and the bytes they span.                                   *)
LEMMA BlockMultiples ==
  ASSUME NEW q \in Nat \ {0}, NEW d \in 0..(q - 1)
  PROVE  /\ d * BLOCK_SIZE \in Nat /\ (q - 1) * BLOCK_SIZE \in Nat /\ q * BLOCK_SIZE \in Nat
         /\ d * BLOCK_SIZE <= (q - 1) * BLOCK_SIZE
         /\ q * BLOCK_SIZE = (q - 1) * BLOCK_SIZE + BLOCK_SIZE
         /\ (d + 1) * BLOCK_SIZE = d * BLOCK_SIZE + BLOCK_SIZE
         /\ d + 1 < q => d * BLOCK_SIZE + BLOCK_SIZE <= (q - 1) * BLOCK_SIZE
<1>1. BLOCK_SIZE \in Nat \ {0}
  BY BlockAssumption
<1>2. \A x, y \in Nat : x <= y => x * BLOCK_SIZE <= y * BLOCK_SIZE
  BY <1>1
<1>3. \A x \in Nat : (x + 1) * BLOCK_SIZE = x * BLOCK_SIZE + BLOCK_SIZE /\ x * BLOCK_SIZE \in Nat
  BY <1>1
<1>4. d \in Nat /\ q - 1 \in Nat /\ d <= q - 1 /\ (q - 1) + 1 = q /\ q \in Nat
  OBVIOUS
<1>5. (q - 1) * BLOCK_SIZE + BLOCK_SIZE = ((q - 1) + 1) * BLOCK_SIZE
  BY <1>3, <1>4
<1>6. d + 1 < q => d + 1 <= q - 1 /\ d + 1 \in Nat
  BY <1>4
<1> QED BY <1>2, <1>3, <1>4, <1>5, <1>6

(* A ready chunk always owes something, and what is taken from it is no    *)
(* longer owed.                                                            *)
LEMMA TakeShape ==
  ASSUME NEW op, NEW c, ReadyShape(c)
  PROVE  /\ TakenBytes(op, c) \in Seq(Nat)
         /\ LeftChunk(op, c) = NoChunk \/ ReadyShape(LeftChunk(op, c))
         /\ op # "next_block" => LeftChunk(op, c) = NoChunk
         /\ Undelivered(c) \in Nat \ {0}
         /\ Undelivered(LeftChunk(op, c)) \in Nat
         /\ Undelivered(c) = Len(TakenBytes(op, c)) + Undelivered(LeftChunk(op, c))
<1> DEFINE upto == IF op = "next_block" THEN Smaller(c.delivered + BLOCK_SIZE, c.meaningful)
                                        ELSE c.meaningful
           goes == op = "next_block" /\ c.delivered + BLOCK_SIZE # c.physical
<1>1. /\ c \in [phase : {"Ready"}, start : Nat, physical : Positive, meaningful : Positive,
                 delivered : Nat, buffer : Seq(Nat)]
      /\ c.phase = "Ready"
      /\ c.meaningful \in Nat /\ c.delivered \in Nat /\ c.buffer \in Seq(Nat)
      /\ Len(c.buffer) = c.physical /\ c.buffer = Offsets(c.start, c.physical)
      /\ c.physical \in Nat
  BY DEF ReadyShape, Positive
<1>a. PICK q \in 1..c.physical : \E d \in 0..(q - 1) :
        Spans(c.physical, c.meaningful, q) /\ c.delivered = d * BLOCK_SIZE
  BY DEF ReadyShape
<1>2. PICK d \in 0..(q - 1) :
        Spans(c.physical, c.meaningful, q) /\ c.delivered = d * BLOCK_SIZE
  BY <1>a
<1>3. /\ q \in Nat /\ d \in Nat /\ d < q /\ q - 1 \in Nat
      /\ c.physical = q * BLOCK_SIZE
      /\ c.meaningful <= c.physical
      /\ c.meaningful > (q - 1) * BLOCK_SIZE
  BY <1>1, <1>a, <1>2 DEF Spans
<1>4. /\ (q - 1) * BLOCK_SIZE \in Nat
      /\ d * BLOCK_SIZE <= (q - 1) * BLOCK_SIZE
      /\ q * BLOCK_SIZE = (q - 1) * BLOCK_SIZE + BLOCK_SIZE
      /\ (d + 1) * BLOCK_SIZE = d * BLOCK_SIZE + BLOCK_SIZE
      /\ d + 1 < q => d * BLOCK_SIZE + BLOCK_SIZE <= (q - 1) * BLOCK_SIZE
  BY <1>3, BlockMultiples
<1>5. c.delivered < c.meaningful
  BY SMTT(30), <1>1, <1>2, <1>3, <1>4, BlockAssumption
<1>6. upto \in Nat /\ c.delivered < upto /\ upto <= c.meaningful
  BY <1>1, <1>5, BlockAssumption DEF Smaller
<1>7. /\ TakenBytes(op, c) \in Seq(Nat)
      /\ Len(TakenBytes(op, c)) = upto - c.delivered
  <2>1. TakenBytes(op, c) = SubSeq(c.buffer, c.delivered + 1, upto)
    BY DEF TakenBytes
  <2>2. c.meaningful <= Len(c.buffer)
    BY <1>1, <1>3
  <2> HIDE DEF upto
  <2>3. upto <= Len(c.buffer)
    BY <2>2, <1>1, <1>6
  <2>4. c.buffer \in Seq(Nat) /\ c.delivered \in Nat /\ upto \in Nat /\ c.delivered < upto
    BY <1>1, <1>6
  <2>5. /\ SubSeq(c.buffer, c.delivered + 1, upto) \in Seq(Nat)
        /\ Len(SubSeq(c.buffer, c.delivered + 1, upto)) = upto - c.delivered
    BY <2>3, <2>4, SliceLength
  <2> QED BY <2>1, <2>5
<1>8. Undelivered(c) = c.meaningful - c.delivered
  BY <1>1 DEF Undelivered
<1>9. CASE ~goes
  <2>1. upto = c.meaningful
    <3>1. CASE op = "next_block"
      BY SMTT(30), <3>1, <1>9, <1>1, <1>3, BlockAssumption DEF Smaller
    <3> QED BY <3>1
  <2>2. LeftChunk(op, c) = NoChunk /\ Undelivered(NoChunk) = 0
    BY <1>9 DEF LeftChunk, NoChunk, Phase, Undelivered
  <2> HIDE DEF upto, goes
  <2> QED BY <2>1, <2>2, <1>1, <1>5, <1>7, <1>8
<1>10. CASE goes
  <2> DEFINE l == [c EXCEPT !.delivered = @ + BLOCK_SIZE]
  <2>1. d + 1 < q
    BY <1>10, <1>2, <1>3, <1>4
  <2>2. /\ (d + 1) * BLOCK_SIZE = c.delivered + BLOCK_SIZE
        /\ c.delivered + BLOCK_SIZE <= (q - 1) * BLOCK_SIZE
    BY <2>1, <1>2, <1>4
  <2>3. c.delivered + BLOCK_SIZE < c.meaningful
    BY <2>2, <1>1, <1>3, <1>4, BlockAssumption
  <2>4. upto = c.delivered + BLOCK_SIZE
    BY <2>3, <1>10, <1>1, BlockAssumption DEF Smaller
  <2>5. LeftChunk(op, c) = l
    BY <1>10 DEF LeftChunk
  <2>6. /\ l \in [phase : {"Ready"}, start : Nat, physical : Positive, meaningful : Positive,
                   delivered : Nat, buffer : Seq(Nat)]
        /\ l.phase = "Ready" /\ l.delivered = c.delivered + BLOCK_SIZE
        /\ l.meaningful = c.meaningful /\ l.physical = c.physical
        /\ l.buffer = c.buffer /\ l.start = c.start
    <3>1. c.delivered + BLOCK_SIZE \in Nat
      BY <1>1, BlockAssumption
    <3>2. c = [phase |-> c.phase, start |-> c.start, physical |-> c.physical,
               meaningful |-> c.meaningful, delivered |-> c.delivered, buffer |-> c.buffer]
      BY <1>1
    <3>3. l = [phase |-> c.phase, start |-> c.start, physical |-> c.physical,
               meaningful |-> c.meaningful, delivered |-> c.delivered + BLOCK_SIZE,
               buffer |-> c.buffer]
      BY <3>2
    <3> QED BY <1>1, <3>1, <3>3
  <2> HIDE DEF l
  <2>7. d + 1 \in 0..(q - 1)
    BY <2>1, <1>3
  <2>8. ReadyShape(l)
    BY <1>1, <1>a, <1>2, <2>2, <2>6, <2>7 DEF ReadyShape
  <2>9. Undelivered(l) = c.meaningful - (c.delivered + BLOCK_SIZE)
    BY <2>6 DEF Undelivered
  <2>10. op = "next_block"
    BY <1>10
  <2> HIDE DEF upto, goes
  <2>11. /\ Len(TakenBytes(op, c)) = (c.delivered + BLOCK_SIZE) - c.delivered
         /\ TakenBytes(op, c) \in Seq(Nat)
    BY <2>4, <1>7
  <2>12. c.delivered \in Nat /\ c.meaningful \in Nat /\ BLOCK_SIZE \in Nat \ {0}
    BY <1>1, BlockAssumption
  <2>13. Undelivered(l) \in Nat /\ Undelivered(c) \in Nat \ {0}
         /\ Undelivered(c) = Len(TakenBytes(op, c)) + Undelivered(l)
    <3>1. Len(TakenBytes(op, c)) = BLOCK_SIZE
      BY <2>11, <2>12
    <3> QED BY <2>3, <2>9, <2>12, <3>1, <1>8
  <2> QED BY <2>5, <2>8, <2>10, <2>11, <2>13
<1> QED BY <1>9, <1>10

(* A chunk that is filled up becomes a ready one.                          *)
LEMMA ReadyChunkShape ==
  ASSUME NEW c, ReadingShape(c), NEW buffer, buffer = Offsets(c.start, c.physical)
  PROVE  /\ ReadyShape(ReadyChunk(c, buffer))
         /\ Undelivered(ReadyChunk(c, buffer)) = c.meaningful
<1> DEFINE r == ReadyChunk(c, buffer)
<1>1. /\ c.start \in Nat /\ c.physical \in Nat /\ c.physical \in Positive /\ c.meaningful \in Positive
      /\ c.meaningful \in Nat
  BY DEF ReadingShape, Positive
<1>2. PICK q \in 1..c.physical : Spans(c.physical, c.meaningful, q)
  BY DEF ReadingShape
<1>3. buffer \in Seq(Nat) /\ Len(buffer) = c.physical
  BY <1>1, OffsetsType
<1>4. r = [phase |-> "Ready", start |-> c.start, physical |-> c.physical,
           meaningful |-> c.meaningful, delivered |-> 0, buffer |-> buffer]
  BY DEF ReadyChunk
<1>5. 0 * BLOCK_SIZE = 0 /\ 0 \in 0..(q - 1)
  BY <1>1, <1>2, BlockAssumption
<1> HIDE DEF r
<1>6. ReadyShape(r)
  BY <1>1, <1>2, <1>3, <1>4, <1>5 DEF ReadyShape
<1>7. Undelivered(r) = c.meaningful
  BY <1>1, <1>4 DEF Undelivered
<1> QED BY <1>6, <1>7 DEF r

-----------------------------------------------------------------------------
(* What every kind of step keeps.                                          *)

BadCheck == {Error("Oversized"), Error("UnattachedData")}

ExtensionKind(x) == x.kind \in PaxKinds \cup GnuKinds \cup {"None"}

(* A call that fails leaves only what the client may still see.            *)
LEMMA FailureKeeps ==
  ASSUME BuffersOK', state' = Failed, member_chunk' = NoChunk,
         remaining' \in Nat, GlobalsOK', ExtensionKind(extension_payload'),
         call' = "idle", out' \notin BadCheck
  PROVE  ReaderInv'
<1>1. Failed.phase = "Failed" /\ NoChunk.phase = "None"
  BY DEF Failed, NoChunk, Phase
<1>2. StateOK'
  BY DEF StateOK
<1>3. ChunkOK'
  BY DEF ChunkOK
<1>4. ExtensionOK' /\ FormatOK'
  BY <1>1 DEF ExtensionOK, ExtensionKind, FormatOK
<1>5. PayloadAccounted' /\ NoByteLost'
  BY <1>1 DEF PayloadAccounted, NoByteLost
<1>6. CallOK' /\ ChecksNeverFail'
  BY DEF CallOK, ChecksNeverFail, BadCheck
<1> QED BY <1>2, <1>3, <1>4, <1>5, <1>6 DEF ReaderInv

(* Between two blocks, with the stream in state s and chunk left kept.     *)
LEMMA QuietKeeps ==
  ASSUME BuffersOK', block' = <<>>, source' = position',
         state' = AwaitingHeader \/ state' \in [phase : {"ReadingMember"}, remaining : Positive],
         member_chunk' = NoChunk \/ ReadyShape(member_chunk'),
         remaining' \in Nat,
         remaining' = Undelivered(member_chunk') + Unread(state'),
         GlobalsOK', ExtensionKind(extension_payload'), out' \notin BadCheck
  PROVE  ReaderInv'
<1>1. /\ AwaitingHeader.phase = "AwaitingHeader" /\ NoChunk.phase = "None"
      /\ state'.phase \in {"AwaitingHeader", "ReadingMember"}
      /\ state' # Failed
  BY DEF AwaitingHeader, Failed, NoChunk, Phase
<1>2. member_chunk'.phase \in {"None", "Ready"}
  BY <1>1 DEF ReadyShape
<1>3. StateOK'
  BY DEF StateOK
<1>4. ChunkOK'
  <2>1. ReadyToDeliver' \/ member_chunk' = NoChunk
    BY <1>1 DEF ReadyToDeliver
  <2> QED BY <2>1 DEF ChunkOK
<1>5. ExtensionOK' /\ FormatOK'
  BY <1>1 DEF ExtensionOK, ExtensionKind, FormatOK
<1>6. PayloadAccounted'
  BY <1>2 DEF PayloadAccounted
<1>7. NoByteLost'
  <2>1. position' \in Nat
    BY DEF BuffersOK
  <2>2. block' = Offsets(position', Len(block')) /\ source' = position' + Len(block') + 0
    BY <2>1, EmptyBuffer
  <2>3. member_chunk' # NoChunk =>
          member_chunk'.buffer = Offsets(member_chunk'.start, Len(member_chunk'.buffer))
    BY DEF ReadyShape
  <2> QED BY <1>2, <2>2, <2>3 DEF NoByteLost, Filled
<1>8. CallOK' /\ ChecksNeverFail'
  BY <1>1 DEF CallOK, ChecksNeverFail, BadCheck, Finished
<1> QED BY <1>3, <1>4, <1>5, <1>6, <1>7, <1>8 DEF ReaderInv

(* A chunk is begun for what the parser state says is left.                *)
LEMMA BeginChunkKeeps ==
  ASSUME NEW target \in Nat,
         BuffersOK', block' = <<>>, source' = position',
         state' \in [phase : {"ReadingMember"}, remaining : Positive],
         member_chunk' = NewChunk(state'.remaining, target, position'),
         remaining' = state'.remaining,
         GlobalsOK', ExtensionKind(extension_payload'), out' \notin BadCheck
  PROVE  ReaderInv'
<1> DEFINE c == member_chunk'
           left == state'.remaining
<1>1. /\ left \in Nat \ {0} /\ position' \in Nat
      /\ state' = ReadingMember(left) /\ state'.phase = "ReadingMember" /\ state' # Failed
  BY DEF BuffersOK, Positive, ReadingMember, Failed, Phase
<1>2. /\ ReadingShape(c) /\ c.phase = "Reading" /\ c.start = position'
      /\ c.buffer = <<>> /\ c.member_remaining = left
  BY <1>1, NewChunkShape
<1>3. StateOK'
  BY DEF StateOK
<1>4. ChunkOK'
  <2>1. ReadingChunk'
    BY <1>1, <1>2 DEF ReadingChunk
  <2> QED BY <2>1 DEF ChunkOK
<1>5. ExtensionOK' /\ FormatOK'
  BY <1>1 DEF ExtensionOK, ExtensionKind, FormatOK
<1>6. PayloadAccounted'
  <2>1. Undelivered(c) = 0 /\ Unread(state') = left
    BY <1>1, <1>2 DEF Undelivered, Unread
  <2> QED BY <1>1, <1>2, <2>1 DEF PayloadAccounted
<1>7. NoByteLost'
  <2>1. block' = Offsets(position', Len(block')) /\ source' = position' + Len(block') + 0
    BY <1>1, EmptyBuffer
  <2>2. c.phase = "Reading" /\ Len(c.buffer) = 0
    BY <1>2
  <2>3. c.buffer = Offsets(c.start, Len(c.buffer))
    BY <1>2 DEF ReadingShape
  <2> QED BY <2>1, <2>2, <2>3 DEF NoByteLost, Filled
<1>8. CallOK' /\ ChecksNeverFail'
  BY <1>1 DEF CallOK, ChecksNeverFail, BadCheck, Finished
<1>9. remaining' \in Nat
  BY <1>1
<1> QED BY <1>3, <1>4, <1>5, <1>6, <1>7, <1>8, <1>9 DEF ReaderInv

(* However a call ends or goes on, its answer is no failed check and the   *)
(* extension being assembled stays, or is dropped whole.                   *)
LEMMA AnswerKeeps ==
  ASSUME ExtensionKind(extension_payload), NEW op, NEW o,
         \/ StayPending(op)
         \/ Return(op, o) /\ o \notin BadCheck
  PROVE  ExtensionKind(extension_payload') /\ out' \notin BadCheck
BY DEF StayPending, Return, ExtensionKind, NoPayload, BadCheck, Pending, Error

LEMMA DeliverKeeps ==
  ASSUME NEW op, NEW bytes, NEW left, NEW s,
         BuffersOK', block' = <<>>, source' = position',
         s = AwaitingHeader \/ s \in [phase : {"ReadingMember"}, remaining : Positive],
         left = NoChunk \/ ReadyShape(left),
         op # "next_block" => left = NoChunk,
         Len(bytes) \in Nat, Undelivered(left) \in Nat, remaining \in Nat,
         remaining = Len(bytes) + Undelivered(left) + Unread(s),
         GlobalsOK', ExtensionKind(extension_payload),
         Deliver(op, bytes, left, s)
  PROVE  ReaderInv'
<1> DEFINE rest == Rest(op, bytes)
           drains == op \in {"skip", "next_frame"}
<1>1. /\ s \in [phase : {"ReadingMember"}, remaining : Positive]
           => s.phase = "ReadingMember" /\ s.remaining \in Nat \ {0} /\ Unread(s) = s.remaining
      /\ s = AwaitingHeader => s.phase # "ReadingMember" /\ Unread(s) = 0
      /\ Unread(s) \in Nat
  BY DEF Unread, AwaitingHeader, Phase, Positive
<1>2. rest = Undelivered(left) + Unread(s) /\ rest \in Nat
  BY <1>1 DEF Rest
<1>3. /\ remaining' = rest
      /\ \/ /\ ~drains
            /\ member_chunk' = left /\ state' = s
            /\ Return(op, Bytes(bytes))
         \/ /\ drains /\ rest = 0
            /\ member_chunk' = left /\ state' = s
            /\ IF op = "skip" THEN Return(op, Exhausted) ELSE StayPending(op)
         \/ /\ drains /\ rest > 0
            /\ IF s.phase = "ReadingMember"
               THEN /\ member_chunk' = NewChunk(s.remaining, PAYLOAD_DRAIN_CHUNK_BYTES, position')
                    /\ state' = s
                    /\ StayPending(op)
               ELSE /\ member_chunk' = left
                    /\ state' = Failed
                    /\ Return(op, Error("NoPayload"))
  <2>1. ~(Rest(op, bytes) < 0)
    BY <1>2
  <2> QED BY <2>1 DEF Deliver
<1>4. Bytes(bytes) \notin BadCheck /\ Exhausted \notin BadCheck
  BY DEF Bytes, Exhausted, BadCheck, Error
<1>5. CASE /\ member_chunk' = left /\ state' = s
           /\ \/ Return(op, Bytes(bytes)) \/ Return(op, Exhausted) \/ StayPending(op)
  <2>1. ExtensionKind(extension_payload') /\ out' \notin BadCheck
    BY <1>4, <1>5, AnswerKeeps
  <2> QED BY <1>2, <1>3, <1>5, <2>1, QuietKeeps
<1>6. CASE /\ drains /\ rest > 0 /\ s.phase = "ReadingMember"
           /\ member_chunk' = NewChunk(s.remaining, PAYLOAD_DRAIN_CHUNK_BYTES, position')
           /\ state' = s
           /\ StayPending(op)
  <2>1. ExtensionKind(extension_payload') /\ out' \notin BadCheck
    BY <1>6, AnswerKeeps
  <2>2. Undelivered(NoChunk) = 0 /\ left = NoChunk
    BY <1>6 DEF Undelivered, NoChunk, Phase
  <2>3. state' \in [phase : {"ReadingMember"}, remaining : Positive]
    BY <1>1, <1>6
  <2>4. remaining' = state'.remaining
    BY <1>1, <1>2, <1>3, <1>6, <2>2, <2>3
  <2> QED BY <1>6, <2>1, <2>3, <2>4, TargetAssumption, BeginChunkKeeps
<1>7. ~(drains /\ rest > 0 /\ s.phase # "ReadingMember")
  <2>1. Undelivered(NoChunk) = 0
    BY DEF Undelivered, NoChunk, Phase
  <2> QED BY <1>1, <1>2, <2>1
<1> HIDE DEF rest
<1> QED BY <1>3, <1>5, <1>6, <1>7

-----------------------------------------------------------------------------
(* What the invariant says of the three places payload can be in.          *)

LEMMA HeldKinds ==
  ASSUME ReaderInv
  PROVE  /\ ExtensionKind(extension_payload) /\ GlobalsOK /\ BuffersOK
         /\ remaining \in Nat /\ out \notin BadCheck
         /\ source \in Nat /\ position \in Nat
BY DEF ReaderInv, ExtensionOK, ExtensionKind, BuffersOK, ChecksNeverFail, BadCheck

LEMMA ReadyFacts ==
  ASSUME ReaderInv, member_chunk.phase = "Ready"
  PROVE  /\ ReadyShape(member_chunk)
         /\ block = <<>> /\ source = position
         /\ state = AwaitingHeader \/ state \in [phase : {"ReadingMember"}, remaining : Positive]
         /\ Unread(state) \in Nat
         /\ remaining = Undelivered(member_chunk) + Unread(state)
         /\ state # Failed
<1>1. ReadyToDeliver
  BY DEF ReaderInv, ChunkOK, NoChunk, Phase, ReadingChunk, ReadingShape
<1>2. state = AwaitingHeader \/ state \in [phase : {"ReadingMember"}, remaining : Positive]
  BY <1>1 DEF ReadyToDeliver, ReaderInv, StateOK, AwaitingHeader, AwaitingSecondZero, Complete,
              Failed, Phase, AwaitingUstarHeader
<1>3. state # Failed
  BY <1>2 DEF AwaitingHeader, Failed, Phase
<1>4. source = position + Len(block) + 0
  BY <1>3 DEF ReaderInv, NoByteLost, Filled
<1>5. block = <<>> /\ Len(<<>>) = 0 /\ position \in Nat
  BY <1>1 DEF ReadyToDeliver, ReaderInv, BuffersOK
<1>6. Unread(state) \in Nat
  BY <1>2 DEF Unread, AwaitingHeader, Phase, Positive
<1> QED BY <1>1, <1>2, <1>3, <1>4, <1>5, <1>6 DEF ReadyToDeliver, ReaderInv, PayloadAccounted

LEMMA ReadingFacts ==
  ASSUME ReaderInv, member_chunk.phase = "Reading"
  PROVE  /\ ReadingShape(member_chunk)
         /\ member_chunk.start = position
         /\ block = <<>> /\ source = position + Len(member_chunk.buffer)
         /\ state = ReadingMember(member_chunk.member_remaining)
         /\ remaining = member_chunk.member_remaining
         /\ remaining \in Nat \ {0}
         /\ state # Failed
<1>1. ReadingChunk
  BY DEF ReaderInv, ChunkOK, NoChunk, Phase, ReadyToDeliver, ReadyShape
<1>2. state # Failed /\ Unread(state) = member_chunk.member_remaining
  BY <1>1 DEF ReadingChunk, ReadingMember, Failed, Phase, Unread
<1>3. member_chunk.member_remaining \in Nat \ {0} /\ Len(member_chunk.buffer) \in Nat
  BY <1>1 DEF ReadingChunk, ReadingShape, Positive
<1>4. source = position + Len(block) + Len(member_chunk.buffer)
  BY <1>2 DEF ReaderInv, NoByteLost, Filled
<1>5. block = <<>> /\ Len(<<>>) = 0 /\ position \in Nat
  BY <1>1 DEF ReadingChunk, ReaderInv, BuffersOK
<1>6. remaining = 0 + Unread(state)
  BY <1>2 DEF ReaderInv, PayloadAccounted, Undelivered
<1> QED BY <1>1, <1>2, <1>3, <1>4, <1>5, <1>6 DEF ReadingChunk

LEMMA NoChunkFacts ==
  ASSUME ReaderInv, member_chunk = NoChunk, state # Failed
  PROVE  /\ remaining = Unread(state)
         /\ source = position + Len(block)
         /\ block = Offsets(position, Len(block))
         /\ remaining > 0 => /\ state \in [phase : {"ReadingMember"}, remaining : Positive]
                             /\ remaining = state.remaining
         /\ remaining = 0 => state.phase # "ReadingMember"
<1>1. NoChunk.phase = "None"
  BY DEF NoChunk, Phase
<1>2. remaining = 0 + Unread(state)
  BY <1>1 DEF ReaderInv, PayloadAccounted, Undelivered
<1>3. state.phase = "ReadingMember" =>
        state \in [phase : {"ReadingMember"}, remaining : Positive]
  BY DEF ReaderInv, StateOK, AwaitingHeader, AwaitingSecondZero, Complete, Failed, Phase,
         AwaitingUstarHeader
<1>4. Unread(state) \in Nat
  BY <1>3 DEF Unread, Positive
<1>5. source = position + Len(block) + 0
  BY <1>1 DEF ReaderInv, NoByteLost, Filled
<1>6. source = position + Len(block)
  BY <1>5 DEF ReaderInv, BuffersOK
<1>7. block = Offsets(position, Len(block))
  BY DEF ReaderInv, NoByteLost
<1>8. remaining > 0 => /\ state \in [phase : {"ReadingMember"}, remaining : Positive]
                      /\ remaining = state.remaining
  BY <1>2, <1>3 DEF Unread, Positive
<1>9. remaining = 0 => state.phase # "ReadingMember"
  BY <1>2, <1>3 DEF Unread, Positive
<1> QED BY <1>2, <1>4, <1>6, <1>7, <1>8, <1>9

-----------------------------------------------------------------------------
(* The calls.                                                              *)

(* Nothing the invariant links has changed.                                *)
LEMMA SameKeeps ==
  ASSUME ReaderInv,
         UNCHANGED <<source, position, block, format, state, global_pax_records,
                     member_chunk, remaining, logical_pax_records>>,
         extension_payload' = extension_payload,
         call' # "idle" => ~Finished,
         out' \notin BadCheck
  PROVE  ReaderInv'
<1>1. BuffersOK' /\ StateOK' /\ remaining' \in Nat /\ GlobalsOK' /\ ExtensionOK' /\ FormatOK'
  BY DEF ReaderInv, BuffersOK, StateOK, GlobalsOK, OneGlobalState, ExtensionOK, FormatOK
<1>2. ChunkOK'
  BY DEF ReaderInv, ChunkOK, ReadingChunk, ReadyToDeliver
<1>3. PayloadAccounted' /\ NoByteLost'
  BY DEF ReaderInv, PayloadAccounted, NoByteLost, Filled
<1>4. CallOK' /\ ChecksNeverFail'
  BY DEF CallOK, ChecksNeverFail, BadCheck, Finished
<1> QED BY <1>1, <1>2, <1>3, <1>4 DEF ReaderInv

LEMMA StartReadKeeps ==
  ASSUME ReaderInv, NEW op \in {"next_block", "next_chunk", "skip", "next_frame"},
         NEW target \in Nat, StartRead(op, target),
         UNCHANGED logical_pax_records
  PROVE  ReaderInv'
<1>1. /\ remaining > 0
      /\ UNCHANGED <<source, position, block, format, global_pax_records, logical_pax_records>>
  BY DEF StartRead, framingVars
<1>2. BuffersOK' /\ GlobalsOK'
  BY <1>1, HeldKinds DEF BuffersOK, GlobalsOK, OneGlobalState
<1>3. CASE /\ member_chunk.phase = "Ready"
           /\ Deliver(op, TakenBytes(op, member_chunk), LeftChunk(op, member_chunk), state)
  <2> DEFINE bytes == TakenBytes(op, member_chunk)
             left  == LeftChunk(op, member_chunk)
  <2>1. /\ bytes \in Seq(Nat) /\ Len(bytes) \in Nat
        /\ left = NoChunk \/ ReadyShape(left)
        /\ op # "next_block" => left = NoChunk
        /\ Undelivered(left) \in Nat
        /\ remaining = Len(bytes) + Undelivered(left) + Unread(state)
    BY <1>3, ReadyFacts, TakeShape
  <2>2. block' = <<>> /\ source' = position'
    BY <1>1, <1>3, ReadyFacts
  <2> HIDE DEF bytes, left
  <2>3. Deliver(op, bytes, left, state)
    BY <1>3 DEF bytes, left
  <2>4. state = AwaitingHeader \/ state \in [phase : {"ReadingMember"}, remaining : Positive]
    BY <1>3, ReadyFacts
  <2> QED BY <1>2, <2>1, <2>2, <2>3, <2>4, HeldKinds, DeliverKeeps
<1>4. CASE /\ \/ member_chunk.phase = "Reading"
              \/ member_chunk = NoChunk /\ state.phase = "ReadingMember"
           /\ StayPending(op)
           /\ UNCHANGED <<member_chunk, remaining, state>>
  <2>1. ~Finished
    <3>1. state.phase = "ReadingMember"
      BY <1>4, ReadingFacts DEF ReadingMember
    <3> QED BY <3>1 DEF Finished
  <2>2. extension_payload' = extension_payload /\ out' \notin BadCheck
    BY <1>4 DEF StayPending, Pending, BadCheck, Error
  <2> QED BY <1>1, <1>4, <2>1, <2>2, SameKeeps
<1>5. CASE /\ member_chunk = NoChunk /\ state.phase = "ReadingMember"
           /\ ~StartsBlock(op)
           /\ member_chunk' = NewChunk(state.remaining, target, position)
           /\ StayPending(op)
           /\ UNCHANGED <<remaining, state>>
  <2>1. state # Failed
    BY <1>5 DEF Failed, Phase
  <2>2. /\ state' \in [phase : {"ReadingMember"}, remaining : Positive]
        /\ remaining' = state'.remaining
    BY <1>1, <1>5, <2>1, NoChunkFacts
  <2>3. block' = <<>> /\ source' = position'
    <3>1. block = <<>> /\ Len(<<>>) = 0
      BY <1>5 DEF StartsBlock
    <3> QED BY <1>1, <1>5, <2>1, <3>1, NoChunkFacts, HeldKinds
  <2>4. ExtensionKind(extension_payload') /\ out' \notin BadCheck
    BY <1>5, HeldKinds, AnswerKeeps
  <2>5. member_chunk' = NewChunk(state'.remaining, target, position')
    BY <1>1, <1>5
  <2> QED BY <1>2, <2>2, <2>3, <2>4, <2>5, BeginChunkKeeps
<1>6. CASE /\ member_chunk = NoChunk
           /\ state' = Failed
           /\ Return(op, Error("NoPayload"))
           /\ UNCHANGED <<member_chunk, remaining>>
  <2>1. Error("NoPayload") \notin BadCheck
    BY DEF Error, BadCheck
  <2>2. ExtensionKind(extension_payload') /\ out' \notin BadCheck
    BY <1>6, <2>1, HeldKinds, AnswerKeeps
  <2>3. call' = "idle"
    BY <1>6 DEF Return
  <2>4. remaining' \in Nat /\ member_chunk' = NoChunk
    BY <1>6, HeldKinds
  <2> QED BY <1>2, <1>6, <2>2, <2>3, <2>4, FailureKeeps
<1> QED BY <1>3, <1>4, <1>5, <1>6 DEF StartRead

(* A call that is answered without reading.                                *)
LEMMA AnsweredAtOnce ==
  ASSUME ReaderInv, NEW op, NEW o, Return(op, o), o \notin BadCheck,
         ~(state.phase \in {"ReadingPax", "ReadingGnu"}) \/ op # "next_frame",
         UNCHANGED <<source, position, block, format, state, global_pax_records,
                     member_chunk, remaining, logical_pax_records>>
  PROVE  ReaderInv'
<1>1. BuffersOK' /\ StateOK' /\ remaining' \in Nat /\ GlobalsOK' /\ FormatOK'
  BY DEF ReaderInv, BuffersOK, StateOK, GlobalsOK, OneGlobalState, FormatOK
<1>2. ExtensionOK'
  <2>1. CASE op = "next_frame"
    BY <2>1, <1>1 DEF Return, ReaderInv, ExtensionOK, NoPayload
  <2>2. CASE op # "next_frame"
    BY <2>2 DEF Return, ReaderInv, ExtensionOK
  <2> QED BY <2>1, <2>2
<1>3. ChunkOK'
  BY DEF ReaderInv, ChunkOK, ReadingChunk, ReadyToDeliver
<1>4. PayloadAccounted' /\ NoByteLost'
  BY DEF ReaderInv, PayloadAccounted, NoByteLost, Filled
<1>5. CallOK' /\ ChecksNeverFail'
  BY DEF CallOK, ChecksNeverFail, BadCheck, Return
<1> QED BY <1>1, <1>2, <1>3, <1>4, <1>5 DEF ReaderInv

LEMMA CallPayloadKeeps ==
  ASSUME ReaderInv, NEW op \in {"next_block", "next_chunk", "skip"}, NEW target \in Nat,
         CallPayload(op, target)
  PROVE  ReaderInv'
<1>1. CASE StartRead(op, target)
  BY <1>1, StartReadKeeps DEF CallPayload
<1>2. CASE /\ Return(op, Exhausted)
           /\ UNCHANGED <<streamVars, member_chunk, remaining>>
  <2>1. Exhausted \notin BadCheck
    BY DEF Exhausted, BadCheck, Error
  <2>2. UNCHANGED <<source, position, block, format, state, global_pax_records,
                    member_chunk, remaining, logical_pax_records>>
    BY <1>2 DEF CallPayload, streamVars
  <2> QED BY <1>2, <2>1, <2>2, AnsweredAtOnce
<1> QED BY <1>1, <1>2 DEF CallPayload

LEMMA CallNextFrameKeeps ==
  ASSUME ReaderInv, CallNextFrame
  PROVE  ReaderInv'
<1>1. CASE StartRead("next_frame", PAYLOAD_DRAIN_CHUNK_BYTES)
  BY <1>1, TargetAssumption, StartReadKeeps DEF CallNextFrame
<1>2. CASE /\ state = Failed \/ state = Complete
           /\ Return("next_frame", End)
           /\ UNCHANGED <<source, position, block, framingVars, state, member_chunk, remaining>>
  <2>1. End \notin BadCheck
    BY DEF End, BadCheck, Error
  <2>2. ~(state.phase \in {"ReadingPax", "ReadingGnu"})
    BY <1>2 DEF Failed, Complete, Phase
  <2>3. UNCHANGED <<source, position, block, format, state, global_pax_records,
                    member_chunk, remaining, logical_pax_records>>
    BY <1>2 DEF CallNextFrame, framingVars
  <2> QED BY <1>2, <2>1, <2>2, <2>3, AnsweredAtOnce
<1>3. CASE /\ ~Finished
           /\ StayPending("next_frame")
           /\ UNCHANGED <<source, position, block, framingVars, state, member_chunk, remaining>>
  <2>1. UNCHANGED <<source, position, block, format, state, global_pax_records,
                    member_chunk, remaining, logical_pax_records>>
    BY <1>3 DEF CallNextFrame, framingVars
  <2>2. extension_payload' = extension_payload /\ out' \notin BadCheck
    BY <1>3 DEF StayPending, Pending, BadCheck, Error
  <2> QED BY <1>3, <2>1, <2>2, SameKeeps
<1> QED BY <1>1, <1>2, <1>3 DEF CallNextFrame

-----------------------------------------------------------------------------
(* The polls of a payload read.                                            *)

(* Reading the rest of a block brings the source to the next position.     *)
LEMMA BlockRead ==
  ASSUME BuffersOK, source = position + Len(block), ReadBlock
  PROVE  BuffersOK' /\ block' = <<>> /\ source' = position'
<1>1. BLOCK_SIZE \in Nat \ {0} /\ Len(block) \in Nat /\ Len(block) < BLOCK_SIZE
      /\ position \in Nat
  BY BlockAssumption DEF BuffersOK
<1>2. source' = position + BLOCK_SIZE /\ position' = position + BLOCK_SIZE /\ block' = <<>>
  BY <1>1 DEF ReadBlock, Missing
<1>3. <<>> \in Seq(Nat) /\ Len(<<>>) = 0
  OBVIOUS
<1> QED BY <1>1, <1>2, <1>3 DEF BuffersOK

(* What a read leaves of a block is part of what was read.                 *)
LEMMA PartOfBlock ==
  ASSUME NEW n \in Nat
  PROVE  n % BLOCK_SIZE \in 0..n
<1> DEFINE q == n \div BLOCK_SIZE
           r == n % BLOCK_SIZE
<1>1. q \in Nat /\ r \in Nat /\ n = BLOCK_SIZE * q + r /\ BLOCK_SIZE \in Nat
  BY BlockAssumption
<1> HIDE DEF q, r
<1>2. BLOCK_SIZE * q \in Nat
  BY <1>1
<1>3. r \in 0..n
  BY <1>1, <1>2
<1> QED BY <1>3 DEF r

LEMMA PayloadStateShape ==
  ASSUME NEW n \in Nat
  PROVE  /\ MemberPayloadState(n) = AwaitingHeader
              \/ MemberPayloadState(n) \in [phase : {"ReadingMember"}, remaining : Positive]
         /\ Unread(MemberPayloadState(n)) = n
BY DEF MemberPayloadState, AwaitingHeader, ReadingMember, Phase, Positive, Unread

(* The stream's own errors are none of the reader's checks.                *)
LEMMA SourceEnds ==
  ASSUME Eof \/ IoError
  PROVE  /\ state' = Failed /\ frame'.type = "Error" /\ frame' \notin BadCheck
         /\ UNCHANGED <<source, position, block, global_pax_records>>
<1>1. \E e : frame' = Error(e) /\ e \notin {"Oversized", "UnattachedData"} /\ state' = Failed
  <2>1. CASE IoError
    BY <2>1 DEF IoError, Fail
  <2>2. CASE Eof /\ block # <<>>
    BY <2>2 DEF Eof, Fail
  <2>3. CASE Eof /\ block = <<>>
    BY <2>3 DEF Eof, Fail
  <2> QED BY <2>1, <2>2, <2>3
<1> QED BY <1>1 DEF Error, BadCheck, Eof, IoError

LEMMA PollMemberBlockKeeps ==
  ASSUME ReaderInv, PollMemberBlock
  PROVE  ReaderInv'
<1>1. /\ call # "idle" /\ remaining > 0 /\ member_chunk = NoChunk
      /\ UNCHANGED logical_pax_records
  BY DEF PollMemberBlock, ReadsBlock, ReadsPayload
<1>2. ~Finished /\ state # Failed
  BY <1>1 DEF ReaderInv, CallOK, Finished, Failed, Phase
<1>3. /\ source = position + Len(block)
      /\ block = Offsets(position, Len(block))
      /\ state \in [phase : {"ReadingMember"}, remaining : Positive]
      /\ remaining = state.remaining
  BY <1>1, <1>2, NoChunkFacts
<1>4. CASE /\ ReadPart
           /\ StayPending(call)
           /\ UNCHANGED <<member_chunk, remaining>>
  <2>1. BuffersOK' /\ source' = position + Len(block') /\ block' = Offsets(position, Len(block'))
    BY <1>3, <1>4, HeldKinds, ReadPartInOrder
  <2>2. UNCHANGED <<position, format, state, global_pax_records, logical_pax_records,
                    member_chunk, remaining, extension_payload, call>>
    BY <1>1, <1>4 DEF ReadPart, StayPending
  <2>3. StateOK' /\ remaining' \in Nat /\ GlobalsOK' /\ ExtensionOK' /\ FormatOK' /\ ChunkOK'
    BY <1>1, <2>2
       DEF ReaderInv, StateOK, GlobalsOK, OneGlobalState, ExtensionOK, FormatOK, ChunkOK
  <2>4. PayloadAccounted'
    BY <2>2 DEF ReaderInv, PayloadAccounted
  <2>5. NoByteLost'
    <3>1. member_chunk' = NoChunk /\ NoChunk.phase = "None"
      BY <1>1, <2>2 DEF NoChunk, Phase
    <3>2. source' = position' + Len(block') + 0
      BY <2>1, <2>2, HeldKinds DEF BuffersOK
    <3>3. block' = Offsets(position', Len(block'))
      BY <2>1, <2>2
    <3> QED BY <3>1, <3>2, <3>3 DEF NoByteLost, Filled
  <2>6. CallOK' /\ ChecksNeverFail'
    BY <1>2, <1>4, <2>2 DEF CallOK, Finished, ChecksNeverFail, StayPending, Pending, Error
  <2> QED BY <2>1, <2>3, <2>4, <2>5, <2>6 DEF ReaderInv
<1>5. CASE /\ ReadBlock
           /\ Deliver(call, Meaningful(state.remaining), NoChunk,
                      MemberPayloadState(state.remaining - Smaller(state.remaining, BLOCK_SIZE)))
           /\ UNCHANGED framingVars
  <2> DEFINE bytes == Meaningful(state.remaining)
             n == state.remaining - Smaller(state.remaining, BLOCK_SIZE)
             s == MemberPayloadState(n)
  <2>1. state.remaining \in Nat \ {0}
    BY <1>3 DEF Positive
  <2>2. Len(bytes) = Smaller(state.remaining, BLOCK_SIZE) /\ Len(bytes) \in 1..state.remaining
    BY <2>1, HeldKinds, MeaningfulLength
  <2>3. n \in Nat /\ state.remaining = Len(bytes) + n /\ Len(bytes) \in Nat
    BY <2>1, <2>2
  <2>4. /\ s = AwaitingHeader \/ s \in [phase : {"ReadingMember"}, remaining : Positive]
        /\ Unread(s) = n
    BY <2>3, PayloadStateShape
  <2>5. BuffersOK' /\ block' = <<>> /\ source' = position'
    BY <1>3, <1>5, HeldKinds, BlockRead
  <2>6. GlobalsOK'
    BY <1>1, <1>5, HeldKinds DEF framingVars, GlobalsOK, OneGlobalState
  <2>7. Undelivered(NoChunk) = 0
    BY DEF Undelivered, NoChunk, Phase
  <2> HIDE DEF bytes, n, s
  <2>8. remaining = Len(bytes) + Undelivered(NoChunk) + Unread(s)
    BY <1>3, <2>3, <2>4, <2>7
  <2>9. Deliver(call, bytes, NoChunk, s)
    BY <1>5 DEF bytes, n, s
  <2> QED BY <2>3, <2>4, <2>5, <2>6, <2>7, <2>8, <2>9, HeldKinds, DeliverKeeps
<1>6. CASE /\ Eof \/ IoError
           /\ Return(call, frame')
           /\ UNCHANGED <<member_chunk, remaining>>
  <2>1. /\ state' = Failed /\ frame' \notin BadCheck
        /\ UNCHANGED <<source, position, block, global_pax_records>>
    BY <1>6, SourceEnds
  <2>2. ExtensionKind(extension_payload') /\ out' \notin BadCheck
    BY <1>6, <2>1, HeldKinds, AnswerKeeps
  <2>3. BuffersOK' /\ GlobalsOK' /\ remaining' \in Nat /\ member_chunk' = NoChunk
    BY <1>1, <1>6, <2>1, HeldKinds DEF BuffersOK, GlobalsOK, OneGlobalState
  <2>4. call' = "idle"
    BY <1>6 DEF Return
  <2> QED BY <2>1, <2>2, <2>3, <2>4, FailureKeeps
<1> QED BY <1>4, <1>5, <1>6 DEF PollMemberBlock

LEMMA PollMemberChunkKeeps ==
  ASSUME ReaderInv, PollMemberChunk
  PROVE  ReaderInv'
<1> DEFINE c == member_chunk
           filled == Len(c.buffer)
<1>1. /\ call # "idle" /\ c.phase = "Reading"
      /\ UNCHANGED <<block, framingVars, logical_pax_records>>
  BY DEF PollMemberChunk, ReadsChunk, ReadsPayload, framingVars
<1>2. /\ ReadingShape(c) /\ c.start = position /\ block = <<>>
      /\ source = position + filled
      /\ state = ReadingMember(c.member_remaining)
      /\ remaining = c.member_remaining
  BY <1>1, ReadingFacts
<1>3. /\ c.start \in Nat /\ c.physical \in Nat /\ c.meaningful \in Nat
      /\ c.member_remaining \in Nat /\ c.meaningful <= c.member_remaining
      /\ filled \in Nat /\ filled < c.physical /\ c.buffer = Offsets(c.start, filled)
  BY <1>2 DEF ReadingShape, Positive
<1>4. GlobalsOK'
  BY <1>1, HeldKinds DEF framingVars, GlobalsOK, OneGlobalState
<1>5. ASSUME NEW n \in Nat
      PROVE  c.buffer \o NextBytes(n) = Offsets(c.start, filled + n)
  <2>1. NextBytes(n) = Offsets(c.start + filled, n)
    BY <1>2 DEF NextBytes, Offsets
  <2>2. Offsets(c.start, filled) \o Offsets(c.start + filled, n) = Offsets(c.start, filled + n)
    BY ZenonT(40), <1>3, OffsetsAppend
  <2> QED BY <1>3, <2>1, <2>2
<1>6. ASSUME NEW n \in 1..(c.physical - filled - 1),
             source' = source + n,
             member_chunk' = [c EXCEPT !.buffer = @ \o NextBytes(n)],
             StayPending(call),
             UNCHANGED <<position, remaining, state>>
      PROVE  ReaderInv'
  <2> DEFINE d == member_chunk'
             whole == Offsets(c.start, filled + n)
  <2>1. n \in Nat /\ filled + n < c.physical
    BY <1>3
  <2>2. whole \in Seq(Nat) /\ Len(whole) = filled + n
    <3>1. filled + n \in Nat /\ c.start \in Nat
      BY <2>1, <1>3
    <3> QED BY <3>1, OffsetsType
  <2>3. c.buffer \o NextBytes(n) = whole
    BY <1>5, <2>1
  <2> HIDE DEF whole
  <2>4. c = [phase |-> "Reading", start |-> c.start, physical |-> c.physical,
             meaningful |-> c.meaningful, member_remaining |-> c.member_remaining,
             buffer |-> c.buffer]
    BY <1>2 DEF ReadingShape
  <2>5. d = [phase |-> "Reading", start |-> c.start, physical |-> c.physical,
             meaningful |-> c.meaningful, member_remaining |-> c.member_remaining,
             buffer |-> whole]
    BY <1>6, <2>3, <2>4
  <2>6. ReadingShape(d)
    BY <1>2, <1>3, <2>1, <2>2, <2>5 DEF ReadingShape, whole
  <2>7. /\ d.phase = "Reading" /\ d.start = position' /\ d.member_remaining = c.member_remaining
        /\ d.meaningful = c.meaningful /\ Len(d.buffer) = filled + n
    BY <1>2, <1>6, <2>2, <2>5
  <2>8. ChunkOK'
    <3>1. ReadingChunk'
      BY <1>1, <1>2, <1>6, <2>6, <2>7 DEF ReadingChunk
    <3> QED BY <3>1 DEF ChunkOK
  <2>9. state.phase = "ReadingMember" /\ state # Failed /\ Unread(state) = c.member_remaining
    BY <1>2 DEF ReadingMember, Failed, Phase, Unread
  <2>10. PayloadAccounted'
    <3>1. Undelivered(d) = 0
      BY <2>7 DEF Undelivered
    <3> QED BY <1>2, <1>3, <1>6, <2>7, <2>9, <3>1 DEF PayloadAccounted
  <2>11. source' = position' + (filled + n) /\ source' \in Nat /\ position' \in Nat
    BY <1>2, <1>3, <1>6, <2>1
  <2>12. NoByteLost'
    <3>1. d.buffer = Offsets(d.start, Len(d.buffer))
      BY <2>6 DEF ReadingShape
    <3>2. block' = <<>> /\ Len(<<>>) = 0 /\ <<>> = Offsets(position', 0)
      BY <1>1, <1>2 DEF Offsets
    <3>3. Len(block') = 0 /\ block' = Offsets(position', Len(block'))
      BY <3>2
    <3>4. source' = position' + Len(block') + Len(d.buffer)
      BY <2>1, <2>7, <2>11, <3>3, <1>3
    <3>5. block' = <<>>
      BY <3>2
    <3> QED BY <2>7, <3>1, <3>3, <3>4, <3>5 DEF NoByteLost, Filled
  <2>13. BuffersOK' /\ StateOK' /\ remaining' \in Nat /\ ExtensionOK' /\ FormatOK'
    BY <1>1, <1>6, <2>9, <2>11 DEF ReaderInv, BuffersOK, StateOK, ExtensionOK, FormatOK, StayPending
  <2>14. CallOK' /\ ChecksNeverFail'
    BY <1>6, <2>9 DEF CallOK, Finished, ChecksNeverFail, StayPending, Pending, Error
  <2> QED BY <1>4, <2>8, <2>10, <2>12, <2>13, <2>14 DEF ReaderInv
<1>7. CASE /\ source' = source + c.physical - filled
           /\ position' = c.start + c.physical
           /\ LET ready == ReadyChunk(c, c.buffer \o NextBytes(c.physical - filled))
              IN  Deliver(call, TakenBytes(call, ready), LeftChunk(call, ready),
                          MemberPayloadState(c.member_remaining - c.meaningful))
  <2> DEFINE buffer == c.buffer \o NextBytes(c.physical - filled)
             ready  == ReadyChunk(c, buffer)
             bytes  == TakenBytes(call, ready)
             left   == LeftChunk(call, ready)
             m      == c.member_remaining - c.meaningful
             s      == MemberPayloadState(m)
  <2>1. c.physical - filled \in Nat /\ filled + (c.physical - filled) = c.physical /\ m \in Nat
    BY <1>3
  <2>2. buffer = Offsets(c.start, c.physical)
    BY <1>5, <2>1
  <2> HIDE DEF buffer
  <2>3. ReadyShape(ready) /\ Undelivered(ready) = c.meaningful
    BY <1>2, <2>2, ReadyChunkShape
  <2>4. Deliver(call, bytes, left, s)
    BY <1>7 DEF buffer
  <2> HIDE DEF ready
  <2>5. /\ Len(bytes) \in Nat
        /\ left = NoChunk \/ ReadyShape(left)
        /\ call # "next_block" => left = NoChunk
        /\ Undelivered(left) \in Nat
        /\ c.meaningful = Len(bytes) + Undelivered(left)
    BY <2>3, TakeShape
  <2>6. /\ s = AwaitingHeader \/ s \in [phase : {"ReadingMember"}, remaining : Positive]
        /\ Unread(s) = m
    BY <2>1, PayloadStateShape
  <2>7. BuffersOK' /\ block' = <<>> /\ source' = position'
    <3>1. block' = <<>> /\ Len(<<>>) = 0 /\ <<>> \in Seq(Nat)
      BY <1>1, <1>2
    <3>2. source' = c.start + c.physical
      BY <1>2, <1>3, <1>7
    <3> QED BY <1>3, <1>7, <3>1, <3>2, BlockAssumption DEF BuffersOK
  <2> HIDE DEF bytes, left, s
  <2>8. remaining = Len(bytes) + Undelivered(left) + Unread(s)
    BY <1>2, <1>3, <2>5, <2>6
  <2> QED BY <1>4, <2>4, <2>5, <2>6, <2>7, <2>8, HeldKinds, DeliverKeeps
<1>8. ASSUME NEW e \in {"Io", "IncompleteBlock", "TruncatedPayload"}, ChunkFails(e)
      PROVE  ReaderInv'
  <2>1. /\ state' = Failed /\ member_chunk' = NoChunk /\ frame' = Error(e)
        /\ Return(call, frame') /\ UNCHANGED <<source, remaining>>
        /\ position' = c.start + filled - (filled % BLOCK_SIZE)
    BY <1>8 DEF ChunkFails, Fail
  <2>2. frame' \notin BadCheck
    BY <2>1 DEF Error, BadCheck
  <2>3. ExtensionKind(extension_payload') /\ out' \notin BadCheck
    BY <2>1, <2>2, HeldKinds, AnswerKeeps
  <2>4. filled % BLOCK_SIZE \in 0..filled
    BY <1>3, PartOfBlock
  <2>5. position' \in Nat
    BY <1>3, <2>1, <2>4
  <2>6. BuffersOK' /\ remaining' \in Nat
    BY <1>1, <2>1, <2>5, HeldKinds DEF BuffersOK
  <2>7. call' = "idle"
    BY <2>1 DEF Return
  <2> QED BY <1>4, <2>1, <2>3, <2>6, <2>7, FailureKeeps
<1>9. \/ \E n \in 1..(c.physical - filled - 1) :
            /\ source' = source + n
            /\ member_chunk' = [c EXCEPT !.buffer = @ \o NextBytes(n)]
            /\ StayPending(call)
            /\ UNCHANGED <<position, remaining, state>>
      \/ /\ source' = source + c.physical - filled
         /\ position' = c.start + c.physical
         /\ LET ready == ReadyChunk(c, c.buffer \o NextBytes(c.physical - filled))
            IN  Deliver(call, TakenBytes(call, ready), LeftChunk(call, ready),
                        MemberPayloadState(c.member_remaining - c.meaningful))
      \/ ChunkFails("Io")
      \/ ChunkFails("IncompleteBlock")
      \/ ChunkFails("TruncatedPayload")
  BY DEF PollMemberChunk
<1> QED BY <1>6, <1>7, <1>8, <1>9

-----------------------------------------------------------------------------
(* The polls of next_frame past the payload.                               *)

LEMMA FrameFacts ==
  ASSUME ReaderInv, call # "idle", remaining = 0
  PROVE  /\ member_chunk = NoChunk /\ ~Finished
         /\ source = position + Len(block) /\ block = Offsets(position, Len(block))
         /\ state.phase # "ReadingMember"
<1>1. ~Finished /\ state # Failed
  BY DEF ReaderInv, CallOK, Finished, Failed, Phase
<1>2. member_chunk = NoChunk
  <2>1. CASE member_chunk.phase = "Reading"
    BY <2>1, ReadingFacts
  <2>2. CASE member_chunk.phase = "Ready"
    <3>1. Undelivered(member_chunk) \in Nat \ {0}
      BY <2>2, ReadyFacts, TakeShape
    <3> QED BY <2>2, <3>1, ReadyFacts
  <2> QED BY <2>1, <2>2 DEF ReaderInv, ChunkOK, ReadingChunk, ReadyToDeliver,
                          ReadingShape, ReadyShape
<1> QED BY <1>1, <1>2, NoChunkFacts

(* What a completed block must leave behind for the invariant to go on.    *)
Outcome ==
  /\ StateOK' /\ remaining' \in Nat /\ remaining' = Unread(state')
  /\ GlobalsOK' /\ ExtensionOK' /\ FormatOK'
  /\ call' # "idle" => state'.phase \notin {"Complete", "Failed"}
  /\ out' \notin BadCheck

Idle == ReaderInv /\ call # "idle" /\ remaining = 0 /\ HandleFrame(frame')

(* Nothing to hand out yet, the end, or an error of the stream.            *)
LEMMA QuietOutcome ==
  ASSUME Idle, UNCHANGED global_pax_records,
         \/ frame' = Pending /\ state' = AwaitingSecondZero
         \/ frame' = End /\ state' = Complete
         \/ \E e : frame' = Error(e) /\ state' = Failed /\ frame' \notin BadCheck
  PROVE  Outcome
<1>1. /\ UNCHANGED <<remaining, logical_pax_records>> /\ out' \notin BadCheck
      /\ ExtensionKind(extension_payload')
      /\ call' # "idle" => frame' = Pending
  <2>1. CASE frame' = Pending
    <3>1. StayPending(call) /\ UNCHANGED <<remaining, logical_pax_records>>
      BY <2>1 DEF Idle, HandleFrame, Pending
    <3> QED BY <2>1, <3>1, HeldKinds, AnswerKeeps DEF Idle
  <2>2. CASE frame'.type \in {"End", "Error"} /\ frame' \notin BadCheck
    <3>1. Return("next_frame", frame') /\ UNCHANGED <<remaining, logical_pax_records>>
      BY <2>2 DEF Idle, HandleFrame, Pending
    <3>2. call' = "idle"
      BY <3>1 DEF Return
    <3> QED BY <2>2, <3>1, <3>2, HeldKinds, AnswerKeeps DEF Idle
  <2>3. frame' = End => frame'.type = "End" /\ frame' \notin BadCheck
    BY DEF End, BadCheck, Error
  <2>4. \A e : frame' = Error(e) => frame'.type = "Error"
    BY DEF Error
  <2> QED BY <2>1, <2>2, <2>3, <2>4
<1>2. /\ state' \in {AwaitingSecondZero, Complete, Failed}
      /\ state'.phase \in {"AwaitingSecondZero", "Complete", "Failed"}
      /\ frame' = Pending => state'.phase = "AwaitingSecondZero"
  BY DEF AwaitingSecondZero, Complete, Failed, Phase, Pending, End, Error
<1>3. StateOK' /\ Unread(state') = 0
  BY <1>2 DEF StateOK, Unread
<1>4. GlobalsOK'
  BY <1>1, HeldKinds DEF Idle, GlobalsOK, OneGlobalState
<1>5. ExtensionOK' /\ FormatOK'
  BY <1>1, <1>2 DEF ExtensionOK, ExtensionKind, FormatOK
<1>6. remaining' = 0
  BY <1>1 DEF Idle
<1>7. call' # "idle" => state'.phase \notin {"Complete", "Failed"}
  BY <1>1, <1>2
<1> QED BY <1>1, <1>3, <1>4, <1>5, <1>6, <1>7 DEF Outcome

LEMMA FailOutcome ==
  ASSUME Idle, UNCHANGED global_pax_records,
         NEW e, Fail(e), e \notin {"Oversized", "UnattachedData"}
  PROVE  Outcome
<1>1. frame' = Error(e) /\ state' = Failed /\ frame' \notin BadCheck
  BY DEF Fail, Error, BadCheck
<1> QED BY <1>1, QuietOutcome

(* A member is handed out with size bytes of payload to come.              *)
LEMMA ReleaseOutcome ==
  ASSUME Idle, UNCHANGED global_pax_records, NEW h, NEW size \in Nat,
         state' = MemberPayloadState(size), frame' = HeaderFrame(h, size)
  PROVE  Outcome
<1>1. frame'.type = "Header" /\ frame'.size = size /\ frame' # Pending
  BY DEF HeaderFrame, Pending
<1>2. ReleaseMember(frame')
  BY <1>1 DEF Idle, HandleFrame
<1>3. /\ remaining' = size /\ call' = "idle" /\ out'.type = "Member"
      /\ UNCHANGED <<extension_payload, logical_pax_records>>
  BY <1>1, <1>2 DEF ReleaseMember
<1>4. /\ state' = AwaitingHeader \/ state' \in [phase : {"ReadingMember"}, remaining : Positive]
      /\ Unread(state') = size
  BY PayloadStateShape
<1>5. state'.phase \in {"AwaitingHeader", "ReadingMember"}
  BY <1>4 DEF AwaitingHeader, Phase
<1>6. StateOK' /\ GlobalsOK' /\ ExtensionOK' /\ FormatOK'
  BY <1>3, <1>4, <1>5, HeldKinds
     DEF Idle, StateOK, GlobalsOK, OneGlobalState, ExtensionOK, ExtensionKind, FormatOK
<1>7. out' \notin BadCheck
  BY <1>3 DEF BadCheck, Error
<1> QED BY <1>3, <1>4, <1>6, <1>7 DEF Outcome

(* The families of headers, block by block.                                *)
LEMMA ZeroOutcome ==
  ASSUME Idle, ZeroBlock \/ BadEndMarker \/ RejectedHeader
  PROVE  Outcome
<1>1. UNCHANGED global_pax_records
  BY DEF ZeroBlock, BadEndMarker, RejectedHeader
<1>2. \/ frame' = Pending /\ state' = AwaitingSecondZero
      \/ frame' = End /\ state' = Complete
      \/ \E e \in {"UnexpectedOrder", "InvalidEndMarker", "InvalidHeader", "FormatMismatch"} : Fail(e)
  BY DEF ZeroBlock, BadEndMarker, RejectedHeader, SetState
<1> QED BY <1>1, <1>2, QuietOutcome, FailOutcome

LEMMA PaxHeaderOutcome ==
  ASSUME Idle, NEW h \in Headers, PaxHeader(h)
  PROVE  Outcome
<1>1. UNCHANGED global_pax_records /\ h.size \in Nat /\ h.format = "Pax" /\ format' = "Pax"
  BY SizeAssumption DEF PaxHeader, Headers, AcceptFormat
<1>2. CASE \E e \in {"UnexpectedOrder", "ExtensionTooLarge", "GlobalPaxExtensionsTooLarge",
                     "InvalidPaxRecord"} : Fail(e)
  BY <1>1, <1>2, FailOutcome
<1>3. CASE /\ h.size # 0
           /\ SetState(ReadingPax(PaxKind[h.typeflag], h.size), PaxFrame(PaxKind[h.typeflag], h.size))
  <2> DEFINE kind == PaxKind[h.typeflag]
  <2>1. kind \in PaxKinds
    BY DEF PaxHeader, PaxKind, PaxKinds
  <2> HIDE DEF kind
  <2>2. /\ state' = [phase |-> "ReadingPax", kind |-> kind, remaining |-> h.size]
        /\ frame' = [type |-> "Pax", position |-> position, kind |-> kind, size |-> h.size]
    BY <1>3 DEF SetState, ReadingPax, PaxFrame, kind
  <2>3. PaxExtension(frame')
    BY <2>2 DEF Idle, HandleFrame, Pending
  <2>4. /\ UNCHANGED <<remaining, logical_pax_records>> /\ out' = Pending
        /\ extension_payload' = [kind |-> kind, position |-> position]
    BY <2>2, <2>3 DEF PaxExtension, GoOn
  <2>5. StateOK' /\ Unread(state') = 0 /\ ExtensionOK' /\ FormatOK'
    BY <1>1, <1>3, <2>1, <2>2, <2>4 DEF StateOK, Positive, Unread, ExtensionOK, FormatOK
  <2>6. GlobalsOK'
    BY <1>1, <2>4, HeldKinds DEF Idle, GlobalsOK, OneGlobalState
  <2>7. out' \notin BadCheck
    BY <2>4 DEF Pending, BadCheck, Error
  <2> QED BY <2>2, <2>4, <2>5, <2>6, <2>7 DEF Outcome, Idle
<1> QED BY <1>2, <1>3 DEF PaxHeader

LEMMA UstarHeaderOutcome ==
  ASSUME Idle, AcceptsHeader, NEW h \in Headers, UstarHeader(h)
  PROVE  Outcome
<1> DEFINE local == IF state = AwaitingHeader THEN NoRecords ELSE state.records
           size  == EffectiveSize(h.size, local)
<1>1. UNCHANGED global_pax_records /\ h.size \in Nat /\ format \in {"None", "Pax"}
  BY SizeAssumption DEF UstarHeader, Headers, AcceptFormat
<1>2. state # AwaitingHeader => Sized(state.records)
  <2>1. state.phase \in {"AwaitingHeader", "AwaitingUstarHeader"}
    BY <1>1 DEF AcceptsHeader, Idle, ReaderInv, FormatOK
  <2> QED BY <2>1 DEF Idle, ReaderInv, StateOK, AwaitingHeader, AwaitingSecondZero, Complete,
                      Failed, Phase
<1>3. local["size"] \in Nat \cup {Absent, Deleted}
  BY <1>2 DEF Sized, NoRecords, Keywords
<1>4. global_pax_records["size"] \in Nat \cup {Absent, Deleted}
  BY HeldKinds DEF Idle, GlobalsOK, Sized
<1> HIDE DEF local
<1>5. size = Deleted \/ size \in Nat
  BY <1>1, <1>3, <1>4 DEF EffectiveSize, EffectiveRecord
<1>6. \/ Fail("InvalidMember")
      \/ size # Deleted /\ SetState(MemberPayloadState(size), HeaderFrame(h, size))
  BY DEF UstarHeader, local
<1> HIDE DEF size
<1>7. CASE size \in Nat /\ state' = MemberPayloadState(size) /\ frame' = HeaderFrame(h, size)
  BY <1>1, <1>7, ReleaseOutcome
<1> QED BY <1>1, <1>5, <1>6, <1>7, FailOutcome DEF SetState

LEMMA PendingGnuKinds ==
  ASSUME ReaderInv, AcceptsHeader, format \in {"None", "Gnu"}
  PROVE  PendingGnu \subseteq GnuKinds
<1>1. state.phase \in {"AwaitingHeader", "AwaitingGnuMember"}
  BY DEF AcceptsHeader, ReaderInv, FormatOK
<1>2. state = AwaitingHeader \/ state \in [phase : {"AwaitingGnuMember"}, pending : SUBSET GnuKinds]
  BY <1>1 DEF ReaderInv, StateOK, AwaitingHeader, AwaitingSecondZero, Complete, Failed, Phase,
              AwaitingUstarHeader
<1> QED BY <1>2 DEF PendingGnu

LEMMA GnuExtensionOutcome ==
  ASSUME Idle, AcceptsHeader, NEW h \in Headers, GnuExtension(h)
  PROVE  Outcome
<1> DEFINE kind == GnuKind[h.typeflag]
           pending == PendingGnu \cup {kind}
<1>1. /\ UNCHANGED global_pax_records /\ h.size \in Nat
      /\ format \in {"None", "Gnu"} /\ format' = "Gnu"
  BY SizeAssumption DEF GnuExtension, Headers, AcceptFormat
<1>2. kind \in GnuKinds
  BY DEF GnuExtension, GnuKind, GnuKinds
<1>3. pending \subseteq GnuKinds
  BY <1>1, <1>2, PendingGnuKinds DEF Idle
<1>4. \/ \E e \in {"UnexpectedOrder", "ExtensionTooLarge"} : Fail(e)
      \/ SetState(IF h.size = 0 THEN AwaitingGnuMember(pending)
                                ELSE ReadingGnu(kind, h.size, pending),
                  GnuFrame(kind, h.size))
  BY DEF GnuExtension
<1> HIDE DEF kind, pending
<1>5. CASE SetState(IF h.size = 0 THEN AwaitingGnuMember(pending)
                                  ELSE ReadingGnu(kind, h.size, pending),
                    GnuFrame(kind, h.size))
  <2>1. frame' = [type |-> "Gnu", position |-> position, kind |-> kind, size |-> h.size]
    BY <1>5 DEF SetState, GnuFrame
  <2>2. GnuExtensionFrame(frame')
    BY <2>1 DEF Idle, HandleFrame, Pending
  <2>3. UNCHANGED <<remaining, logical_pax_records>> /\ out' = Pending
    BY <2>2 DEF GnuExtensionFrame, GoOn
  <2>4. StateOK' /\ Unread(state') = 0 /\ ExtensionOK' /\ FormatOK'
    <3>1. CASE h.size = 0
      <4>1. state' = [phase |-> "AwaitingGnuMember", pending |-> pending]
        BY <1>5, <3>1 DEF SetState, AwaitingGnuMember
      <4>2. UNCHANGED extension_payload
        BY <2>1, <2>2, <3>1 DEF GnuExtensionFrame
      <4> QED BY <1>1, <1>3, <4>1, <4>2, HeldKinds
              DEF Idle, StateOK, Unread, ExtensionOK, ExtensionKind, FormatOK
    <3>2. CASE h.size # 0
      <4>1. state' = [phase |-> "ReadingGnu", kind |-> kind, remaining |-> h.size,
                      pending |-> pending]
        BY <1>5, <3>2 DEF SetState, ReadingGnu
      <4>2. extension_payload' = [kind |-> kind, position |-> position,
                                  remaining |-> h.size, payload |-> <<>>]
        BY <2>1, <2>2, <3>2 DEF GnuExtensionFrame
      <4> QED BY <1>1, <1>2, <1>3, <3>2, <4>1, <4>2
              DEF StateOK, Positive, Unread, ExtensionOK, FormatOK
    <3> QED BY <3>1, <3>2
  <2>5. GlobalsOK'
    BY <1>1, <2>3, HeldKinds DEF Idle, GlobalsOK, OneGlobalState
  <2>6. state'.phase \notin {"Complete", "Failed"}
    BY <1>5 DEF SetState, AwaitingGnuMember, ReadingGnu
  <2>7. out' \notin BadCheck
    BY <2>3 DEF Pending, BadCheck, Error
  <2> QED BY <2>3, <2>4, <2>5, <2>6, <2>7 DEF Outcome, Idle
<1> QED BY <1>1, <1>4, <1>5, FailOutcome

LEMMA GnuHeaderOutcome ==
  ASSUME Idle, NEW h \in Headers, GnuHeader(h)
  PROVE  Outcome
<1>1. UNCHANGED global_pax_records /\ h.size \in Nat
  BY SizeAssumption DEF GnuHeader, Headers
<1>2. \/ Fail("InvalidMember")
      \/ state' = MemberPayloadState(h.size) /\ frame' = HeaderFrame(h, h.size)
  BY DEF GnuHeader, SetState
<1> QED BY <1>1, <1>2, FailOutcome, ReleaseOutcome

(* The payload of an extension.                                            *)
LEMMA AppliedRecords ==
  ASSUME NEW records, NEW global, Sized(records), Sized(global)
  PROVE  Sized(ApplyGlobal(records, global))
BY DEF Sized, RecordsType, ApplyGlobal, EffectiveRecord, Keywords

LEMMA ParsedRecords ==
  ASSUME NEW records \in PaxPayloads
  PROVE  Sized(records)
BY RecordAssumption DEF Sized, RecordsType

LEMMA PaxDataOutcome ==
  ASSUME Idle, PaxData
  PROVE  Outcome
<1>1. state \in [phase : {"ReadingPax"}, kind : PaxKinds, remaining : Positive]
  BY DEF PaxData, Idle, ReaderInv, StateOK, AwaitingHeader, AwaitingSecondZero, Complete, Failed,
         Phase, AwaitingUstarHeader
<1>2. /\ extension_payload.kind = state.kind /\ state.kind \in PaxKinds
      /\ state.kind \notin GnuKinds /\ state.remaining \in Nat \ {0}
      /\ state.phase = "ReadingPax" /\ format = "Pax"
  BY <1>1 DEF Idle, ReaderInv, ExtensionOK, PaxKinds, GnuKinds, Positive, FormatOK
<1>3. format' = "Pax"
  BY <1>2 DEF PaxData
<1>4. ASSUME NEW bytes, NEW records, frame' = DataFrame(state.kind, bytes, records)
      PROVE  /\ UNCHANGED <<call, remaining>> /\ out' = Pending
             /\ IF records = {}
                THEN UNCHANGED <<extension_payload, logical_pax_records>>
                ELSE \E r \in records :
                       /\ extension_payload' = NoPayload
                       /\ logical_pax_records' = IF state.kind = "Global"
                            THEN ApplyGlobal(r, logical_pax_records) ELSE logical_pax_records
  <2>1. /\ frame'.type = "Data" /\ frame'.owner = state.kind /\ frame'.completed = records
        /\ frame' # Pending
    BY <1>4 DEF DataFrame, Pending
  <2>2. ExtensionData(frame')
    BY <2>1 DEF Idle, HandleFrame
  <2>3. PaxExtensionData(frame', extension_payload)
    BY <1>2, <2>1, <2>2 DEF ExtensionData
  <2>4. UNCHANGED <<call, remaining>> /\ out' = Pending
    BY <2>3 DEF PaxExtensionData, GoOn
  <2>5. CASE records = {}
    BY <2>1, <2>3, <2>4, <2>5 DEF PaxExtensionData
  <2>6. CASE records # {}
    <3>1. \E r \in records :
            /\ extension_payload' = NoPayload
            /\ IF extension_payload.kind = "Global"
               THEN logical_pax_records' = LogicalGlobals(r)
               ELSE UNCHANGED logical_pax_records
      BY <2>1, <2>3, <2>6 DEF PaxExtensionData
    <3> QED BY <1>2, <2>4, <2>6, <3>1 DEF LogicalGlobals
  <2> QED BY <2>5, <2>6
<1>5. out' = Pending => out' \notin BadCheck
  BY DEF Pending, BadCheck, Error
<1>6. CASE /\ state.remaining > BLOCK_SIZE
           /\ SetState(ReadingPax(state.kind, state.remaining - BLOCK_SIZE),
                       DataFrame(state.kind, Meaningful(state.remaining), {}))
           /\ UNCHANGED global_pax_records
  <2>1. /\ UNCHANGED <<call, remaining, extension_payload, logical_pax_records>>
        /\ out' = Pending
    BY <1>4, <1>6 DEF SetState
  <2>2. state' = [phase |-> "ReadingPax", kind |-> state.kind,
                  remaining |-> state.remaining - BLOCK_SIZE]
    BY <1>6 DEF SetState, ReadingPax
  <2>3. state.remaining - BLOCK_SIZE \in Positive
    BY <1>2, <1>6, BlockAssumption DEF Positive
  <2>4. StateOK' /\ Unread(state') = 0 /\ ExtensionOK' /\ FormatOK'
    BY <1>2, <1>3, <2>1, <2>2, <2>3 DEF StateOK, Unread, ExtensionOK, FormatOK
  <2>5. GlobalsOK'
    BY <1>6, <2>1, HeldKinds DEF Idle, GlobalsOK, OneGlobalState
  <2> QED BY <1>5, <2>1, <2>2, <2>4, <2>5 DEF Outcome, Idle
<1>7. ASSUME NEW records \in PaxPayloads, PaxRecordsParsed(records)
      PROVE  Outcome
  <2>1. /\ UNCHANGED <<call, remaining>> /\ out' = Pending
        /\ extension_payload' = NoPayload
        /\ logical_pax_records' = IF state.kind = "Global"
              THEN ApplyGlobal(records, logical_pax_records) ELSE logical_pax_records
    BY <1>4, <1>7 DEF PaxRecordsParsed
  <2>2. Sized(records)
    BY ParsedRecords
  <2>3. /\ logical_pax_records = global_pax_records /\ Sized(global_pax_records)
    BY HeldKinds DEF Idle, GlobalsOK, OneGlobalState
  <2>4. CASE state.kind = "Local"
    <3>1. state' = [phase |-> "AwaitingUstarHeader", records |-> records]
      BY <1>7, <2>4 DEF PaxRecordsParsed, AwaitingUstarHeader
    <3>2. StateOK' /\ Unread(state') = 0 /\ ExtensionOK' /\ FormatOK'
      BY <1>3, <2>1, <2>2, <3>1
         DEF StateOK, AwaitingUstarHeader, Unread, ExtensionOK, NoPayload, FormatOK
    <3>3. GlobalsOK'
      BY <1>7, <2>1, <2>3, <2>4 DEF PaxRecordsParsed, GlobalsOK, OneGlobalState
    <3> QED BY <1>5, <2>1, <3>1, <3>2, <3>3 DEF Outcome, Idle
  <2>5. CASE state.kind = "Global"
    <3>1. /\ state' = AwaitingHeader /\ state'.phase = "AwaitingHeader"
          /\ global_pax_records' = ApplyGlobal(records, global_pax_records)
      BY <1>7, <2>5 DEF PaxRecordsParsed, AwaitingHeader, Phase
    <3>2. StateOK' /\ Unread(state') = 0 /\ ExtensionOK' /\ FormatOK'
      BY <2>1, <3>1 DEF StateOK, Unread, ExtensionOK, NoPayload, FormatOK
    <3>3. GlobalsOK'
      <4>1. logical_pax_records' = global_pax_records'
        BY <2>1, <2>3, <2>5, <3>1
      <4>2. Sized(global_pax_records')
        BY <2>2, <2>3, <3>1, AppliedRecords
      <4> QED BY <4>1, <4>2 DEF GlobalsOK, OneGlobalState
    <3> QED BY <1>5, <2>1, <3>1, <3>2, <3>3 DEF Outcome, Idle
  <2> QED BY <1>2, <2>4, <2>5 DEF PaxKinds
<1>8. CASE Fail("InvalidPaxRecord") /\ UNCHANGED global_pax_records
  BY <1>8, FailOutcome
<1> QED BY <1>6, <1>7, <1>8 DEF PaxData

LEMMA GnuDataOutcome ==
  ASSUME Idle, GnuData
  PROVE  Outcome
<1> DEFINE r == state.remaining
           n == Smaller(r, BLOCK_SIZE)
           bytes == Meaningful(r)
           x == extension_payload
<1>1. state \in [phase : {"ReadingGnu"}, kind : GnuKinds, remaining : Positive,
                pending : SUBSET GnuKinds]
  BY DEF GnuData, Idle, ReaderInv, StateOK, AwaitingHeader, AwaitingSecondZero, Complete, Failed,
         Phase, AwaitingUstarHeader
<1>2. /\ state.kind \in GnuKinds /\ state.kind \notin PaxKinds
      /\ state.phase = "ReadingGnu" /\ format = "Gnu" /\ r \in Nat \ {0}
      /\ state.pending \subseteq GnuKinds
  BY <1>1 DEF PaxKinds, GnuKinds, Positive, Idle, ReaderInv, FormatOK
<1>3. x = [kind |-> state.kind, position |-> x.position, remaining |-> r, payload |-> x.payload]
  BY <1>2 DEF Idle, ReaderInv, ExtensionOK
<1>4. x.kind = state.kind /\ x.remaining = r
  BY <1>3
<1>5. Len(bytes) = n /\ n \in 1..r
  BY <1>2, MeaningfulLength, HeldKinds DEF Idle
<1> HIDE DEF bytes, n
<1>6. /\ SetState(IF r - n = 0 THEN AwaitingGnuMember(state.pending)
                              ELSE ReadingGnu(state.kind, r - n, state.pending),
                  DataFrame(state.kind, bytes, {}))
      /\ UNCHANGED <<format, global_pax_records>>
  BY DEF GnuData, n, bytes
<1>7. /\ frame'.type = "Data" /\ frame'.owner = state.kind /\ frame'.bytes = bytes
      /\ frame' # Pending
  BY <1>6 DEF SetState, DataFrame, Pending
<1>8. ExtensionData(frame')
  BY <1>7 DEF Idle, HandleFrame
<1>9. GnuExtensionData(frame', x)
  <2>1. ~(Len(frame'.bytes) > x.remaining) /\ frame'.owner = x.kind /\ x.kind \notin PaxKinds
    BY <1>2, <1>4, <1>5, <1>7
  <2> QED BY <1>8, <2>1 DEF ExtensionData
<1>10. /\ UNCHANGED <<call, remaining, logical_pax_records>> /\ out' = Pending
       /\ IF r - n = 0
          THEN extension_payload' = NoPayload
          ELSE extension_payload' = [kind |-> x.kind, position |-> x.position,
                                     remaining |-> r - n, payload |-> x.payload \o bytes]
  BY <1>4, <1>5, <1>7, <1>9 DEF GnuExtensionData, GoOn
<1>11. StateOK' /\ Unread(state') = 0 /\ ExtensionOK' /\ FormatOK'
       /\ state'.phase \notin {"Complete", "Failed"}
  <2>1. CASE r - n = 0
    <3>1. state' = [phase |-> "AwaitingGnuMember", pending |-> state.pending]
      BY <1>6, <2>1 DEF SetState, AwaitingGnuMember
    <3> QED BY <1>2, <1>6, <1>10, <2>1, <3>1
            DEF StateOK, Unread, ExtensionOK, NoPayload, FormatOK
  <2>2. CASE r - n # 0
    <3>1. state' = [phase |-> "ReadingGnu", kind |-> state.kind, remaining |-> r - n,
                    pending |-> state.pending]
      BY <1>6, <2>2 DEF SetState, ReadingGnu
    <3>2. r - n \in Positive
      BY <1>2, <1>5, <2>2 DEF Positive
    <3>3. extension_payload' = [kind |-> state.kind, position |-> x.position,
                                remaining |-> r - n, payload |-> x.payload \o bytes]
      BY <1>4, <1>10, <2>2
    <3> QED BY <1>2, <1>6, <3>1, <3>2, <3>3 DEF StateOK, Unread, ExtensionOK, FormatOK
  <2> QED BY <2>1, <2>2
<1>12. GlobalsOK'
  BY <1>6, <1>10, HeldKinds DEF Idle, GlobalsOK, OneGlobalState
<1>13. out' \notin BadCheck
  BY <1>10 DEF Pending, BadCheck, Error
<1> QED BY <1>10, <1>11, <1>12, <1>13 DEF Outcome, Idle

LEMMA OutcomeKeeps ==
  ASSUME ReaderInv, Outcome, BuffersOK', block' = <<>>, source' = position',
         member_chunk' = NoChunk
  PROVE  ReaderInv'
<1>1. NoChunk.phase = "None" /\ Undelivered(member_chunk') = 0
  BY DEF NoChunk, Phase, Undelivered
<1>2. StateOK' /\ remaining' \in Nat /\ GlobalsOK' /\ ExtensionOK' /\ FormatOK' /\ ChunkOK'
  BY DEF Outcome, ChunkOK
<1>3. PayloadAccounted'
  <2>1. remaining' = 0 + Unread(state')
    BY DEF Outcome
  <2> QED BY <1>1, <2>1 DEF PayloadAccounted
<1>4. NoByteLost'
  <2>1. position' \in Nat
    BY DEF BuffersOK
  <2>2. block' = Offsets(position', Len(block')) /\ source' = position' + Len(block') + 0
    BY <2>1, EmptyBuffer
  <2> QED BY <1>1, <2>2 DEF NoByteLost, Filled
<1>5. CallOK' /\ ChecksNeverFail'
  BY DEF Outcome, CallOK, Finished, ChecksNeverFail, BadCheck
<1> QED BY <1>2, <1>3, <1>4, <1>5 DEF ReaderInv

LEMMA PollFrameKeeps ==
  ASSUME ReaderInv, PollFrame
  PROVE  ReaderInv'
<1>1. Idle /\ PollNextFrame /\ UNCHANGED member_chunk /\ call = "next_frame"
  BY DEF PollFrame, Idle
<1>2. /\ member_chunk = NoChunk /\ ~Finished
      /\ source = position + Len(block) /\ block = Offsets(position, Len(block))
      /\ state.phase # "ReadingMember"
  BY <1>1, FrameFacts DEF Idle
<1>3. CASE ReadPart
  <2>1. BuffersOK' /\ source' = position + Len(block') /\ block' = Offsets(position, Len(block'))
    BY <1>2, <1>3, HeldKinds, ReadPartInOrder
  <2>2. /\ UNCHANGED <<position, format, state, global_pax_records>> /\ frame' = Pending
    BY <1>3 DEF ReadPart
  <2>3. /\ UNCHANGED <<remaining, logical_pax_records, member_chunk, extension_payload, call>>
        /\ out' = Pending
    BY <1>1, <2>2 DEF Idle, HandleFrame, StayPending, Pending
  <2>4. /\ StateOK' /\ remaining' \in Nat /\ GlobalsOK' /\ ExtensionOK' /\ FormatOK'
        /\ ChunkOK'
    BY <1>2, <2>2, <2>3
       DEF ReaderInv, StateOK, GlobalsOK, OneGlobalState, ExtensionOK, FormatOK, ChunkOK
  <2>5. PayloadAccounted'
    BY <2>2, <2>3 DEF ReaderInv, PayloadAccounted
  <2>6. NoByteLost'
    <3>1. member_chunk' = NoChunk /\ NoChunk.phase = "None"
      BY <1>2, <2>3 DEF NoChunk, Phase
    <3>2. source' = position' + Len(block') + 0
      BY <2>1, <2>2, HeldKinds DEF BuffersOK
    <3>3. block' = Offsets(position', Len(block'))
      BY <2>1, <2>2
    <3> QED BY <3>1, <3>2, <3>3 DEF NoByteLost, Filled
  <2>7. CallOK' /\ ChecksNeverFail'
    BY <1>2, <2>2, <2>3 DEF CallOK, Finished, ChecksNeverFail, Pending, Error
  <2> QED BY <2>1, <2>4, <2>5, <2>6, <2>7 DEF ReaderInv
<1>4. CASE ReadBlock /\ ProcessBlock
  <2>1. BuffersOK' /\ block' = <<>> /\ source' = position'
    BY <1>2, <1>4, HeldKinds, BlockRead
  <2>2. member_chunk' = NoChunk
    BY <1>1, <1>2
  <2>3. Outcome
    <3>1. ~MemberData
      BY <1>2 DEF MemberData
    <3>2. CASE Header
      <4>1. PICK h \in Headers :
              PaxHeader(h) \/ UstarHeader(h) \/ GnuExtension(h) \/ GnuHeader(h)
        BY <3>2 DEF Header
      <4>2. AcceptsHeader
        BY <3>2 DEF Header
      <4> QED BY <1>1, <4>1, <4>2, PaxHeaderOutcome, UstarHeaderOutcome,
                 GnuExtensionOutcome, GnuHeaderOutcome
    <3> QED BY <1>1, <1>4, <3>1, <3>2, ZeroOutcome, PaxDataOutcome, GnuDataOutcome
            DEF ProcessBlock
  <2> QED BY <2>1, <2>2, <2>3, OutcomeKeeps
<1>5. CASE Eof \/ IoError
  <2>1. /\ state' = Failed /\ frame'.type = "Error" /\ frame' \notin BadCheck
        /\ UNCHANGED <<source, position, block, global_pax_records>>
    BY <1>5, SourceEnds
  <2>2. Return("next_frame", frame') /\ UNCHANGED <<remaining, logical_pax_records>>
    BY <1>1, <2>1 DEF Idle, HandleFrame, Pending
  <2>3. ExtensionKind(extension_payload') /\ out' \notin BadCheck
    BY <2>1, <2>2, HeldKinds, AnswerKeeps
  <2>4. BuffersOK' /\ GlobalsOK' /\ remaining' \in Nat /\ member_chunk' = NoChunk
    BY <1>1, <1>2, <2>1, <2>2, HeldKinds DEF BuffersOK, GlobalsOK, OneGlobalState
  <2>5. call' = "idle"
    BY <2>2 DEF Return
  <2> QED BY <2>1, <2>3, <2>4, <2>5, FailureKeeps
<1> QED BY <1>1, <1>3, <1>4, <1>5 DEF PollNextFrame

-----------------------------------------------------------------------------
(* The invariant.                                                          *)

LEMMA ReaderInvInit ==
  ASSUME ReaderClientInit
  PROVE  ReaderInv
<1>1. /\ source = 0 /\ position = 0 /\ block = <<>> /\ state = AwaitingHeader
      /\ global_pax_records = NoRecords /\ logical_pax_records = NoRecords
      /\ member_chunk = NoChunk /\ remaining = 0 /\ extension_payload = NoPayload
      /\ call = "idle" /\ out = Pending
  BY DEF ReaderClientInit, ReaderInit, StreamInit, NoChunk
<1>2. /\ AwaitingHeader.phase = "AwaitingHeader" /\ NoChunk.phase = "None"
      /\ NoPayload.kind = "None" /\ Len(<<>>) = 0 /\ <<>> = Offsets(0, 0)
  BY DEF AwaitingHeader, NoChunk, Phase, NoPayload, Offsets
<1>3. Sized(NoRecords)
  BY DEF Sized, RecordsType, NoRecords, Keywords
<1>4. BuffersOK /\ StateOK /\ ChunkOK /\ FormatOK /\ ExtensionOK
  BY <1>1, <1>2, BlockAssumption
     DEF BuffersOK, StateOK, ChunkOK, FormatOK, ExtensionOK
<1>5. GlobalsOK /\ PayloadAccounted
  BY <1>1, <1>2, <1>3
     DEF GlobalsOK, OneGlobalState, PayloadAccounted, Undelivered, Unread
<1>6. NoByteLost
  BY <1>1, <1>2 DEF NoByteLost, Filled
<1>7. CallOK /\ ChecksNeverFail
  BY <1>1 DEF CallOK, ChecksNeverFail, Pending, Error
<1> QED BY <1>1, <1>4, <1>5, <1>6, <1>7 DEF ReaderInv

(* Every step of the reader, of its source and of its client keeps the     *)
(* invariant: calls, partial reads, errors and dropped futures.            *)
LEMMA ReaderInvStep ==
  ASSUME ReaderInv, [ReaderClientNext]_readerClientVars
  PROVE  ReaderInv'
<1>1. CASE DropFuture
  <2>1. /\ UNCHANGED <<source, position, block, format, state, global_pax_records,
                       member_chunk, remaining, logical_pax_records, extension_payload, out>>
        /\ call' = "idle"
    BY <1>1 DEF DropFuture, Cancel, streamVars, readerVars
  <2> QED BY <2>1, HeldKinds, SameKeeps
<1>2. CASE UNCHANGED readerClientVars
  <2>1. UNCHANGED <<source, position, block, format, state, global_pax_records,
                    member_chunk, remaining, logical_pax_records, extension_payload, out, call>>
    BY <1>2 DEF readerClientVars, vars, streamVars, readerVars
  <2>2. call' # "idle" => ~Finished
    BY <2>1 DEF ReaderInv, CallOK
  <2> QED BY <2>1, <2>2, HeldKinds, SameKeeps
<1>3. CASE \E op \in {"next_block", "next_chunk", "skip"} : \E target \in Nat :
             CallPayload(op, target)
  BY <1>3, CallPayloadKeeps
<1>4. CASE Next
  <2>1. 0 \in Nat /\ PAYLOAD_DRAIN_CHUNK_BYTES \in Nat /\ Targets \subseteq Nat
    BY TargetAssumption
  <2> QED BY <1>1, <1>3, <1>4, <2>1, CallNextFrameKeeps, PollMemberBlockKeeps,
             PollMemberChunkKeeps, PollFrameKeeps DEF Next, PollReader
<1> QED BY <1>2, <1>4 DEF ReaderClientNext

(* The reader's invariant holds in every state.                            *)
THEOREM ReaderInvariant == ReaderClientSpec => []ReaderInv
<1>1. ReaderClientInit => ReaderInv
  BY ReaderInvInit
<1>2. ReaderInv /\ [ReaderClientNext]_readerClientVars => ReaderInv'
  BY ReaderInvStep
<1> QED BY <1>1, <1>2, PTL DEF ReaderClientSpec

(* Whatever calls are mixed and dropped, and however the source cuts its   *)
(* reads, no byte taken from the source is lost, repeated or reordered.    *)
THEOREM NoByteIsLost == ReaderClientSpec => []NoByteLost
<1>1. ReaderInv => NoByteLost
  BY DEF ReaderInv
<1> QED BY <1>1, ReaderInvariant, PTL

(* The payload still owed to the client is always the payload the stream   *)
(* has yet to read plus what a chunk holds back.                           *)
THEOREM PayloadIsAccounted == ReaderClientSpec => []PayloadAccounted
<1>1. ReaderInv => PayloadAccounted
  BY DEF ReaderInv
<1> QED BY <1>1, ReaderInvariant, PTL

(* TarStream's and TarReader's copies of the global pax records agree.     *)
THEOREM GlobalStateIsOne == ReaderClientSpec => []OneGlobalState
<1>1. ReaderInv => OneGlobalState
  BY DEF ReaderInv, GlobalsOK
<1> QED BY <1>1, ReaderInvariant, PTL

(* The reader never finds its own stream inconsistent.                     *)
THEOREM ChecksHold == ReaderClientSpec => []ChecksNeverFail
<1>1. ReaderInv => ChecksNeverFail
  BY DEF ReaderInv
<1> QED BY <1>1, ReaderInvariant, PTL

-----------------------------------------------------------------------------
(* The reader implements MemberStream: each of its steps is one of the     *)
(* abstract stream's, or none that its client could see.  To the reader's  *)
(* invariant this adds where the next byte of the client is: at the        *)
(* parser, or in the chunk behind it, and padding only behind the last     *)
(* byte of a member.                                                       *)

NextByte == member.position + BLOCK_SIZE + member.size - remaining

MemberType == [position : Int, size : Nat]

(* Chunk c, with the parser in state s at position pos, and n the offset   *)
(* of the next byte the client is owed.                                    *)
ChunkPlaced(c, s, pos, n) ==
  /\ c.phase = "Ready" =>
       /\ c.start + c.delivered = n
       /\ c.start + c.physical = pos
       /\ s.phase = "ReadingMember" => c.meaningful = c.physical
  /\ c.phase = "Reading" => n = pos /\ c.meaningful \in {c.physical, c.member_remaining}
  /\ c = NoChunk => n <= pos /\ (s.phase = "ReadingMember" => n = pos)

Place ==
  /\ member \in MemberType
  /\ call # "idle" => out = Pending
  /\ state # Failed => ChunkPlaced(member_chunk, state, position, NextByte)

(* A call that reads the payload needs it in the client's hands, any other *)
(* takes it away; a payload held after the end has bytes that are lost.    *)
Reads == {"next_block", "next_chunk"}

HeldOK ==
  /\ held \in BOOLEAN
  /\ call \in Reads \cup {"skip", "next_frame", "idle"}
  /\ call \in Reads => held = TRUE
  /\ call \in {"skip", "next_frame"} => held = FALSE
  /\ held /\ Finished => remaining > 0

PlacedInv == ReaderInv /\ Place /\ HeldOK

-----------------------------------------------------------------------------
(* Bytes.                                                                  *)

Slice(s, a, b) == SubSeq(s, a, b)

LEMMA SliceOfOffsets ==
  ASSUME NEW first \in Nat, NEW m \in Nat, NEW a \in Nat \ {0}, NEW b \in Nat,
         a <= b + 1, b <= m
  PROVE  Slice(Offsets(first, m), a, b) = Offsets(first + (a - 1), b + 1 - a)
<1> DEFINE whole == Offsets(first, m)
           part  == SubSeq(whole, a, b)
           other == Offsets(first + (a - 1), b + 1 - a)
<1>1. whole \in Seq(Nat) /\ Len(whole) = m
  BY OffsetsType
<1>2. \A i \in 1..m : whole[i] = first + i - 1
  BY DEF Offsets
<1> HIDE DEF whole
<1>3. part \in Seq(Nat) /\ Len(part) = b + 1 - a /\ \A i \in 1..(b + 1 - a) : part[i] = whole[a + i - 1]
  BY <1>1
<1>4. \A i \in 1..(b + 1 - a) : part[i] = (first + (a - 1)) + i - 1
  BY <1>2, <1>3
<1>5. other \in Seq(Nat) /\ Len(other) = b + 1 - a
  <2>1. first + (a - 1) \in Nat /\ b + 1 - a \in Nat
    OBVIOUS
  <2> QED BY <2>1, OffsetsType
<1>6. \A i \in 1..(b + 1 - a) : other[i] = (first + (a - 1)) + i - 1
  BY DEF Offsets
<1> HIDE DEF part, other
<1>7. part = other
  BY <1>3, <1>4, <1>5, <1>6, SeqEqual
<1> QED BY <1>7 DEF part, whole, other, Slice

(* What is handed over of a block that is complete.                        *)
LEMMA BlockBytes ==
  ASSUME BuffersOK, source = position + Len(block), block = Offsets(position, Len(block)),
         NEW r \in Nat \ {0}
  PROVE  Meaningful(r) = Offsets(position, Smaller(r, BLOCK_SIZE))
<1>1. /\ BLOCK_SIZE \in Nat \ {0} /\ position \in Nat /\ Len(block) \in Nat
      /\ Missing \in Nat /\ Len(block) + Missing = BLOCK_SIZE
  BY BlockAssumption DEF BuffersOK, Missing
<1>2. NextBytes(Missing) = Offsets(position + Len(block), Missing)
  BY DEF NextBytes, Offsets
<1>3. FullBlock = Offsets(position, BLOCK_SIZE)
  <2>1. Offsets(position, Len(block)) \o Offsets(position + Len(block), Missing)
          = Offsets(position, Len(block) + Missing)
    BY ZenonT(40), <1>1, OffsetsAppend
  <2> QED BY <1>1, <1>2, <2>1 DEF FullBlock
<1> DEFINE k == Smaller(r, BLOCK_SIZE)
<1>4. k \in Nat /\ 0 <= k /\ k <= BLOCK_SIZE
  BY <1>1 DEF Smaller
<1>5. Meaningful(r) = Slice(FullBlock, 1, k)
  BY DEF Meaningful, Slice
<1> HIDE DEF k
<1>6. Slice(Offsets(position, BLOCK_SIZE), 1, k) = Offsets(position + (1 - 1), k + 1 - 1)
  <2>1. 1 \in Nat \ {0} /\ 1 <= k + 1 /\ position \in Nat /\ BLOCK_SIZE \in Nat
    BY <1>1, <1>4
  <2> QED BY <1>4, <2>1, SliceOfOffsets
<1>7. position + (1 - 1) = position /\ k + 1 - 1 = k
  BY <1>1, <1>4
<1> QED BY <1>3, <1>5, <1>6, <1>7 DEF k

(* What is taken of a ready chunk starts at the next byte, and what is     *)
(* left of the chunk, if anything, is placed behind it.                    *)
LEMMA TakenBehind ==
  ASSUME NEW op, NEW c, ReadyShape(c), NEW s, NEW pos, NEW n,
         c.start + c.delivered = n, c.start + c.physical = pos,
         s.phase = "ReadingMember" => c.meaningful = c.physical
  PROVE  /\ Len(TakenBytes(op, c)) \in Nat \ {0}
         /\ TakenBytes(op, c) = Offsets(n, Len(TakenBytes(op, c)))
         /\ ChunkPlaced(LeftChunk(op, c), s, pos, n + Len(TakenBytes(op, c)))
<1> DEFINE bytes == TakenBytes(op, c)
           left  == LeftChunk(op, c)
           upto  == IF op = "next_block" THEN Smaller(c.delivered + BLOCK_SIZE, c.meaningful)
                                         ELSE c.meaningful
<1>1. /\ c.phase = "Ready" /\ c.start \in Nat /\ c.physical \in Nat /\ c.meaningful \in Nat
      /\ c.delivered \in Nat /\ c.buffer = Offsets(c.start, c.physical)
      /\ c.meaningful <= c.physical
      /\ c = [phase |-> c.phase, start |-> c.start, physical |-> c.physical,
              meaningful |-> c.meaningful, delivered |-> c.delivered, buffer |-> c.buffer]
  BY DEF ReadyShape, Positive, Spans
<1>2. Undelivered(c) = c.meaningful - c.delivered
  BY <1>1 DEF Undelivered
<1>3. /\ bytes \in Seq(Nat) /\ Len(bytes) \in Nat
      /\ left = NoChunk \/ ReadyShape(left)
      /\ Undelivered(c) \in Nat \ {0} /\ Undelivered(left) \in Nat
      /\ Undelivered(c) = Len(bytes) + Undelivered(left)
  BY TakeShape
<1>4. upto \in Nat /\ c.delivered <= upto /\ upto <= c.physical
  BY <1>1, <1>2, <1>3, BlockAssumption DEF Smaller
<1>5. bytes = Offsets(n, Len(bytes))
  <2>1. bytes = Slice(c.buffer, c.delivered + 1, upto)
    BY DEF TakenBytes, Slice
  <2> HIDE DEF upto, bytes
  <2>2. bytes = Offsets(n, upto - c.delivered)
    <3>1. c.delivered + 1 \in Nat \ {0} /\ c.delivered + 1 <= upto + 1
      BY <1>1, <1>4
    <3>2. Slice(Offsets(c.start, c.physical), c.delivered + 1, upto)
            = Offsets(c.start + ((c.delivered + 1) - 1), upto + 1 - (c.delivered + 1))
      BY <1>1, <1>4, <3>1, SliceOfOffsets
    <3>3. /\ c.start + ((c.delivered + 1) - 1) = n
          /\ upto + 1 - (c.delivered + 1) = upto - c.delivered
      BY <1>1, <1>4
    <3> QED BY <1>1, <2>1, <3>2, <3>3
  <2>3. n \in Nat /\ upto - c.delivered \in Nat
    BY <1>1, <1>4
  <2> QED BY <2>2, <2>3, OffsetsType
<1> HIDE DEF bytes, upto
<1>6. CASE left = NoChunk
  <2>1. NoChunk.phase = "None" /\ Undelivered(NoChunk) = 0
    BY DEF NoChunk, Phase, Undelivered
  <2>2. Len(bytes) = c.meaningful - c.delivered /\ Len(bytes) # 0
    BY <1>1, <1>2, <1>3, <1>6, <2>1
  <2>3. n + Len(bytes) <= pos /\ (s.phase = "ReadingMember" => n + Len(bytes) = pos)
    BY <1>1, <2>2
  <2>4. ChunkPlaced(left, s, pos, n + Len(bytes))
    <3> HIDE DEF left
    <3> QED BY <1>6, <2>1, <2>3 DEF ChunkPlaced
  <2> QED BY <1>3, <1>5, <2>2, <2>4 DEF bytes
<1>7. CASE left # NoChunk
  <2>1. left = [c EXCEPT !.delivered = @ + BLOCK_SIZE]
    BY <1>7 DEF LeftChunk
  <2>2. left = [phase |-> c.phase, start |-> c.start, physical |-> c.physical,
                meaningful |-> c.meaningful, delivered |-> c.delivered + BLOCK_SIZE,
                buffer |-> c.buffer]
    BY <1>1, <2>1
  <2> HIDE DEF left
  <2>3. /\ left.phase = "Ready" /\ left.start = c.start /\ left.physical = c.physical
        /\ left.meaningful = c.meaningful /\ left.delivered = c.delivered + BLOCK_SIZE
    BY <1>1, <2>2
  <2>4. Undelivered(left) = c.meaningful - (c.delivered + BLOCK_SIZE)
    BY <2>3 DEF Undelivered
  <2>5. Len(bytes) = BLOCK_SIZE /\ BLOCK_SIZE \in Nat \ {0}
    BY <1>1, <1>2, <1>3, <2>4, BlockAssumption
  <2>6. left.start + left.delivered = n + Len(bytes)
    BY <1>1, <2>3, <2>5
  <2>7. ChunkPlaced(left, s, pos, n + Len(bytes))
    BY <1>7, <2>3, <2>6 DEF ChunkPlaced
  <2> QED BY <1>3, <1>5, <2>5, <2>7 DEF bytes, left
<1> QED BY <1>6, <1>7

-----------------------------------------------------------------------------
(* The steps of the abstract stream, one by one.                           *)

LEMMA SilentStep ==
  ASSUME out' = Pending, member' = member, remaining' = remaining, ~Finished, ~Finished',
         held' \in {held, FALSE}
  PROVE  Contract!Next
<1>1. NextByte' = NextByte /\ Finished' = Finished
  BY DEF NextByte, Finished
<1> QED BY <1>1 DEF NextByte, Contract!Next, Contract!Silent, Contract!MayGiveUp, Pending

LEMMA PassOverStep ==
  ASSUME member \in MemberType, member' = member, remaining \in Nat,
         remaining' \in 0..remaining, ~Finished, ~Finished', ~held',
         out' = Pending \/ (out' = Exhausted /\ remaining' = 0)
  PROVE  Contract!Next
<1>1. /\ NextByte' + remaining' = NextByte + remaining
      /\ NextByte' >= NextByte
  BY BlockAssumption DEF NextByte, MemberType
<1>2. Finished' = Finished
  BY DEF Finished
<1>3. remaining' >= 0
  OBVIOUS
<1> QED BY <1>1, <1>2, <1>3
        DEF NextByte, Contract!Next, Contract!PassOver, Pending, Exhausted

LEMMA PayloadStep ==
  ASSUME member \in MemberType, member' = member, remaining \in Nat, ~Finished, ~Finished',
         held, held' = held,
         NEW bytes, Len(bytes) \in 1..remaining, bytes = Offsets(NextByte, Len(bytes)),
         remaining' = remaining - Len(bytes), out' = Bytes(bytes)
  PROVE  Contract!Next
<1>1. out'.type = "Bytes" /\ out'.bytes = bytes
  BY DEF Bytes
<1>2. NextByte' = NextByte + Len(bytes)
  BY BlockAssumption DEF NextByte, MemberType
<1>3. Finished' = Finished
  BY DEF Finished
<1>4. bytes = [i \in 1..Len(bytes) |-> NextByte + i - 1]
  BY DEF Offsets
<1>5. Contract!Payload
  BY <1>1, <1>2, <1>3, <1>4 DEF NextByte, Contract!Payload
<1> QED BY <1>5 DEF Contract!Next

LEMMA ExhaustedStep ==
  ASSUME out' = Exhausted, remaining = 0, member' = member, remaining' = remaining,
         ~Finished, ~Finished', held, held' \in {held, FALSE}
  PROVE  Contract!Next
<1>1. NextByte' = NextByte /\ Finished' = Finished
  BY DEF NextByte, Finished
<1> QED BY <1>1 DEF NextByte, Contract!Next, Contract!PayloadExhausted, Contract!MayGiveUp,
                    Exhausted

LEMMA EndStep ==
  ASSUME out' = End, member' = member, remaining' = remaining,
         remaining = 0 \/ Finished, Finished', held' = FALSE
  PROVE  Contract!Next
<1>1. NextByte' = NextByte
  BY DEF NextByte
<1>2. Finished' = TRUE
  BY DEF Finished
<1> QED BY <1>1, <1>2 DEF NextByte, Contract!Next, Contract!EndOfArchive, End

LEMMA FailsStep ==
  ASSUME out'.type = "Error", member' = member, remaining' = remaining, ~Finished, Finished',
         held' = held
  PROVE  Contract!Next
<1>1. NextByte' = NextByte
  BY DEF NextByte
<1>2. Finished' = TRUE
  BY DEF Finished
<1> QED BY <1>1, <1>2 DEF NextByte, Contract!Next, Contract!Fails

LEMMA LostStep ==
  ASSUME out' = Error("NoPayload"), member' = member, remaining > 0, remaining' = remaining,
         Finished, Finished', held, held' \in {held, FALSE}
  PROVE  Contract!Next
<1>1. NextByte' = NextByte
  BY DEF NextByte
<1>2. Finished' = Finished
  BY DEF Finished
<1> QED BY <1>1, <1>2 DEF NextByte, Contract!Next, Contract!PayloadLost, Contract!MayGiveUp,
                          Error

LEMMA MemberStep ==
  ASSUME position \in Nat, remaining = 0, NextByte <= position, ~Finished, ~Finished',
         member \in MemberType, remaining' \in Nat, ~held, held' = TRUE,
         out'.type = "Member", out'.position = position, out'.size = remaining',
         member' = [position |-> position, size |-> remaining']
  PROVE  Contract!Next
<1>1. NextByte' = position + BLOCK_SIZE
  <2>1. member'.position = position /\ member'.size = remaining'
    OBVIOUS
  <2>2. NextByte' = member'.position + BLOCK_SIZE + member'.size - remaining'
    BY DEF NextByte
  <2>3. NextByte' = position + BLOCK_SIZE + remaining' - remaining'
    BY <2>1, <2>2
  <2>4. BLOCK_SIZE \in Nat /\ remaining' \in Nat /\ position \in Nat
    BY BlockAssumption
  <2>5. \A x, y, z \in Nat : x + y + z - z = x + y
    OBVIOUS
  <2> QED BY <2>3, <2>4, <2>5, Zenon
<1>2. Finished' = Finished
  BY DEF Finished
<1>3. NextByte' > position
  BY <1>1, BlockAssumption
<1>4. Contract!Member
  BY <1>2, <1>3 DEF NextByte, Contract!Member
<1> QED BY <1>4 DEF Contract!Next

-----------------------------------------------------------------------------
(* Payload reads.                                                          *)

(* Every step but the release of a member leaves it in its place.          *)
LEMMA MemberStays ==
  ASSUME ReaderClientNext, out'.type # "Member" \/ out' = out
  PROVE  member' = member
BY DEF ReaderClientNext, Releases

(* Bytes that follow those handed out before are delivered or drained, and *)
(* what remains is placed behind them.                                     *)
LEMMA DeliverPlaced ==
  ASSUME NEW op, NEW bytes, NEW left, NEW s,
         member \in MemberType, out'.type # "Member" => member' = member,
         remaining \in Nat, ~Finished, position' \in Nat,
         Len(bytes) \in 1..remaining, bytes = Offsets(NextByte, Len(bytes)),
         s = AwaitingHeader \/ s \in [phase : {"ReadingMember"}, remaining : Positive],
         left = NoChunk \/ ReadyShape(left),
         op # "next_block" => left = NoChunk,
         ChunkPlaced(left, s, position', NextByte + Len(bytes)),
         Undelivered(left) \in Nat,
         remaining = Len(bytes) + Undelivered(left) + Unread(s),
         op \in Reads \cup {"skip", "next_frame"},
         op \in Reads => held = TRUE /\ held' = held, op \notin Reads => held' = FALSE,
         Deliver(op, bytes, left, s)
  PROVE  Place' /\ Contract!Next
<1> DEFINE rest == Rest(op, bytes)
           drains == op \in {"skip", "next_frame"}
<1>1. /\ s \in [phase : {"ReadingMember"}, remaining : Positive]
           => s.phase = "ReadingMember" /\ s.remaining \in Nat \ {0} /\ Unread(s) = s.remaining
      /\ s = AwaitingHeader => s.phase = "AwaitingHeader" /\ Unread(s) = 0
      /\ Unread(s) \in Nat
  BY DEF Unread, AwaitingHeader, Phase, Positive
<1>2. rest = remaining - Len(bytes) /\ rest \in 0..remaining /\ rest = Undelivered(left) + Unread(s)
  BY <1>1 DEF Rest
<1>3. /\ remaining' = rest
      /\ \/ /\ ~drains
            /\ member_chunk' = left /\ state' = s
            /\ Return(op, Bytes(bytes))
         \/ /\ drains /\ rest = 0
            /\ member_chunk' = left /\ state' = s
            /\ IF op = "skip" THEN Return(op, Exhausted) ELSE StayPending(op)
         \/ /\ drains /\ rest > 0
            /\ IF s.phase = "ReadingMember"
               THEN /\ member_chunk' = NewChunk(s.remaining, PAYLOAD_DRAIN_CHUNK_BYTES, position')
                    /\ state' = s
                    /\ StayPending(op)
               ELSE /\ member_chunk' = left
                    /\ state' = Failed
                    /\ Return(op, Error("NoPayload"))
  <2>1. ~(Rest(op, bytes) < 0)
    BY <1>2
  <2> QED BY <2>1 DEF Deliver
<1>4. ~(drains /\ rest > 0 /\ s.phase # "ReadingMember")
  <2>1. Undelivered(NoChunk) = 0
    BY DEF Undelivered, NoChunk, Phase
  <2> QED BY <1>1, <1>2, <2>1
<1> HIDE DEF rest
<1>5. state' = s /\ ~Finished'
  BY <1>1, <1>3, <1>4 DEF Finished
<1>6. /\ out' = Bytes(bytes) \/ out' = Exhausted \/ out' = Pending
      /\ call' # "idle" => out' = Pending
  BY <1>3, <1>4 DEF Return, StayPending
<1>7. member' = member /\ NextByte' = NextByte + Len(bytes)
  <2>1. out'.type # "Member"
    BY <1>6 DEF Bytes, Exhausted, Pending
  <2>2. member' = member
    BY <2>1
  <2> QED BY SMTT(30), <1>2, <1>3, <2>2, BlockAssumption DEF NextByte, MemberType
<1>8. ChunkPlaced(member_chunk', state', position', NextByte')
  <2>1. CASE member_chunk' = left
    BY <1>5, <1>7, <2>1
  <2>2. CASE /\ drains /\ s.phase = "ReadingMember"
             /\ member_chunk' = NewChunk(s.remaining, PAYLOAD_DRAIN_CHUNK_BYTES, position')
    <3> DEFINE c == member_chunk'
    <3>1. c.phase = "Reading" /\ c # NoChunk /\ c.meaningful \in {c.physical, c.member_remaining}
      BY <2>2 DEF NewChunk, Smaller, NoChunk, Phase
    <3>2. NextByte + Len(bytes) = position'
      BY <2>2 DEF ChunkPlaced
    <3> HIDE DEF c
    <3>3. ChunkPlaced(c, s, position', NextByte + Len(bytes))
      BY <3>1, <3>2 DEF ChunkPlaced
    <3> QED BY <1>5, <1>7, <3>3 DEF c
  <2> QED BY <1>3, <1>4, <2>1, <2>2
<1>9. Place'
  <2>1. member' \in MemberType
    BY <1>7
  <2> QED BY <1>6, <1>8, <2>1 DEF Place
<1>10. CASE ~drains
  <2>1. out' = Bytes(bytes)
    BY <1>3, <1>10 DEF Return
  <2>2. held /\ held' = held
    BY <1>10
  <2>3. Contract!Next
    BY <1>2, <1>3, <1>5, <1>7, <2>1, <2>2, PayloadStep
  <2> QED BY <1>9, <2>3
<1>11. CASE drains
  <2>1. out' = Pending \/ (out' = Exhausted /\ remaining' = 0)
    BY <1>3, <1>4, <1>11 DEF Return, StayPending
  <2>2. remaining' \in 0..remaining
    BY <1>2, <1>3
  <2>3. ~held'
    BY <1>11 DEF Reads
  <2>4. Contract!Next
    BY <1>5, <1>7, <2>1, <2>2, <2>3, PassOverStep
  <2> QED BY <1>9, <2>4
<1> QED BY <1>10, <1>11

LEMMA StartReadPlaced ==
  ASSUME PlacedInv, NEW op \in {"next_block", "next_chunk", "skip", "next_frame"},
         NEW target \in Nat, StartRead(op, target), ReaderClientNext,
         op = "next_frame" => held' = FALSE /\ state # Failed,
         op # "next_frame" => held = TRUE /\ held' = (op # "skip")
  PROVE  Place' /\ Contract!Next
<1>0. /\ op \in Reads \cup {"skip", "next_frame"}
      /\ op \in Reads => held = TRUE /\ held' = held
      /\ op \notin Reads => held' = FALSE
      /\ held' \in {held, FALSE}
  BY DEF Reads, PlacedInv, HeldOK
<1>1. /\ ReaderInv /\ member \in MemberType /\ remaining > 0 /\ remaining \in Nat
      /\ position' = position /\ position \in Nat
      /\ out'.type # "Member" => member' = member
      /\ state # Failed => ChunkPlaced(member_chunk, state, position, NextByte)
  BY MemberStays, HeldKinds DEF PlacedInv, Place, StartRead
<1>2. CASE /\ member_chunk.phase = "Ready"
           /\ Deliver(op, TakenBytes(op, member_chunk), LeftChunk(op, member_chunk), state)
  <2> DEFINE c == member_chunk
             bytes == TakenBytes(op, c)
             left  == LeftChunk(op, c)
  <2>1. /\ ReadyShape(c) /\ state # Failed
        /\ state = AwaitingHeader \/ state \in [phase : {"ReadingMember"}, remaining : Positive]
        /\ remaining = Undelivered(c) + Unread(state) /\ Unread(state) \in Nat
    BY <1>1, <1>2, ReadyFacts
  <2>2. /\ c.start + c.delivered = NextByte /\ c.start + c.physical = position
        /\ state.phase = "ReadingMember" => c.meaningful = c.physical
    BY <1>1, <1>2, <2>1 DEF ChunkPlaced
  <2>3. /\ Len(bytes) \in Nat \ {0} /\ bytes = Offsets(NextByte, Len(bytes))
        /\ ChunkPlaced(left, state, position, NextByte + Len(bytes))
    BY <2>1, <2>2, TakenBehind
  <2>4. /\ left = NoChunk \/ ReadyShape(left)
        /\ op # "next_block" => left = NoChunk
        /\ Undelivered(left) \in Nat
        /\ Undelivered(c) = Len(bytes) + Undelivered(left)
    BY <2>1, TakeShape
  <2>5. ~Finished
    BY <2>1 DEF Finished, AwaitingHeader, Phase
  <2> HIDE DEF bytes, left
  <2>6. Deliver(op, bytes, left, state)
    BY <1>2 DEF bytes, left
  <2>7. Len(bytes) \in 1..remaining /\ remaining = Len(bytes) + Undelivered(left) + Unread(state)
    BY <1>1, <2>1, <2>3, <2>4
  <2>8. ChunkPlaced(left, state, position', NextByte + Len(bytes))
    BY <1>1, <2>3
  <2>9. position' \in Nat
    BY <1>1
  <2> HIDE DEF c
  <2> QED BY <1>0, <1>1, <2>1, <2>3, <2>4, <2>5, <2>6, <2>7, <2>8, <2>9, DeliverPlaced
<1>3. CASE /\ \/ member_chunk.phase = "Reading"
              \/ member_chunk = NoChunk /\ state.phase = "ReadingMember"
           /\ StayPending(op)
           /\ UNCHANGED <<member_chunk, remaining, state>>
  <2>1. out' = Pending /\ out'.type # "Member"
    BY <1>3 DEF StayPending, Pending
  <2>2. NextByte' = NextByte /\ member' = member /\ ~Finished /\ ~Finished'
    <3>1. state.phase = "ReadingMember"
      BY <1>1, <1>3, ReadingFacts DEF ReadingMember
    <3> QED BY <1>1, <1>3, <2>1, <3>1 DEF NextByte, Finished
  <2>3. Contract!Next
    BY <1>0, <1>3, <2>1, <2>2, SilentStep
  <2>4. state' # Failed => ChunkPlaced(member_chunk', state', position', NextByte')
    BY <1>1, <1>3, <2>2
  <2>5. member' \in MemberType
    BY <1>1, <2>2
  <2> QED BY <2>1, <2>3, <2>4, <2>5 DEF Place
<1>4. CASE /\ member_chunk = NoChunk /\ state.phase = "ReadingMember"
           /\ member_chunk' = NewChunk(state.remaining, target, position)
           /\ StayPending(op)
           /\ UNCHANGED <<remaining, state>>
  <2> DEFINE c == member_chunk'
  <2>1. out' = Pending /\ out'.type # "Member"
    BY <1>4 DEF StayPending, Pending
  <2>2. NextByte' = NextByte /\ member' = member /\ ~Finished /\ ~Finished'
    BY <1>1, <1>4, <2>1 DEF NextByte, Finished
  <2>3. Contract!Next
    BY <1>0, <1>4, <2>1, <2>2, SilentStep
  <2>4. c.phase = "Reading" /\ c # NoChunk /\ c.meaningful \in {c.physical, c.member_remaining}
    BY <1>4 DEF NewChunk, Smaller, NoChunk, Phase
  <2>5. NextByte = position
    BY <1>1, <1>4 DEF ChunkPlaced, Failed, Phase
  <2> HIDE DEF c
  <2>6. ChunkPlaced(c, state', position', NextByte')
    BY <1>1, <2>2, <2>4, <2>5 DEF ChunkPlaced
  <2>7. member' \in MemberType
    BY <1>1, <2>2
  <2> QED BY <2>1, <2>3, <2>6, <2>7 DEF Place, c
<1>5. CASE /\ member_chunk = NoChunk /\ state.phase # "ReadingMember"
           /\ state' = Failed
           /\ Return(op, Error("NoPayload"))
           /\ UNCHANGED <<member_chunk, remaining>>
  <2>1. out' = Error("NoPayload") /\ out'.type = "Error" /\ call' = "idle"
    BY <1>5 DEF Return, Error
  <2>2. member' = member
    BY <1>1, <2>1
  <2>3. state = Failed
    BY <1>1, <1>5, NoChunkFacts
  <2>4. Finished /\ Finished'
    BY <1>5, <2>3 DEF Finished, Failed, Phase
  <2>a. held /\ held' \in {held, FALSE}
    BY <1>0, <2>3
  <2>b. Contract!Next
    BY <1>1, <1>5, <2>1, <2>2, <2>4, <2>a, LostStep
  <2>5. member' \in MemberType
    BY <1>1, <2>2
  <2> QED BY <1>5, <2>1, <2>5, <2>b DEF Place
<1> QED BY <1>2, <1>3, <1>4, <1>5 DEF StartRead

(* A call that is answered, or goes on, with nothing read.                 *)
LEMMA UntouchedPlaced ==
  ASSUME PlacedInv, UNCHANGED <<position, state, member_chunk, remaining>>, member' = member,
         call' # "idle" => out' = Pending
  PROVE  Place'
<1>1. NextByte' = NextByte
  BY DEF NextByte
<1>2. state' # Failed => ChunkPlaced(member_chunk', state', position', NextByte')
  BY <1>1 DEF PlacedInv, Place
<1>3. member' \in MemberType
  BY DEF PlacedInv, Place
<1> QED BY <1>2, <1>3 DEF Place

LEMMA CallPayloadPlaced ==
  ASSUME PlacedInv, NEW op \in {"next_block", "next_chunk", "skip"}, NEW target \in Nat,
         CallPayload(op, target), ReaderClientNext
  PROVE  Place' /\ Contract!Next
<1>0. held = TRUE /\ held' = (op # "skip") /\ held' \in {held, FALSE}
  BY DEF CallPayload, PlacedInv, HeldOK
<1>1. CASE StartRead(op, target)
  BY <1>0, <1>1, StartReadPlaced
<1>2. CASE /\ remaining = 0
           /\ Return(op, Exhausted)
           /\ UNCHANGED <<streamVars, member_chunk, remaining>>
  <2>1. out' = Exhausted /\ call' = "idle" /\ out'.type # "Member"
    BY <1>2 DEF Return, Exhausted
  <2>2. UNCHANGED <<position, state, member_chunk, remaining>> /\ member' = member
    BY <1>2, <2>1, MemberStays DEF streamVars
  <2>3. ~Finished /\ ~Finished'
    BY <1>0, <1>2, <2>2 DEF Finished, PlacedInv, HeldOK
  <2>4. Contract!Next
    BY <1>0, <1>2, <2>1, <2>2, <2>3, ExhaustedStep
  <2> QED BY <2>1, <2>2, <2>4, UntouchedPlaced
<1> QED BY <1>1, <1>2 DEF CallPayload

LEMMA CallNextFramePlaced ==
  ASSUME PlacedInv, CallNextFrame, ReaderClientNext
  PROVE  Place' /\ Contract!Next
<1>0. held' = FALSE
  BY DEF CallNextFrame
<1>1. CASE state # Failed /\ StartRead("next_frame", PAYLOAD_DRAIN_CHUNK_BYTES)
  BY <1>0, <1>1, TargetAssumption, StartReadPlaced
<1>2. CASE /\ state = Failed \/ (remaining = 0 /\ state = Complete)
           /\ Return("next_frame", End)
           /\ UNCHANGED <<source, position, block, framingVars, state, member_chunk, remaining>>
  <2>1. out' = End /\ call' = "idle" /\ out'.type # "Member"
    BY <1>2 DEF Return, End
  <2>2. UNCHANGED <<position, state, member_chunk, remaining>> /\ member' = member
    BY <1>2, <2>1, MemberStays
  <2>3. Finished /\ Finished'
    BY <1>2, <2>2 DEF Finished, Failed, Complete, Phase
  <2>4. Contract!Next
    BY <1>0, <2>1, <2>2, <2>3, EndStep
  <2> QED BY <2>1, <2>2, <2>4, UntouchedPlaced
<1>3. CASE /\ ~Finished
           /\ StayPending("next_frame")
           /\ UNCHANGED <<source, position, block, framingVars, state, member_chunk, remaining>>
  <2>1. out' = Pending /\ out'.type # "Member"
    BY <1>3 DEF StayPending, Pending
  <2>2. UNCHANGED <<position, state, member_chunk, remaining>> /\ member' = member
    BY <1>3, <2>1, MemberStays
  <2>3. ~Finished'
    BY <1>3, <2>2 DEF Finished
  <2>4. Contract!Next
    BY <1>0, <1>3, <2>1, <2>2, <2>3, SilentStep
  <2> QED BY <2>1, <2>2, <2>4, UntouchedPlaced
<1> QED BY <1>1, <1>2, <1>3 DEF CallNextFrame

LEMMA PollMemberBlockPlaced ==
  ASSUME PlacedInv, PollMemberBlock, ReaderClientNext
  PROVE  Place' /\ Contract!Next
<1>1. /\ ReaderInv /\ call # "idle" /\ remaining > 0 /\ remaining \in Nat
      /\ member_chunk = NoChunk /\ member \in MemberType
      /\ out'.type # "Member" => member' = member
  BY MemberStays, HeldKinds DEF PlacedInv, Place, PollMemberBlock, ReadsBlock, ReadsPayload
<1>2. ~Finished /\ state # Failed
  BY <1>1 DEF ReaderInv, CallOK, Finished, Failed, Phase
<1>a. held' = held /\ call \in Reads \cup {"skip", "next_frame"}
  BY <1>1 DEF PlacedInv, HeldOK, PollMemberBlock
<1>b. /\ call \in Reads => held = TRUE /\ held' = held
      /\ call \notin Reads => held' = FALSE
      /\ held' \in {held, FALSE}
  BY <1>a DEF PlacedInv, HeldOK
<1>3. /\ source = position + Len(block)
      /\ block = Offsets(position, Len(block))
      /\ state \in [phase : {"ReadingMember"}, remaining : Positive]
      /\ remaining = state.remaining
  BY <1>1, <1>2, NoChunkFacts
<1>4. NextByte = position /\ position \in Nat
  <2>1. state.phase = "ReadingMember" /\ ChunkPlaced(member_chunk, state, position, NextByte)
    BY <1>2, <1>3 DEF PlacedInv, Place
  <2> QED BY <1>1, <2>1, HeldKinds DEF ChunkPlaced
<1>5. CASE /\ ReadPart
           /\ StayPending(call)
           /\ UNCHANGED <<member_chunk, remaining>>
  <2>1. out' = Pending /\ out'.type # "Member"
    BY <1>5 DEF StayPending, Pending
  <2>2. UNCHANGED <<position, state, member_chunk, remaining>> /\ member' = member
    BY <1>1, <1>5, <2>1 DEF ReadPart
  <2>3. ~Finished'
    BY <1>2, <2>2 DEF Finished
  <2>4. Contract!Next
    BY <1>2, <1>b, <2>1, <2>2, <2>3, SilentStep
  <2> QED BY <2>1, <2>2, <2>4, UntouchedPlaced
<1>6. CASE /\ ReadBlock
           /\ Deliver(call, Meaningful(state.remaining), NoChunk,
                      MemberPayloadState(state.remaining - Smaller(state.remaining, BLOCK_SIZE)))
  <2> DEFINE r == remaining
             bytes == Meaningful(r)
             k == Smaller(r, BLOCK_SIZE)
             s == MemberPayloadState(r - k)
  <2>1. /\ r \in Nat \ {0} /\ k \in 1..r /\ k <= BLOCK_SIZE /\ BLOCK_SIZE \in Nat
        /\ r - k # 0 => k = BLOCK_SIZE
    BY <1>1, BlockAssumption DEF Smaller
  <2>2. bytes = Offsets(NextByte, k)
    BY <1>1, <1>3, <1>4, <2>1, HeldKinds, BlockBytes
  <2>3. r - k \in Nat
    BY <2>1
  <2>4. /\ s = AwaitingHeader \/ s \in [phase : {"ReadingMember"}, remaining : Positive]
        /\ Unread(s) = r - k
    BY <2>3, PayloadStateShape
  <2>5. s.phase = "ReadingMember" => r - k # 0
    BY DEF MemberPayloadState, AwaitingHeader, Phase
  <2>6. position' = position + BLOCK_SIZE
    BY <1>6 DEF ReadBlock
  <2>7. Deliver(call, bytes, NoChunk, s)
    BY <1>3, <1>6
  <2>8. NoChunk.phase = "None" /\ Undelivered(NoChunk) = 0
    BY DEF NoChunk, Phase, Undelivered
  <2> HIDE DEF bytes, s, k
  <2>9. Len(bytes) = k
    BY <1>4, <2>1, <2>2, OffsetsType
  <2>10. ChunkPlaced(NoChunk, s, position', NextByte + Len(bytes))
    BY <1>4, <2>1, <2>5, <2>6, <2>8, <2>9 DEF ChunkPlaced
  <2>11. Len(bytes) \in 1..remaining /\ bytes = Offsets(NextByte, Len(bytes))
    BY <2>1, <2>2, <2>9
  <2>12. remaining = Len(bytes) + Undelivered(NoChunk) + Unread(s) /\ Undelivered(NoChunk) \in Nat
    BY <2>1, <2>4, <2>8, <2>9
  <2>13. position' \in Nat
    BY <1>4, <2>1, <2>6
  <2> QED BY <1>1, <1>2, <1>a, <1>b, <2>4, <2>7, <2>10, <2>11, <2>12, <2>13, DeliverPlaced
<1>7. CASE /\ Eof \/ IoError
           /\ Return(call, frame')
           /\ UNCHANGED <<member_chunk, remaining>>
  <2>1. state' = Failed /\ out'.type = "Error" /\ call' = "idle"
    BY <1>7, SourceEnds DEF Return
  <2>2. member' = member
    BY <1>1, <2>1
  <2>3. Finished'
    BY <2>1 DEF Finished, Failed, Phase
  <2>4. Contract!Next
    BY <1>2, <1>7, <1>a, <2>1, <2>2, <2>3, FailsStep
  <2>5. member' \in MemberType
    BY <1>1, <2>2
  <2> QED BY <2>1, <2>4, <2>5 DEF Place
<1> QED BY <1>5, <1>6, <1>7 DEF PollMemberBlock

LEMMA PollMemberChunkPlaced ==
  ASSUME PlacedInv, PollMemberChunk, ReaderClientNext
  PROVE  Place' /\ Contract!Next
<1> DEFINE c == member_chunk
           filled == Len(c.buffer)
<1>1. /\ ReaderInv /\ call # "idle" /\ c.phase = "Reading" /\ member \in MemberType
      /\ out'.type # "Member" => member' = member
  BY MemberStays DEF PlacedInv, Place, PollMemberChunk, ReadsChunk, ReadsPayload
<1>2. /\ ReadingShape(c) /\ c.start = position /\ position \in Nat
      /\ state = ReadingMember(c.member_remaining) /\ state # Failed
      /\ remaining = c.member_remaining /\ remaining \in Nat \ {0}
      /\ source = position + filled
  BY <1>1, ReadingFacts, HeldKinds
<1>3. /\ c.physical \in Nat /\ c.meaningful \in Nat \ {0} /\ c.meaningful <= c.member_remaining
      /\ c.meaningful <= c.physical /\ c.member_remaining \in Nat
      /\ filled \in Nat /\ filled < c.physical /\ c.buffer = Offsets(c.start, filled)
  BY <1>2 DEF ReadingShape, Positive, Spans
<1>4. NextByte = position /\ c.meaningful \in {c.physical, c.member_remaining}
  BY <1>1, <1>2 DEF PlacedInv, Place, ChunkPlaced
<1>5. ~Finished
  BY <1>2 DEF Finished, ReadingMember
<1>a. held' = held /\ call \in Reads \cup {"skip", "next_frame"}
  BY <1>1 DEF PlacedInv, HeldOK, PollMemberChunk
<1>b. /\ call \in Reads => held = TRUE /\ held' = held
      /\ call \notin Reads => held' = FALSE
      /\ held' \in {held, FALSE}
  BY <1>a DEF PlacedInv, HeldOK
<1>6. ASSUME NEW n \in Nat,
             member_chunk' = [c EXCEPT !.buffer = @ \o NextBytes(n)],
             StayPending(call),
             UNCHANGED <<position, remaining, state>>
      PROVE  Place' /\ Contract!Next
  <2>1. out' = Pending /\ out'.type # "Member"
    BY <1>6 DEF StayPending, Pending
  <2>2. member' = member
    BY <1>1, <2>1
  <2>3. ~Finished' /\ NextByte' = NextByte
    BY <1>5, <1>6, <2>2 DEF Finished, NextByte
  <2>4. Contract!Next
    BY <1>5, <1>6, <1>b, <2>1, <2>2, <2>3, SilentStep
  <2> DEFINE whole == c.buffer \o NextBytes(n)
  <2>a. member_chunk' = [c EXCEPT !.buffer = whole]
    BY <1>6
  <2> HIDE DEF whole
  <2>5. member_chunk' = [phase |-> "Reading", start |-> c.start, physical |-> c.physical,
                         meaningful |-> c.meaningful, member_remaining |-> c.member_remaining,
                         buffer |-> whole]
    <3>1. c = [phase |-> "Reading", start |-> c.start, physical |-> c.physical,
               meaningful |-> c.meaningful, member_remaining |-> c.member_remaining,
               buffer |-> c.buffer]
      BY <1>2 DEF ReadingShape
    <3> QED BY <2>a, <3>1
  <2> DEFINE d == member_chunk'
  <2>6. /\ d.phase = "Reading" /\ d # NoChunk /\ d.physical = c.physical
        /\ d.meaningful = c.meaningful /\ d.member_remaining = c.member_remaining
    <3>1. d.phase = "Reading" /\ NoChunk.phase = "None"
      BY <2>5 DEF NoChunk, Phase
    <3> QED BY <2>5, <3>1
  <2> HIDE DEF d
  <2>7. ChunkPlaced(d, state', position', NextByte')
    BY <1>4, <1>6, <2>3, <2>6 DEF ChunkPlaced
  <2>8. member' \in MemberType
    BY <1>1, <2>2
  <2> QED BY <2>1, <2>4, <2>7, <2>8 DEF Place, d
<1>7. CASE /\ position' = c.start + c.physical
           /\ LET ready == ReadyChunk(c, c.buffer \o NextBytes(c.physical - filled))
              IN  Deliver(call, TakenBytes(call, ready), LeftChunk(call, ready),
                          MemberPayloadState(c.member_remaining - c.meaningful))
  <2> DEFINE buffer == c.buffer \o NextBytes(c.physical - filled)
             ready  == ReadyChunk(c, buffer)
             bytes  == TakenBytes(call, ready)
             left   == LeftChunk(call, ready)
             m      == c.member_remaining - c.meaningful
             s      == MemberPayloadState(m)
  <2>1. buffer = Offsets(c.start, c.physical)
    <3>1. c.physical - filled \in Nat /\ filled + (c.physical - filled) = c.physical
      BY <1>3
    <3>2. NextBytes(c.physical - filled) = Offsets(c.start + filled, c.physical - filled)
      BY <1>2 DEF NextBytes, Offsets
    <3>3. Offsets(c.start, filled) \o Offsets(c.start + filled, c.physical - filled)
            = Offsets(c.start, filled + (c.physical - filled))
      BY ZenonT(40), <1>2, <1>3, <3>1, OffsetsAppend
    <3> QED BY <1>3, <3>1, <3>2, <3>3
  <2>2. Deliver(call, bytes, left, s)
    BY <1>7
  <2> HIDE DEF buffer
  <2>3. ReadyShape(ready) /\ Undelivered(ready) = c.meaningful
    BY <1>2, <2>1, ReadyChunkShape
  <2>4. /\ ready.start = c.start /\ ready.physical = c.physical
        /\ ready.meaningful = c.meaningful /\ ready.delivered = 0
    BY DEF ReadyChunk
  <2> HIDE DEF ready
  <2>5. /\ left = NoChunk \/ ReadyShape(left)
        /\ call # "next_block" => left = NoChunk
        /\ Undelivered(left) \in Nat
        /\ c.meaningful = Len(bytes) + Undelivered(left)
    BY <2>3, TakeShape
  <2>6. /\ m \in Nat
        /\ s = AwaitingHeader \/ s \in [phase : {"ReadingMember"}, remaining : Positive]
        /\ Unread(s) = m
        /\ s.phase = "ReadingMember" => m # 0
    <3>1. m \in Nat
      BY <1>2, <1>3
    <3>2. s.phase = "ReadingMember" => m # 0
      BY DEF MemberPayloadState, AwaitingHeader, Phase
    <3> QED BY <3>1, <3>2, PayloadStateShape
  <2> HIDE DEF s
  <2>7. /\ ready.start + ready.delivered = NextByte
        /\ ready.start + ready.physical = position'
        /\ s.phase = "ReadingMember" => ready.meaningful = ready.physical
    BY <1>2, <1>3, <1>4, <1>7, <2>4, <2>6
  <2>8. /\ Len(bytes) \in Nat \ {0} /\ bytes = Offsets(NextByte, Len(bytes))
        /\ ChunkPlaced(left, s, position', NextByte + Len(bytes))
    BY <2>3, <2>7, TakenBehind
  <2> HIDE DEF bytes, left
  <2>9. Len(bytes) \in 1..remaining /\ remaining = Len(bytes) + Undelivered(left) + Unread(s)
    <3> DEFINE n    == Len(bytes)
               kept == Undelivered(left)
               due  == c.meaningful
               all  == c.member_remaining
               rest == Unread(s)
    <3>1. due = n + kept /\ kept \in Nat /\ n \in Nat \ {0} /\ rest = all - due
      BY <2>5, <2>6, <2>8
    <3>2. due \in Nat /\ all \in Nat /\ due <= all /\ remaining = all
      BY <1>2, <1>3
    <3> HIDE DEF n, kept, due, all, rest
    <3>3. n \in 1..all /\ all = n + kept + rest
      BY <3>1, <3>2
    <3>4. n \in 1..remaining /\ remaining = n + kept + rest
      BY <3>2, <3>3, Zenon
    <3> QED BY <3>4 DEF n, kept, rest
  <2>10. position' \in Nat /\ remaining \in Nat
    BY <1>2, <1>3, <1>7
  <2> HIDE DEF m
  <2> QED BY <1>1, <1>5, <1>a, <1>b, <2>2, <2>5, <2>6, <2>8, <2>9, <2>10, DeliverPlaced
<1>8. ASSUME NEW e, ChunkFails(e)
      PROVE  Place' /\ Contract!Next
  <2>1. state' = Failed /\ out'.type = "Error" /\ call' = "idle" /\ remaining' = remaining
    BY <1>8 DEF ChunkFails, Fail, Return, Error
  <2>2. member' = member
    BY <1>1, <2>1
  <2>3. Finished'
    BY <2>1 DEF Finished, Failed, Phase
  <2>4. Contract!Next
    BY <1>5, <1>a, <2>1, <2>2, <2>3, FailsStep
  <2>5. member' \in MemberType
    BY <1>1, <2>2
  <2> QED BY <2>1, <2>4, <2>5 DEF Place
<1>9. \/ \E n \in 1..(c.physical - filled - 1) :
            /\ member_chunk' = [c EXCEPT !.buffer = @ \o NextBytes(n)]
            /\ StayPending(call)
            /\ UNCHANGED <<position, remaining, state>>
      \/ /\ position' = c.start + c.physical
         /\ LET ready == ReadyChunk(c, c.buffer \o NextBytes(c.physical - filled))
            IN  Deliver(call, TakenBytes(call, ready), LeftChunk(call, ready),
                        MemberPayloadState(c.member_remaining - c.meaningful))
      \/ \E e : ChunkFails(e)
  BY DEF PollMemberChunk
<1>10. \A n \in 1..(c.physical - filled - 1) : n \in Nat
  BY <1>3
<1> QED BY <1>6, <1>7, <1>8, <1>9, <1>10

-----------------------------------------------------------------------------
(* Frames between members.                                                 *)

(* A frame that is an end, an error or a header says what becomes of the   *)
(* parser.                                                                 *)
FrameTells ==
  /\ frame'.type = "End" => frame' = End /\ state' = Complete
  /\ frame'.type = "Error" => state' = Failed
  /\ frame'.type = "Header" =>
       frame'.position = position /\ state' = MemberPayloadState(frame'.size)

LEMMA ProcessBlockTells ==
  ASSUME ProcessBlock
  PROVE  FrameTells
<1>1. ASSUME NEW e, Fail(e) PROVE FrameTells
  BY <1>1 DEF Fail, Error, FrameTells
<1>2. ASSUME NEW f, NEW s, SetState(s, f), f.type \in {"Pending", "Pax", "Gnu", "Data"}
      PROVE  FrameTells
  BY <1>2 DEF SetState, FrameTells
<1>3. ASSUME NEW h, NEW size, SetState(MemberPayloadState(size), HeaderFrame(h, size))
      PROVE  FrameTells
  BY <1>3 DEF SetState, HeaderFrame, FrameTells
<1>4. CASE ZeroBlock \/ BadEndMarker \/ RejectedHeader
  <2>1. \/ frame' = Pending
        \/ frame' = End /\ state' = Complete
        \/ \E e : Fail(e)
    BY <1>4 DEF ZeroBlock, BadEndMarker, RejectedHeader, SetState
  <2> QED BY <1>1, <2>1 DEF FrameTells, Pending, End
<1>5. CASE Header
  <2>1. PICK h \in Headers :
          PaxHeader(h) \/ UstarHeader(h) \/ GnuExtension(h) \/ GnuHeader(h)
    BY <1>5 DEF Header
  <2>2. CASE PaxHeader(h)
    <3>1. \/ \E e : Fail(e)
          \/ SetState(ReadingPax(PaxKind[h.typeflag], h.size), PaxFrame(PaxKind[h.typeflag], h.size))
      BY <2>2 DEF PaxHeader
    <3>2. PaxFrame(PaxKind[h.typeflag], h.size).type = "Pax"
      BY DEF PaxFrame
    <3> QED BY <1>1, <1>2, <3>1, <3>2
  <2>3. CASE UstarHeader(h)
    <3>1. \/ Fail("InvalidMember")
          \/ \E size : SetState(MemberPayloadState(size), HeaderFrame(h, size))
      BY <2>3 DEF UstarHeader
    <3> QED BY <1>1, <1>3, <3>1
  <2>4. CASE GnuExtension(h)
    <3>1. \/ \E e : Fail(e)
          \/ \E s : SetState(s, GnuFrame(GnuKind[h.typeflag], h.size))
      BY <2>4 DEF GnuExtension
    <3>2. GnuFrame(GnuKind[h.typeflag], h.size).type = "Gnu"
      BY DEF GnuFrame
    <3> QED BY <1>1, <1>2, <3>1, <3>2
  <2>5. CASE GnuHeader(h)
    <3>1. \/ Fail("InvalidMember")
          \/ SetState(MemberPayloadState(h.size), HeaderFrame(h, h.size))
      BY <2>5 DEF GnuHeader
    <3> QED BY <1>1, <1>3, <3>1
  <2> QED BY <2>1, <2>2, <2>3, <2>4, <2>5
<1>6. CASE PaxData \/ GnuData \/ MemberData
  <2>1. \/ \E e : Fail(e)
        \/ \E owner, bytes, records : frame' = DataFrame(owner, bytes, records)
    BY <1>6 DEF PaxData, PaxRecordsParsed, GnuData, MemberData, SetState
  <2>2. CASE \E owner, bytes, records : frame' = DataFrame(owner, bytes, records)
    BY <2>2 DEF DataFrame, FrameTells
  <2> QED BY <1>1, <2>1, <2>2
<1> QED BY <1>4, <1>5, <1>6 DEF ProcessBlock

LEMMA PollTells ==
  ASSUME PollNextFrame, BuffersOK
  PROVE  FrameTells /\ position' \in Nat /\ position' >= position
<1>1. position \in Nat /\ BLOCK_SIZE \in Nat
  BY BlockAssumption DEF BuffersOK
<1>2. CASE ReadPart
  BY <1>1, <1>2 DEF ReadPart, FrameTells, Pending
<1>3. CASE ReadBlock /\ ProcessBlock
  BY <1>1, <1>3, ProcessBlockTells DEF ReadBlock
<1>4. CASE Eof \/ IoError
  BY <1>1, <1>4, SourceEnds DEF FrameTells
<1> QED BY <1>2, <1>3, <1>4 DEF PollNextFrame

(* Between members, a parser that has moved on leaves the next byte at or  *)
(* before its position, and no payload to be read.                         *)
LEMMA BetweenMembers ==
  ASSUME ReaderInv', remaining' = 0, member_chunk' = NoChunk, member' \in MemberType,
         position' \in Nat, NextByte' <= position', call' # "idle" => out' = Pending
  PROVE  Place'
<1>1. NoChunk.phase = "None" /\ Undelivered(NoChunk) = 0
  BY DEF NoChunk, Phase, Undelivered
<1>2. ASSUME state' # Failed, state'.phase = "ReadingMember" PROVE FALSE
  <2>1. remaining' = 0 + Unread(state')
    BY <1>1, <1>2 DEF ReaderInv, PayloadAccounted
  <2>2. StateOK'
    BY DEF ReaderInv
  <2>3. state' \in [phase : {"ReadingMember"}, remaining : Positive]
    BY <1>2, <2>2 DEF StateOK, AwaitingHeader, AwaitingSecondZero, Complete, Failed, Phase,
                      AwaitingUstarHeader
  <2> QED BY <1>2, <2>1, <2>3 DEF Unread, Positive
<1>3. state' # Failed => ChunkPlaced(NoChunk, state', position', NextByte')
  BY <1>1, <1>2 DEF ChunkPlaced
<1> QED BY <1>3 DEF Place

LEMMA PollFramePlaced ==
  ASSUME PlacedInv, PollFrame, ReaderClientNext, ReaderInv'
  PROVE  Place' /\ Contract!Next
<1>1. /\ ReaderInv /\ call = "next_frame" /\ remaining = 0 /\ member_chunk' = member_chunk
      /\ member \in MemberType /\ out = Pending
      /\ PollNextFrame /\ HandleFrame(frame') /\ BuffersOK
  BY HeldKinds DEF PlacedInv, Place, PollFrame
<1>2. member_chunk = NoChunk /\ ~Finished /\ state # Failed
  BY <1>1, FrameFacts DEF Finished, Failed, Phase
<1>a. held = FALSE
  BY <1>1 DEF PlacedInv, HeldOK, Reads
<1>3. NextByte <= position /\ position \in Nat
  BY <1>1, <1>2 DEF PlacedInv, Place, ChunkPlaced, BuffersOK
<1>4. FrameTells /\ position' \in Nat /\ position' >= position
  BY <1>1, PollTells
<1>5. NextByte \in Int
  BY <1>1, BlockAssumption DEF NextByte, MemberType
<1>6. CASE out' = Pending /\ remaining' = remaining /\ call' = call /\ held' = held
  <2>1. member' = member
    BY <1>6, MemberStays DEF Pending
  <2>2. ~Finished'
    BY <1>1, <1>6 DEF ReaderInv, CallOK, Finished
  <2>3. NextByte' = NextByte /\ Finished' = Finished
    BY <1>2, <1>6, <2>1, <2>2 DEF NextByte, Finished
  <2>4. Contract!Next
    BY <1>2, <1>6, <2>1, <2>2, SilentStep
  <2>5. NextByte' <= position' /\ remaining' = 0 /\ member' \in MemberType
    BY <1>1, <1>3, <1>4, <1>5, <1>6, <2>1, <2>3
  <2>6. Place'
    BY <1>1, <1>2, <1>4, <1>6, <2>5, BetweenMembers
  <2> QED BY <2>4, <2>6
<1>7. CASE /\ frame'.type \in {"End", "Error"}
           /\ Return("next_frame", frame') /\ remaining' = remaining /\ held' = held
  <2>1. out' = frame' /\ call' = "idle"
    BY <1>7 DEF Return
  <2>2. member' = member
    BY <1>7, <2>1, MemberStays
  <2>3. Finished' /\ (out' = End \/ out'.type = "Error")
    BY <1>4, <1>7, <2>1 DEF FrameTells, Finished, Failed, Complete, Phase
  <2>4. Contract!Next
    BY <1>1, <1>2, <1>7, <1>a, <2>2, <2>3, EndStep, FailsStep
  <2>5. NextByte' = NextByte
    BY <1>7, <2>2 DEF NextByte
  <2>6. NextByte' <= position' /\ remaining' = 0 /\ member' \in MemberType
    BY <1>1, <1>3, <1>4, <1>5, <1>7, <2>2, <2>5
  <2>7. Place'
    BY <1>1, <1>2, <1>4, <2>1, <2>6, BetweenMembers
  <2> QED BY <2>4, <2>7
<1>8. CASE frame'.type = "Header" /\ ReleaseMember(frame')
  <2>1. /\ out'.type = "Member" /\ out'.position = position /\ out'.size = frame'.size
        /\ call' = "idle" /\ remaining' = frame'.size /\ held' = TRUE
        /\ state' = MemberPayloadState(remaining')
    BY <1>4, <1>8 DEF ReleaseMember, FrameTells
  <2>2. Releases
    BY <1>1, <2>1 DEF Releases, Pending
  <2>3. member' = [position |-> position, size |-> remaining']
    BY <2>1, <2>2 DEF ReaderClientNext
  <2>4. remaining' \in Nat
    BY DEF ReaderInv
  <2>5. ~Finished'
    BY <2>1 DEF Finished, MemberPayloadState, AwaitingHeader, ReadingMember, Phase
  <2>6. Contract!Next
    BY <1>1, <1>2, <1>3, <1>a, <2>1, <2>3, <2>4, <2>5, MemberStep
  <2>7. member' \in MemberType
    BY <1>3, <2>3, <2>4 DEF MemberType
  <2>8. NextByte' = position + BLOCK_SIZE
    <3>1. NextByte' = position + BLOCK_SIZE + remaining' - remaining'
      BY <2>3 DEF NextByte
    <3>2. \A x, y, z \in Nat : x + y + z - z = x + y
      OBVIOUS
    <3>3. BLOCK_SIZE \in Nat
      BY BlockAssumption
    <3> QED BY <1>3, <2>4, <3>1, <3>2, <3>3, Zenon
  <2>9. position' = position + BLOCK_SIZE
    <3>1. ReadBlock
      BY <1>1, <1>8, SourceEnds DEF PollNextFrame, ReadPart, Pending
    <3> QED BY <3>1 DEF ReadBlock
  <2>10. ChunkPlaced(NoChunk, state', position', NextByte')
    BY <1>4, <2>8, <2>9 DEF ChunkPlaced, NoChunk, Phase
  <2>11. Place'
    BY <1>1, <1>2, <2>1, <2>7, <2>10 DEF Place
  <2> QED BY <2>6, <2>11
<1>9. CASE frame'.type = "Data" /\ ExtensionData(frame')
  <2>1. ~Return("next_frame", Error("UnattachedData"))
    BY DEF ReaderInv, ChecksNeverFail, Return
  <2>2. GoOn
    BY <1>9, <2>1 DEF ExtensionData, PaxExtensionData, GnuExtensionData
  <2> QED BY <1>6, <2>2 DEF GoOn
<1>10. CASE \/ frame'.type = "Pax" /\ PaxExtension(frame')
            \/ frame'.type = "Gnu" /\ GnuExtensionFrame(frame')
  <2>1. GoOn
    BY <1>10 DEF PaxExtension, GnuExtensionFrame
  <2> QED BY <1>6, <2>1 DEF GoOn
<1>11. CASE StayPending(call) /\ remaining' = remaining /\ held' = held
  BY <1>6, <1>11 DEF StayPending
<1> QED BY <1>1, <1>7, <1>8, <1>9, <1>10, <1>11 DEF HandleFrame

-----------------------------------------------------------------------------
(* The refinement.                                                         *)

(* A call goes on or is over, and a read that comes to an end leaves bytes *)
(* behind only in the client's hands.                                      *)
LEMMA DeliverHolds ==
  ASSUME NEW op, NEW bytes, NEW left, NEW s, Deliver(op, bytes, left, s),
         s.phase \notin {"Complete", "Failed"}
  PROVE  call' \in {op, "idle"} /\ (op \in Reads => ~Finished')
<1>1. op \in Reads => op \notin {"skip", "next_frame"}
  BY DEF Reads
<1>2. call' \in {op, "idle"}
  BY DEF Deliver, Return, StayPending
<1>3. op \in Reads => state' = s
  BY <1>1 DEF Deliver
<1> QED BY <1>2, <1>3 DEF Finished

LEMMA StartReadHolds ==
  ASSUME ReaderInv, NEW op, NEW target, StartRead(op, target)
  PROVE  call' \in {op, "idle"} /\ (op \in Reads /\ Finished' => remaining' > 0)
<1>1. CASE /\ member_chunk.phase = "Ready"
           /\ Deliver(op, TakenBytes(op, member_chunk), LeftChunk(op, member_chunk), state)
  <2>1. state.phase \notin {"Complete", "Failed"}
    BY <1>1, ReadyFacts DEF AwaitingHeader, Phase
  <2> QED BY <1>1, <2>1, DeliverHolds
<1>2. CASE StayPending(op) /\ UNCHANGED remaining
  BY <1>2 DEF StayPending, StartRead
<1>3. CASE Return(op, Error("NoPayload")) /\ UNCHANGED remaining
  BY <1>3 DEF Return, StartRead
<1> QED BY <1>1, <1>2, <1>3 DEF StartRead

LEMMA CallHolds ==
  ASSUME ReaderInv, HeldOK,
         \/ CallNextFrame
         \/ \E op \in {"next_block", "next_chunk", "skip"} : \E target \in Nat :
              CallPayload(op, target)
  PROVE  HeldOK'
<1>1. CASE CallNextFrame
  <2>1. held' = FALSE /\ call' \in {"next_frame", "idle"}
    BY <1>1, StartReadHolds DEF CallNextFrame, Return, StayPending
  <2> QED BY <2>1 DEF HeldOK, Reads
<1>2. ASSUME NEW op \in {"next_block", "next_chunk", "skip"}, NEW target \in Nat,
             CallPayload(op, target)
      PROVE  HeldOK'
  <2>1. held /\ held' = (op # "skip") /\ (op # "skip" <=> op \in Reads)
    BY <1>2 DEF CallPayload, Reads
  <2>2. call' \in {op, "idle"} /\ (op \in Reads /\ Finished' => remaining' > 0)
    <3>1. CASE StartRead(op, target)
      BY <3>1, StartReadHolds
    <3>2. CASE /\ remaining = 0
               /\ Return(op, Exhausted)
               /\ UNCHANGED <<streamVars, member_chunk, remaining>>
      <4>1. Finished' = Finished
        BY <3>2 DEF streamVars, Finished
      <4> QED BY <2>1, <3>2, <4>1 DEF HeldOK, Return
    <3> QED BY <1>2, <3>1, <3>2 DEF CallPayload
  <2> QED BY <2>1, <2>2 DEF HeldOK, Reads
<1> QED BY <1>1, <1>2

LEMMA PollHolds ==
  ASSUME ReaderInv, HeldOK, PollReader
  PROVE  HeldOK'
<1>1. ~Finished /\ call # "idle" /\ (held => call \in Reads)
  BY DEF ReaderInv, CallOK, HeldOK, PollReader, PollMemberBlock, PollMemberChunk, PollFrame,
         ReadsBlock, ReadsChunk, ReadsPayload, Reads
<1>2. ASSUME held' = held, call' \in {call, "idle"}, held /\ Finished' => remaining' > 0
      PROVE  HeldOK'
  <2>1. /\ held' \in BOOLEAN
        /\ call' \in Reads \cup {"skip", "next_frame", "idle"}
        /\ call' \in Reads => held' = TRUE
        /\ call' \in {"skip", "next_frame"} => held' = FALSE
    BY Zenon, <1>2 DEF HeldOK, Reads
  <2> QED BY <1>2, <2>1 DEF HeldOK
<1>3. ASSUME NEW n PROVE MemberPayloadState(n).phase \notin {"Complete", "Failed"}
  BY DEF MemberPayloadState, AwaitingHeader, ReadingMember, Phase
<1>4. CASE PollMemberBlock
  <2>1. held' = held /\ remaining > 0
    BY <1>4 DEF PollMemberBlock, ReadsBlock, ReadsPayload
  <2>2. CASE ReadPart /\ StayPending(call)
    BY <1>1, <1>2, <2>1, <2>2 DEF ReadPart, StayPending, Finished
  <2>3. CASE \E bytes, n : Deliver(call, bytes, NoChunk, MemberPayloadState(n))
    BY <1>1, <1>2, <1>3, <2>1, <2>3, DeliverHolds
  <2>4. CASE \E o : Return(call, o) /\ UNCHANGED remaining
    BY <1>2, <2>1, <2>4 DEF Return
  <2> QED BY <1>4, <2>2, <2>3, <2>4 DEF PollMemberBlock
<1>5. CASE PollMemberChunk
  <2>1. held' = held /\ remaining > 0
    BY <1>5 DEF PollMemberChunk, ReadsChunk, ReadsPayload
  <2>2. CASE StayPending(call) /\ UNCHANGED state
    BY <1>1, <1>2, <2>1, <2>2 DEF StayPending, Finished
  <2>3. CASE \E bytes, left, n : Deliver(call, bytes, left, MemberPayloadState(n))
    BY <1>1, <1>2, <1>3, <2>1, <2>3, DeliverHolds
  <2>4. CASE \E e : ChunkFails(e)
    BY <1>2, <2>1, <2>4 DEF ChunkFails, Return
  <2> QED BY <1>5, <2>2, <2>3, <2>4 DEF PollMemberChunk
<1>6. CASE PollFrame
  <2>1. /\ call = "next_frame" /\ held = FALSE
        /\ PollNextFrame /\ HandleFrame(frame') /\ FrameTells
    BY <1>1, <1>6, PollTells DEF PollFrame, Reads, ReaderInv
  <2>2. CASE frame'.type = "Header" /\ ReleaseMember(frame')
    <3>1. held' = TRUE /\ call' = "idle"
      BY <2>2 DEF ReleaseMember
    <3>2. ~Finished'
      BY <1>3, <2>1, <2>2 DEF FrameTells, Finished
    <3> QED BY <3>1, <3>2 DEF HeldOK
  <2>3. CASE held' = held /\ call' \in {call, "idle"}
    BY <1>2, <2>1, <2>3
  <2> QED BY <2>1, <2>2, <2>3
       DEF HandleFrame, StayPending, Return, PaxExtension, GnuExtensionFrame, ExtensionData,
           PaxExtensionData, GnuExtensionData, GoOn
<1> QED BY <1>4, <1>5, <1>6 DEF PollReader

LEMMA HeldStep ==
  ASSUME PlacedInv, [ReaderClientNext]_readerClientVars
  PROVE  HeldOK'
<1>1. CASE UNCHANGED readerClientVars
  BY <1>1 DEF PlacedInv, HeldOK, Finished, readerClientVars, vars, streamVars, readerVars
<1>2. CASE DropFuture
  BY <1>2 DEF PlacedInv, HeldOK, Finished, DropFuture, Cancel, streamVars, readerVars, Reads
<1>3. CASE Next
  <2>1. 0 \in Nat /\ PAYLOAD_DRAIN_CHUNK_BYTES \in Nat /\ Targets \subseteq Nat
    BY TargetAssumption
  <2>2. \/ DropFuture \/ CallNextFrame \/ PollReader
        \/ \E op \in {"next_block", "next_chunk", "skip"} : \E target \in Nat :
             CallPayload(op, target)
    BY <1>3, <2>1 DEF Next
  <2> QED BY <1>2, <2>2, CallHolds, PollHolds DEF PlacedInv
<1> QED BY <1>1, <1>3 DEF ReaderClientNext

LEMMA PlacedInit ==
  ASSUME ReaderClientInit
  PROVE  PlacedInv /\ Contract!Init
<1>1. ReaderInv
  BY ReaderInvInit
<1>2. /\ position = 0 /\ state = AwaitingHeader /\ member_chunk = NoChunk /\ remaining = 0
      /\ call = "idle" /\ held = FALSE /\ out = Pending /\ member = [position |-> 0 - BLOCK_SIZE, size |-> 0]
  BY DEF ReaderClientInit, ReaderInit, StreamInit, NoChunk
<1>3. NextByte = 0
  BY <1>2, BlockAssumption DEF NextByte
<1>4. Place
  <2>1. member \in MemberType
    BY <1>2, BlockAssumption DEF MemberType
  <2>2. ChunkPlaced(NoChunk, AwaitingHeader, 0, 0)
    BY DEF ChunkPlaced, NoChunk, AwaitingHeader, Phase
  <2> QED BY <1>2, <1>3, <2>1, <2>2 DEF Place
<1>5. Finished = FALSE
  BY <1>2 DEF Finished, AwaitingHeader, Phase
<1>6. HeldOK
  BY <1>2, <1>5 DEF HeldOK, Reads
<1> QED BY <1>1, <1>2, <1>3, <1>4, <1>5, <1>6 DEF PlacedInv, NextByte, Contract!Init, Pending

LEMMA PlacedStep ==
  ASSUME PlacedInv, [ReaderClientNext]_readerClientVars
  PROVE  PlacedInv' /\ [Contract!Next]_Contract!vars
<1>1. ReaderInv' /\ HeldOK'
  BY ReaderInvStep, HeldStep DEF PlacedInv
<1>2. CASE UNCHANGED readerClientVars
  <2>1. UNCHANGED <<position, state, member_chunk, remaining, held, call, out, member>>
    BY <1>2 DEF readerClientVars, vars, streamVars, readerVars
  <2>2. Place'
    BY <2>1, UntouchedPlaced DEF PlacedInv, Place
  <2>3. UNCHANGED Contract!vars
    BY <2>1 DEF Contract!vars, NextByte, Finished
  <2> QED BY <1>1, <2>2, <2>3 DEF PlacedInv
<1>3. CASE DropFuture /\ ReaderClientNext
  <2>1. /\ UNCHANGED <<position, state, member_chunk, remaining, held, out>> /\ call' = "idle"
        /\ member' = member
    BY <1>3, MemberStays DEF DropFuture, Cancel, streamVars, readerVars
  <2>2. Place'
    BY <2>1, UntouchedPlaced
  <2>3. UNCHANGED Contract!vars
    BY <2>1 DEF Contract!vars, NextByte, Finished
  <2> QED BY <1>1, <2>2, <2>3 DEF PlacedInv
<1>4. CASE /\ ReaderClientNext
           /\ \E op \in {"next_block", "next_chunk", "skip"} : \E target \in Nat :
                CallPayload(op, target)
  BY <1>1, <1>4, CallPayloadPlaced DEF PlacedInv
<1>5. CASE ReaderClientNext /\ (CallNextFrame \/ PollReader)
  BY <1>1, <1>5, CallNextFramePlaced, PollMemberBlockPlaced, PollMemberChunkPlaced,
     PollFramePlaced DEF PollReader, PlacedInv
<1>6. CASE ReaderClientNext
  <2>1. 0 \in Nat /\ PAYLOAD_DRAIN_CHUNK_BYTES \in Nat /\ Targets \subseteq Nat
    BY TargetAssumption
  <2>2. Next
    BY <1>6 DEF ReaderClientNext
  <2>3. \/ DropFuture \/ CallNextFrame \/ PollReader
        \/ \E op \in {"next_block", "next_chunk", "skip"} : \E target \in Nat :
             CallPayload(op, target)
    BY <2>1, <2>2 DEF Next
  <2> QED BY <1>3, <1>4, <1>5, <1>6, <2>3
<1> QED BY <1>2, <1>6

(* Whatever calls are made, mixed and dropped, and however the source cuts *)
(* its reads, a client sees a MemberStream: members in order, the payload  *)
(* of each once, in order and in its length, none of it passed over while  *)
(* the client holds it, and after the end or an error nothing but the end, *)
(* or the error of a payload still held whose read failed.                 *)
THEOREM ReaderImplementsMemberStream == ReaderClientSpec => ImplementsMemberStream
<1>1. ReaderClientInit => PlacedInv /\ Contract!Init
  BY PlacedInit
<1>2. PlacedInv /\ [ReaderClientNext]_readerClientVars
        => PlacedInv' /\ [Contract!Next]_Contract!vars
  BY PlacedStep
<1> QED BY <1>1, <1>2, PTL DEF ReaderClientSpec, ImplementsMemberStream, Contract!Spec

=============================================================================
