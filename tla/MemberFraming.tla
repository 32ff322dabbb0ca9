----------------------------- MODULE MemberFraming -----------------------------
(***************************************************************************)
(* How a member is framed: frame_pax_member_into of tar-framing            *)
(* (src/write.rs) under TarEncoder of tar-codec (src/encode.rs), which     *)
(* reuses one buffer for every member.  A member gets a local pax header,  *)
(* whose records say everything, and an ordinary header, which says what   *)
(* fits its fields, for readers that know no pax.                          *)
(***************************************************************************)
EXTENDS HeaderBlock

CONSTANTS
  MAX_DECIMAL_U64_BYTES,
  BLOCK_SIZE,
  Members    \* bound: the members asked for first, second, and so on, one of
             \* them refused each time; with path, kind, size, link_path, executable

Lengths == INSTANCE PaxRecordLength WITH USIZE_MAX <- U64_MAX

(* BLOCK_SIZE divides the range of u64.                                    *)
ASSUME FramingAssumption ==
  /\ BLOCK_SIZE \in Nat \ {0} /\ (U64_MAX + 1) % BLOCK_SIZE = 0

VARIABLES
  sequence,          \* TarEncoder.sequence
  framing_buffer,    \* TarEncoder.framing_buffer: two headers and the records between
  framed,            \* history: the member framed last, or <<>>
  refused            \* history: the member refused last, if it was the last, or <<>>

framingVars == <<sequence, framing_buffer, framed, refused>>

Dot == 46
PaxHeaders == <<72>>    \* "PaxHeaders/" and "PaxEntries/", of the same length
PaxEntries == <<69>>

Regular      == "Regular"
Directory    == "Directory"
SymbolicLink == "SymbolicLink"

TypeFlag == [kind \in {Regular, Directory, SymbolicLink} |->
  CASE kind = Regular -> Zero [] kind = Directory -> Zero + 5 [] OTHER -> Zero + 2]

NoBlocks == [extended |-> ZeroBlock, records |-> <<>>, member |-> ZeroBlock]

FramingInit == sequence = 0 /\ framing_buffer = NoBlocks /\ framed = <<>> /\ refused = <<>>

-----------------------------------------------------------------------------

(* The last component of a path.                                           *)
LastComponent(path) ==
  LET start == CHOOSE n \in 0..Len(path) :
                 /\ n > 0 => path[n] = Slash
                 /\ \A i \in (n + 1)..Len(path) : path[i] # Slash
  IN  SubSeq(path, start + 1, Len(path))

IsText(text) == text # <<>> /\ \A i \in 1..Len(text) : text[i] # NUL

(* A member has at most one link path: <<>> or <<target>>.                 *)
MemberIsValid(m) ==
  /\ IsText(m.path)
  /\ m.kind # Directory => LastComponent(m.path) \notin { <<>>, <<Dot>>, <<Dot, Dot>> }
  /\ m.kind \in {Regular, Directory} => m.link_path = <<>>
  /\ m.kind \in {Directory, SymbolicLink} => m.size = 0
  /\ m.kind = SymbolicLink => m.link_path # <<>> /\ IsText(m.link_path[1])
  /\ m.kind \in {Regular, Directory, SymbolicLink}

Record(keyword, keyword_len, value) ==
  [keyword |-> keyword, value |-> value, len |-> Lengths!record_len(keyword_len, Len(value))]

Records(m) ==
  << Record("path", 4, m.path), Record("size", 4, Lengths!Decimal(m.size)) >>
    \o (IF m.link_path = <<>> THEN <<>> ELSE << Record("linkpath", 8, m.link_path[1]) >>)

PayloadLen(records) == SumOf([i \in 1..Len(records) |-> records[i].len])

(* What the extended header declares.                                      *)
payload_size(records) == PayloadLen(records)

(* wrapping_neg, and the low bits of it.                                   *)
payload_padding(size) == ((U64_MAX + 1 - size) % (U64_MAX + 1)) % BLOCK_SIZE

padded_payload_len(len) == ((len + BLOCK_SIZE - 1) \div BLOCK_SIZE) * BLOCK_SIZE

(* The separators a path can be split at, for the fields of a header.      *)
Splits(path) ==
  { i \in 2..(Len(path) - 1) :
      /\ path[i] = Slash
      /\ i - 1 <= FIELD_LEN["prefix"]
      /\ Len(path) - i <= FIELD_LEN["name"] }

(* split_ustar_path, or a name made of the sequence number.                *)
PrefixAndName(path, placeholder) ==
  IF Len(path) <= FIELD_LEN["name"] THEN << <<>>, path >>
  ELSE IF Splits(path) = {} THEN << <<>>, placeholder >>
  ELSE LET i == CHOOSE i \in Splits(path) : \A j \in Splits(path) : j <= i
       IN  << SubSeq(path, 1, i - 1), SubSeq(path, i + 1, Len(path)) >>

SequenceName(prefix) ==
  prefix \o [i \in 1..Lengths!Digits(sequence) |-> Zero + Lengths!Decimal(sequence)[i]]

Mode(m) ==
  CASE m.kind = Regular      -> IF m.executable THEN 493 ELSE 420
    [] m.kind = Directory    -> 493
    [] m.kind = SymbolicLink -> 511

fallback_size(size) == IF fits_octal(FIELD_LEN["size"], size) THEN size ELSE 0

(* clear and resize: every byte the framing leaves alone is zero.          *)
Cleared == NoBlocks

FrameMember(m) ==
  LET records == Records(m)
      name    == PrefixAndName(m.path, SequenceName(PaxEntries))
  IN  framing_buffer' =
        [ extended |-> WrittenHeader(Cleared.extended, <<>>, SequenceName(PaxHeaders), 420,
                                     payload_size(records), 120, <<>>),
          records  |-> records,
          member   |-> WrittenHeader(Cleared.member, name[1], name[2], Mode(m),
                                     fallback_size(m.size), TypeFlag[m.kind],
                                     IF m.link_path = <<>> THEN <<>> ELSE m.link_path[1]) ]

HeadersFit(m) ==
  /\ HeaderFits(420, payload_size(Records(m)))
  /\ HeaderFits(Mode(m), fallback_size(m.size))

(* TarEncoder::write_member                                                *)
WriteMember(m) ==
  /\ sequence < U64_MAX
  /\ MemberIsValid(m) /\ HeadersFit(m)
  /\ FrameMember(m)
  /\ sequence' = sequence + 1
  /\ framed' = <<m>> /\ refused' = <<>>

(* An error of the framing writes nothing and takes no sequence number.    *)
(* Its records stay in the buffer; the half of a header that may be there  *)
(* is left out, since the next member clears it.                           *)
RefuseMember(m) ==
  /\ \/ ~MemberIsValid(m) /\ UNCHANGED framing_buffer
     \/ /\ MemberIsValid(m) /\ ~HeadersFit(m)
        /\ framing_buffer' = [Cleared EXCEPT !.records = Records(m)]
  /\ framed' = <<>> /\ refused' = <<m>> /\ UNCHANGED sequence

FramingNext ==
  /\ sequence < Len(Members)
  /\ \E m \in Members[sequence + 1] : WriteMember(m) \/ (refused = <<>> /\ RefuseMember(m))

FramingSpec == FramingInit /\ [][FramingNext]_framingVars

-----------------------------------------------------------------------------
(* What a reader makes of it.                                              *)

Member    == framed[1]
Extended  == framing_buffer.extended
Ordinary  == framing_buffer.member

Values(keyword) ==
  { framing_buffer.records[i].value :
      i \in { i \in 1..Len(framing_buffer.records) : framing_buffer.records[i].keyword = keyword } }

(* Records and payload are padded to whole blocks, with less than a block  *)
(* and for any size the type can hold.                                     *)
WholeBlocks ==
  LET len == PayloadLen(framing_buffer.records)
  IN  /\ padded_payload_len(len) % BLOCK_SIZE = 0
      /\ padded_payload_len(len) - len \in 0..(BLOCK_SIZE - 1)
      /\ ((Member.size % BLOCK_SIZE) + payload_padding(Member.size)) % BLOCK_SIZE = 0
      /\ payload_padding(Member.size) < BLOCK_SIZE

(* A reader of pax takes the two headers for one member, finds each after  *)
(* whole blocks, and has the member that was asked for.  A reader          *)
(* that knows no pax sees the member's own path and link, or a placeholder *)
(* and no link, and never a part of either: not the path cut off, nor what *)
(* an earlier member left in the buffer.  What cannot be framed is an      *)
(* invalid member or one whose records are longer than a header can        *)
(* declare, not one whose own size is.                                     *)
ReadsWithPax ==
  /\ HeaderParses(Extended) /\ Extended["typeflag"] = <<120>>
  /\ parse_octal(Extended["size"]) = PayloadLen(framing_buffer.records)
  /\ HeaderParses(Ordinary) /\ FieldsParse(Ordinary)
  /\ Ordinary["typeflag"] = << TypeFlag[Member.kind] >>
  /\ Member.kind # Regular => parse_octal(Ordinary["size"]) = 0
  /\ parse_octal(Ordinary["mode"]) = Mode(Member)
  /\ Values("path") = {Member.path}
  /\ { Positional(digits, 10) : digits \in Values("size") } = {Member.size}
  /\ Values("linkpath") = { Member.link_path[i] : i \in 1..Len(Member.link_path) }

ReadsWithoutPax ==
  /\ HeaderPath(Ordinary) \in
       { Member.path, PaxEntries \o [i \in 1..Lengths!Digits(sequence - 1) |->
                                       Zero + Lengths!Decimal(sequence - 1)[i]] }
  /\ trim_nul(Ordinary["linkname"]) \in
       { <<>> } \cup { Member.link_path[i] : i \in 1..Len(Member.link_path) }
  /\ parse_octal(Ordinary["size"]) \in {0, Member.size}
  /\ Len(Member.path) <= FIELD_LEN["name"] => HeaderPath(Ordinary) = Member.path

ReadsBack ==
  /\ refused # <<>> /\ MemberIsValid(refused[1]) =>
       PayloadLen(Records(refused[1])) >= 8^(FIELD_LEN["size"] - 1)
  /\ framed # <<>> => WholeBlocks /\ ReadsWithPax /\ ReadsWithoutPax

=============================================================================
