------------------------------ MODULE HeaderBlock ------------------------------
(***************************************************************************)
(* A pax header block of tar-framing and how its fields are written and    *)
(* read (src/header.rs, build_header_into of src/write.rs, and the header  *)
(* decoding of src/stream.rs).  Bytes are ASCII codes; a block is a record *)
(* of fields that keep their order and may be shorter than they are.       *)
(***************************************************************************)
EXTENDS Integers, Sequences

CONSTANTS
  U64_MAX,
  FIELD_LEN    \* the length of each field

Field == { "name", "mode", "uid", "gid", "size", "mtime", "checksum", "typeflag",
           "linkname", "identity", "uname", "gname", "devmajor", "devminor", "prefix" }

ASSUME HeaderAssumption ==
  /\ U64_MAX \in Nat
  /\ FIELD_LEN \in [Field -> Nat]

NUL   == 0
Space == 32
Slash == 47
Zero  == 48     \* '0'

USTAR == <<117>>   \* the identity

Filled(byte, len) == [i \in 1..len |-> byte]

ZeroBlock == [f \in Field |-> Filled(NUL, FIELD_LEN[f])]

(* copy_from_slice onto the start of a field.                              *)
Overlay(field, bytes) == [i \in 1..Len(field) |-> IF i <= Len(bytes) THEN bytes[i] ELSE field[i]]

Before(byte, bytes) ==
  CHOOSE n \in 0..Len(bytes) :
    /\ \A i \in 1..n : bytes[i] # byte
    /\ n < Len(bytes) => bytes[n + 1] = byte

trim_nul(bytes) == SubSeq(bytes, 1, Before(NUL, bytes))

-----------------------------------------------------------------------------
(* Numbers.                                                                *)

OctalDigits(value) == CHOOSE n \in 1..22 : value < 8^n /\ (n = 1 \/ 8^(n - 1) <= value)

(* Fault: as many digits as the field has bytes.                           *)
fits_field(field_len, value) == OctalDigits(value) <= field_len

fits_octal(field_len, value) == OctalDigits(value) < field_len

(* encode_octal_with_suffix succeeds on a field of this length.            *)
Encodes(len, suffix, value) ==
  len > Len(suffix) /\ OctalDigits(value) <= len - Len(suffix)

Octal(len, suffix, value) ==
  [i \in 1..(len - Len(suffix)) |-> Zero + ((value \div 8^(len - Len(suffix) - i)) % 8)] \o suffix

None == -1

(* The digits of a number in a base, None when the type cannot hold it.    *)
Positional(digits, base) ==
  LET value[i \in 0..Len(digits)] ==
        IF i = 0 THEN 0
        ELSE IF value[i - 1] = None \/ value[i - 1] * base + digits[i] > U64_MAX THEN None
        ELSE value[i - 1] * base + digits[i]
  IN  value[Len(digits)]

(* Digits, then one or more terminators.                                   *)
IsOctal(bytes, n) ==
  /\ n > 0 /\ n < Len(bytes)
  /\ \A i \in 1..n : bytes[i] \in Zero..(Zero + 7)
  /\ \A i \in (n + 1)..Len(bytes) : bytes[i] \in {NUL, Space}

parse_octal(bytes) ==
  IF \E n \in 1..Len(bytes) : IsOctal(bytes, n)
  THEN LET n == CHOOSE n \in 1..Len(bytes) : IsOctal(bytes, n)
       IN  Positional([i \in 1..n |-> bytes[i] - Zero], 8)
  ELSE None

-----------------------------------------------------------------------------
(* The checksum is the sum of a block whose checksum field is blank.       *)

SumOf(bytes) ==
  LET sum[i \in 0..Len(bytes)] == IF i = 0 THEN 0 ELSE sum[i - 1] + bytes[i]
  IN  sum[Len(bytes)]

checksum(block) ==
  LET sums == << SumOf(block["name"]), SumOf(block["mode"]), SumOf(block["uid"]),
                 SumOf(block["gid"]), SumOf(block["size"]), SumOf(block["mtime"]),
                 SumOf(block["typeflag"]), SumOf(block["linkname"]), SumOf(block["identity"]),
                 SumOf(block["uname"]), SumOf(block["gname"]), SumOf(block["devmajor"]),
                 SumOf(block["devminor"]), SumOf(block["prefix"]) >>
  IN  SumOf(sums) + FIELD_LEN["checksum"] * Space

encode_checksum(block) ==
  [block EXCEPT !["checksum"] = Octal(FIELD_LEN["checksum"], <<NUL, Space>>, checksum(block))]

-----------------------------------------------------------------------------
(* build_header_into, over what the block holds, unless a number does not  *)
(* fit its field.                                                          *)

HeaderFits(mode, size) ==
  /\ Encodes(FIELD_LEN["mode"], <<NUL>>, mode)
  /\ Encodes(FIELD_LEN["size"], <<NUL>>, size)

WrittenHeader(block, prefix, name, mode, size, typeflag, link_path) ==
  LET octal(f, value) == Octal(FIELD_LEN[f], <<NUL>>, value)
  IN  encode_checksum(
        [ block EXCEPT
            !["name"]     = Overlay(@, name),
            !["prefix"]   = Overlay(@, prefix),
            !["linkname"] = IF Len(link_path) <= Len(@) THEN Overlay(@, link_path) ELSE @,
            !["mode"]     = octal("mode", mode),
            !["uid"]      = octal("uid", 0),
            !["gid"]      = octal("gid", 0),
            !["size"]     = octal("size", size),
            !["mtime"]    = octal("mtime", 0),
            !["devmajor"] = octal("devmajor", 0),
            !["devminor"] = octal("devminor", 0),
            !["typeflag"] = <<typeflag>>,
            !["identity"] = Overlay(@, USTAR) ])

(* ParsedHeader::try_from_framed                                           *)
HeaderParses(block) ==
  /\ trim_nul(block["identity"]) = USTAR
  /\ parse_octal(block["checksum"]) = checksum(block)
  /\ parse_octal(block["size"]) # None

(* HeaderFrame::ustar, but for the size: wholly NUL numbers are allowed,   *)
(* the names of owners must end within their fields.                       *)
FieldsParse(block) ==
  /\ \A f \in {"mode", "uid", "gid", "mtime"} :
       parse_octal(block[f]) # None \/ block[f] = Filled(NUL, FIELD_LEN[f])
  /\ \A f \in {"uname", "gname"} : \E i \in 1..Len(block[f]) : block[f][i] = NUL

(* copy_header_path_into                                                   *)
HeaderPath(block) ==
  LET name   == trim_nul(block["name"])
      prefix == trim_nul(block["prefix"])
  IN  IF prefix = <<>> THEN name ELSE prefix \o <<Slash>> \o name
=============================================================================
