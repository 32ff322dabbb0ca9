----------------------------- MODULE PaxRecordText -----------------------------
(***************************************************************************)
(* The text of pax records (tar-framing): append_pax_record of             *)
(* src/write.rs writes "length keyword=value\n", where the length counts   *)
(* its own digits, and the loop of PaxRecords::parse (src/pax.rs) takes a  *)
(* payload apart again, whoever wrote it.                                  *)
(*                                                                         *)
(* A byte is a digit, one of the separators, any other character, or Raw,  *)
(* which is no UTF-8.                                                      *)
(***************************************************************************)
EXTENDS PaxRecordLength

CONSTANTS
  Keywords,     \* with a namespace, and a name or <<>> for none
  Values,
  Foreign,      \* payloads of other writers
  Noise,        \* the bytes damage leaves
  MaxRecords,   \* bound: records appended
  MaxDamage,    \* bound: bytes replaced on the way
  Damageable    \* bound: length of a payload that is damaged

Digit   == 0..9
Space   == 10
Equals  == 11
Newline == 12
Dot     == 13
Plus    == 14
Letter  == 15
Raw     == 16
Byte    == 0..16

(* A keyword is a string, a payload of others no longer than memory.       *)
ASSUME TextAssumption ==
  /\ Keywords \subseteq [namespace : Seq(Byte \ {Raw}), name : Seq(Seq(Byte \ {Raw}))]
  /\ Values \subseteq Seq(Byte) /\ Foreign \subseteq Seq(Byte)
  /\ \A foreign \in Foreign : Len(foreign) <= USIZE_MAX
  /\ Noise \subseteq Byte
  /\ MaxRecords \in Nat /\ MaxDamage \in Nat /\ Damageable \in Nat

VARIABLES
  stage,      \* "writing", "parsing", or how the parse ended
  payload,    \* the payload of an extended header
  cursor,     \* bytes of it parsed
  records,    \* the records parsed
  written,    \* history: the records appended, each with the length it states
  damage      \* history: bytes replaced or cut off

textVars == <<stage, payload, cursor, records, written, damage>>

TextInit ==
  /\ stage = "writing" /\ cursor = 0 /\ records = <<>> /\ written = <<>> /\ damage = 0
  /\ payload \in Foreign \cup {<<>>}

-----------------------------------------------------------------------------
(* Writing.                                                                *)

KeywordText(keyword) ==
  IF keyword.name = <<>> THEN keyword.namespace
  ELSE keyword.namespace \o <<Dot>> \o keyword.name[1]

RecordText(keyword, value, len) ==
  Decimal(len) \o <<Space>> \o KeywordText(keyword) \o <<Equals>> \o value \o <<Newline>>

Occurs(byte, text) == \E i \in 1..Len(text) : text[i] = byte

IsKeyword(keyword) ==
  /\ keyword.namespace # <<>> /\ ~Occurs(Equals, keyword.namespace)
  /\ \A n \in 1..Len(keyword.name) :
       keyword.name[n] # <<>> /\ ~Occurs(Equals, keyword.name[n])

(* A keyword that is none, or an overflow, leaves the output as it was.    *)
AppendPaxRecord(keyword, value) ==
  LET keyword_len == Len(KeywordText(keyword))
      len         == record_len(keyword_len, Len(value))
  IN  /\ stage = "writing" /\ Len(written) < MaxRecords /\ damage = 0
      /\ written # <<>> \/ payload = <<>>
      /\ IsKeyword(keyword)
      /\ LengthFits(keyword_len, Len(value))
      /\ Len(payload) + len <= USIZE_MAX
      /\ payload' = payload \o RecordText(keyword, value, len)
      /\ written' = Append(written, [keyword |-> KeywordText(keyword), value |-> value, len |-> len])
      /\ UNCHANGED <<stage, cursor, records, damage>>

-----------------------------------------------------------------------------
(* On the way to the reader.                                               *)

Damages ==
  /\ stage = "writing" /\ damage < MaxDamage /\ Len(payload) \in 1..Damageable
  /\ \/ \E i \in 1..Len(payload), byte \in Noise : payload' = [payload EXCEPT ![i] = byte]
     \/ payload' = SubSeq(payload, 1, Len(payload) - 1)
  /\ damage' = damage + 1
  /\ UNCHANGED <<stage, cursor, records, written>>

Arrives ==
  /\ stage = "writing"
  /\ stage' = IF payload = <<>> THEN "InvalidRecords" ELSE "parsing"
  /\ UNCHANGED <<payload, cursor, records, written, damage>>

-----------------------------------------------------------------------------
(* PaxRecords::parse: one turn of its loop.  Positions count from 1, and a *)
(* position before the text stands for "not found".                        *)

IsFirst(byte, from, i) ==
  payload[i] = byte /\ \A j \in from..(i - 1) : payload[j] # byte

First(byte, from, to) ==
  IF \E i \in from..to : IsFirst(byte, from, i)
  THEN CHOOSE i \in from..to : IsFirst(byte, from, i)
  ELSE 0

LengthEnd == First(Space, cursor + 1, Len(payload))
LengthText == SubSeq(payload, cursor + 1, LengthEnd - 1)

(* Fault: str::parse takes a sign as well.                                 *)
MaybeSigned(text) ==
  /\ text # <<>>
  /\ \A i \in 1..Len(text) : text[i] \in Digit \/ (i = 1 /\ text[i] = Plus)

AllDigits(text) == text # <<>> /\ \A i \in 1..Len(text) : text[i] \in Digit

(* What the digits say, or one too many for the type.                      *)
Number(text) ==
  LET value[i \in 0..Len(text)] ==
        IF i = 0 THEN 0
        ELSE LET more == 10 * value[i - 1] + (text[i] % Plus)
             IN  IF more > USIZE_MAX THEN USIZE_MAX + 1 ELSE more
  IN  value[Len(text)]

HasLength ==
  /\ LengthEnd # 0
  /\ AllDigits(LengthText)
  /\ Number(LengthText) \in 0..USIZE_MAX

RecordEnd == cursor + Number(LengthText)

(* Fault: any byte may end a record.                                       *)
AnyEnd == RecordEnd > cursor

NewlineTerminated == RecordEnd > cursor /\ payload[RecordEnd] = Newline

Framed == HasLength /\ RecordEnd <= Len(payload) /\ NewlineTerminated

EqualsAt == First(Equals, LengthEnd + 1, RecordEnd - 1)

KeywordRead == SubSeq(payload, LengthEnd + 1, EqualsAt - 1)
ValueRead   == SubSeq(payload, EqualsAt + 1, RecordEnd - 1)

HasKeyword == EqualsAt > LengthEnd + 1

Ends(how) == stage' = how /\ UNCHANGED <<cursor, records>>

ParseRecord ==
  /\ stage = "parsing" /\ cursor < Len(payload)
  /\ \/ HasLength /\ RecordEnd > USIZE_MAX /\ Ends("ArithmeticOverflow")
     \/ ~(HasLength /\ RecordEnd > USIZE_MAX) /\ ~Framed /\ Ends("InvalidRecords")
     \/ Framed /\ ~HasKeyword /\ Ends("InvalidRecords")
     \/ Framed /\ HasKeyword /\ Occurs(Raw, KeywordRead) /\ Ends("InvalidUtf8")
     \/ /\ Framed /\ HasKeyword /\ ~Occurs(Raw, KeywordRead)
        /\ records' = Append(records, [keyword |-> KeywordRead, value |-> ValueRead])
        /\ cursor' = RecordEnd
        /\ UNCHANGED stage
  /\ UNCHANGED <<payload, written, damage>>

Parsed ==
  /\ stage = "parsing" /\ cursor = Len(payload)
  /\ stage' = "ok"
  /\ UNCHANGED <<payload, cursor, records, written, damage>>

TextNext ==
  \/ \E keyword \in Keywords, value \in Values : AppendPaxRecord(keyword, value)
  \/ Damages \/ Arrives
  \/ ParseRecord \/ Parsed

TextSpec == TextInit /\ [][TextNext]_textVars

-----------------------------------------------------------------------------
(* The length written in front of a record is the number of its bytes,     *)
(* its own digits included: the records of an undamaged payload follow on  *)
(* each other.                                                             *)
LengthsAreExact ==
  \A n \in 1..Len(written) :
    written[n].len =
      Len(Decimal(written[n].len)) + Len(written[n].keyword) + Len(written[n].value) + 3

(* A record as its definition has it, without a cursor.                    *)
IsRecord(from, to) ==
  /\ payload[to] = Newline
  /\ \E s \in from..to :
       /\ payload[s] = Space
       /\ s > from /\ \A i \in from..(s - 1) : payload[i] \in Digit
       /\ Number(SubSeq(payload, from, s - 1)) = to - from + 1
       /\ \E e \in (s + 2)..to :
            /\ payload[e] = Equals
            /\ \A i \in (s + 1)..(e - 1) : payload[i] \notin {Equals, Raw}

(* A payload is accepted exactly when it is records from end to end; and   *)
(* what append_pax_record wrote is read back as it was, though a value may *)
(* hold separators, digits and newlines.                                   *)
ParsesExactlyRecords ==
  LET RecordsFrom[i \in 1..(Len(payload) + 1)] ==
        \/ i = Len(payload) + 1
        \/ \E j \in i..Len(payload) : IsRecord(i, j) /\ RecordsFrom[j + 1]
  IN  /\ stage \notin {"writing", "parsing"} =>
           (stage = "ok" <=> payload # <<>> /\ RecordsFrom[1])
      /\ stage = "ok" /\ written # <<>> /\ damage = 0 =>
           records = [n \in 1..Len(written) |->
                        [keyword |-> written[n].keyword, value |-> written[n].value]]

(* The slice behind the length is never one that ends before it starts,    *)
(* which would panic, however small the length a record states.            *)
SlicesStayInside == stage = "parsing" /\ Framed => LengthEnd <= RecordEnd - 1
=============================================================================
