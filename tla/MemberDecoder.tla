----------------------------- MODULE MemberDecoder -----------------------------
(***************************************************************************)
(* TarArchive (tar-codec, src/decode.rs) on top of the logical reader: it  *)
(* takes the extensions a member brings, checks them against DecodePolicy, *)
(* and projects the member; it is fused by its own errors, the reader by   *)
(* those of the framing.                                                   *)
(*                                                                         *)
(* The reader is what TarReader promises: headers in order, a call that    *)
(* may be dropped between any two and loses nothing.                       *)
(***************************************************************************)
EXTENDS PaxMetadata, SequencesExt

CONSTANTS
  DecodePolicies,    \* the policies
  RecordLists,       \* what a pax header may hold
  NameTexts,         \* what a name in a header block, or a GNU header, may be
  MaxHeaders         \* bound: headers in the archive

RecordType == [keyword : Keywords, value : STRING \ {"absent"}]

ASSUME DecoderAssumption ==
  /\ DecodePolicies \subseteq
       [allow_gnu : BOOLEAN, allow_vendor : BOOLEAN, allow_non_utf8_pax_vendor_values : BOOLEAN,
        allow_global_pax_extensions : BOOLEAN, allow_global_pax_member_metadata : BOOLEAN,
        allow_duplicate_pax_records : BOOLEAN]
  /\ RecordLists \subseteq Seq(RecordType)
  /\ NameTexts \subseteq STRING \ {"absent"}
  /\ MaxHeaders \in Nat

VARIABLES
  policy,                \* TarArchive.policy
  headers,               \* the headers read so far, as the archive has them
  format,                \* the family of the archive, once known
  global_pax_records,    \* the global records in force
  pending_extensions,    \* positions of the headers no member has taken yet
  reader,                \* "Boundary", "Payload", "Complete" or "Failed"
  fused,                 \* TarArchive.fused
  call,                  \* is next_member pending?
  out                    \* what the last call returned

decoderVars == <<policy, headers, format, global_pax_records, pending_extensions,
                 reader, fused, call, out>>

Kinds == {"File", "Directory", "HardLink", "SymbolicLink"}
Links == {"HardLink", "SymbolicLink"}

NoPending == [global_pax |-> <<>>, local_pax |-> <<>>, gnu |-> <<>>]

Pending == [type |-> "Pending"]
End     == [type |-> "End"]
Framing == [type |-> "Framing"]
InvalidUtf8(position)     == [type |-> "InvalidUtf8", position |-> position]
PolicyViolation(position) == [type |-> "PolicyViolation", position |-> position]
Member(kind, position, path, size) ==
  [type |-> "Member", kind |-> kind, position |-> position, path |-> path, size |-> size]

Header(type, family, records) == [type |-> type, family |-> family, records |-> records]
Record(keyword, value)        == [keyword |-> keyword, value |-> value]

DecoderInit ==
  /\ policy \in DecodePolicies
  /\ headers = <<>> /\ format = "Unknown"
  /\ global_pax_records = <<>> /\ pending_extensions = NoPending
  /\ reader = "Boundary" /\ fused = FALSE
  /\ call = "idle" /\ out = Pending

-----------------------------------------------------------------------------
(* How next_member ends.                                                   *)

Returns(o) == call' = "idle" /\ out' = o

(* Fault: a rejected member does not end the archive.                      *)
StaysOpen(o) == Returns(o) /\ UNCHANGED fused
Rejects(o) == Returns(o) /\ fused' = TRUE

ReaderFails == reader' = "Failed" /\ pending_extensions' = NoPending /\ Rejects(Framing)

-----------------------------------------------------------------------------
(* The policy.                                                             *)

Records(position) == headers[position].records

(* check_pax_records                                                       *)
RecordsPass(kind, records) ==
  /\ Occurrences(records, "vendor") # {} => policy.allow_vendor
  /\ ~policy.allow_non_utf8_pax_vendor_values =>
       \A i \in Occurrences(records, "vendor") : records[i].value # "raw"
  /\ kind = "Global" /\ ~policy.allow_global_pax_member_metadata =>
       \A i \in 1..Len(records) : records[i].keyword \notin {"path", "linkpath", "size"}
  /\ ~policy.allow_duplicate_pax_records =>
       \A i, j \in 1..Len(records) : records[i].keyword = records[j].keyword => i = j

(* check_global_pax                                                        *)
GlobalPasses(position) ==
  policy.allow_global_pax_extensions /\ RecordsPass("Global", Records(position))

LocalPasses(position) == RecordsPass("Local", Records(position))

FormatPasses(family) == family = "Gnu" => policy.allow_gnu

(* check_member: the headers it looks at, one after the other; the format  *)
(* is that of the first GNU header, or of the member.                      *)
Looked(position) ==
  pending_extensions.global_pax \o << Head(Append(pending_extensions.gnu, position)) >>
    \o pending_extensions.local_pax

Failures(family, position) ==
  LET globals == Len(pending_extensions.global_pax)
      fails(i, p) == \/ i <= globals     /\ ~GlobalPasses(p)
                     \/ i = globals + 1 /\ ~FormatPasses(family)
                     \/ i > globals + 1 /\ ~LocalPasses(p)
  IN  { i \in 1..Len(Looked(position)) : fails(i, Looked(position)[i]) }

-----------------------------------------------------------------------------
(* project_member                                                          *)

(* The records of the headers only this member takes.                      *)
OwnRecords ==
  LET own == pending_extensions.gnu \o pending_extensions.local_pax
  IN  FlattenSeq([ i \in 1..Len(own) |-> Records(own[i]) ])

EffectiveOf(keyword) == Effective(OwnRecords, global_pax_records, keyword)

(* A text: a record's, or that of the header block if there is none.       *)
Text(keyword, name) ==
  IF EffectiveOf(keyword) = "absent" THEN (IF keyword = "path" THEN name ELSE "header")
  ELSE EffectiveOf(keyword)

Texts(kind) == IF kind \in Links THEN <<"path", "linkpath">> ELSE <<"path">>

(* A deleted or empty name, or a GNU one without its NUL, is an error of   *)
(* the framing; one that is not UTF-8, of the decoder.                     *)
Unusable(kind, name) ==
  SelectSeq(Texts(kind), LAMBDA k : Text(k, name) \in {"", "malformed", "raw"})

Project(kind, position, name) ==
  IF Unusable(kind, name) = <<>>
  THEN /\ Returns(Member(kind, position, Text("path", name), EffectiveOf("size")))
       /\ UNCHANGED fused
  ELSE Rejects(IF Text(Head(Unusable(kind, name)), name) = "raw"
               THEN InvalidUtf8(position) ELSE Framing)

-----------------------------------------------------------------------------
(* next_member.                                                            *)

Read(header) == headers' = Append(headers, header) /\ format' = header.family
Here == Len(headers) + 1

(* One family to an archive, the first header's.                           *)
FormatMatches(family) == format \in {"Unknown", family}

CanRead == call = "next_member" /\ reader = "Boundary" /\ Len(headers) < MaxHeaders

CallNextMember ==
  /\ call = "idle"
  /\ \/ /\ fused \/ reader = "Failed"
        /\ Rejects(End)
     \/ /\ ~fused /\ reader # "Failed"
        /\ call' = "next_member" /\ out' = Pending
        /\ UNCHANGED fused
  /\ UNCHANGED <<policy, headers, format, global_pax_records, pending_extensions, reader>>

(* What is left of the last payload is drained first.                      *)
Drain ==
  /\ call = "next_member" /\ reader = "Payload"
  /\ reader' = "Boundary"
  /\ UNCHANGED <<policy, headers, format, global_pax_records, pending_extensions,
                 fused, call, out>>

(* A local header must be followed by its member.                          *)
NoLocal == pending_extensions.local_pax = <<>>

ReadGlobal(records) ==
  /\ CanRead /\ NoLocal /\ FormatMatches("Pax")
  /\ Read(Header("Global", "Pax", records))
  /\ IF Parses(records, GlobalCharset(global_pax_records))
     THEN /\ global_pax_records' = ApplyGlobal(global_pax_records, records)
          /\ pending_extensions' = [pending_extensions EXCEPT !.global_pax = Append(@, Here)]
          /\ UNCHANGED <<reader, fused, call, out>>
     ELSE ReaderFails /\ UNCHANGED global_pax_records
  /\ UNCHANGED policy

ReadLocal(records) ==
  /\ CanRead /\ NoLocal /\ FormatMatches("Pax")
  /\ Read(Header("Local", "Pax", records))
  /\ IF Parses(records, GlobalCharset(global_pax_records))
     THEN /\ pending_extensions' = [pending_extensions EXCEPT !.local_pax = <<Here>>]
          /\ UNCHANGED <<reader, fused, call, out>>
     ELSE ReaderFails
  /\ UNCHANGED <<policy, global_pax_records>>

(* A long name or a long link; each once.                                  *)
ReadGnu(keyword, text) ==
  /\ CanRead /\ FormatMatches("Gnu")
  /\ Occurrences(OwnRecords, keyword) = {}
  /\ Read(Header("Gnu", "Gnu", << Record(keyword, text) >>))
  /\ pending_extensions' = [pending_extensions EXCEPT !.gnu = Append(@, Here)]
  /\ UNCHANGED <<policy, global_pax_records, reader, fused, call, out>>

(* The framing resolves the size and has no use for a deleted one, for one *)
(* of a member without payload, and for a long link of no link.            *)
FramingAccepts(kind) ==
  /\ \/ EffectiveOf("size") = "absent"
     \/ EffectiveOf("size") # "" /\ kind \in {"File", "HardLink"}
  /\ pending_extensions.gnu # <<>> /\ EffectiveOf("linkpath") # "absent" => kind \in Links

(* next_frame returns a member, and next_member goes on without waiting.   *)
ReadMember(kind, family, name) ==
  /\ CanRead /\ FormatMatches(family)
  /\ Read(Header("Member", family, << Record("path", name) >>))
  /\ IF FramingAccepts(kind)
     THEN /\ reader' = "Payload" /\ pending_extensions' = NoPending
          /\ IF Failures(family, Here) # {}
             THEN Rejects(PolicyViolation(Looked(Here)[Min(Failures(family, Here))]))
             ELSE Project(kind, Here, name)
     ELSE ReaderFails
  /\ UNCHANGED <<policy, global_pax_records>>

ReadEnd ==
  /\ call = "next_member" /\ reader = "Boundary"
  /\ NoLocal /\ pending_extensions.gnu = <<>>
  /\ reader' = "Complete" /\ pending_extensions' = NoPending
  /\ Rejects(End)
  /\ UNCHANGED <<policy, headers, format, global_pax_records>>

(* Anything else the framing rejects, and every failed read.               *)
ReadFails ==
  /\ call = "next_member"
  /\ ReaderFails
  /\ UNCHANGED <<policy, headers, format, global_pax_records>>

(* The caller drops the future of next_member.                             *)
CancelNext ==
  /\ call = "next_member"
  /\ Returns(Pending)
  /\ UNCHANGED <<policy, headers, format, global_pax_records, pending_extensions, reader, fused>>

(* A chunk of the payload cannot be read.                                  *)
PayloadFails ==
  /\ call = "idle" /\ out.type = "Member" /\ out.kind \in {"File", "HardLink"}
  /\ reader' = "Failed" /\ out' = Framing
  /\ UNCHANGED <<policy, headers, format, global_pax_records, pending_extensions, fused, call>>

DecoderNext ==
  \/ CallNextMember
  \/ Drain
  \/ \E records \in RecordLists : ReadGlobal(records) \/ ReadLocal(records)
  \/ \E keyword \in {"path", "linkpath"}, text \in NameTexts : ReadGnu(keyword, text)
  \/ \E kind \in Kinds, family \in {"Pax", "Gnu"}, name \in NameTexts \ {"malformed"} :
       ReadMember(kind, family, name)
  \/ ReadEnd
  \/ ReadFails
  \/ CancelNext
  \/ PayloadFails
=============================================================================
