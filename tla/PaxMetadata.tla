----------------------------- MODULE PaxMetadata -----------------------------
(***************************************************************************)
(* The records of pax extended headers (tar-framing, src/pax.rs): whether  *)
(* a payload parses, what a global header does to the records in force,    *)
(* and which record decides.                                               *)
(*                                                                         *)
(* A record is a keyword and a value: "" deletes, "raw" is a text that is  *)
(* not UTF-8, any other value is UTF-8 text.                               *)
(***************************************************************************)
EXTENDS Integers, Sequences

Encoded == {"path", "linkpath", "uname", "gname"}   \* subject to hdrcharset

(* PaxKeyword: the last three stand each for a keyword of its namespace.   *)
Keywords ==
  Encoded \cup {"atime", "charset", "comment", "ctime", "gid", "hdrcharset", "mtime", "size",
                "uid", "realtime", "security", "vendor"}

Occurrences(records, keyword) == { i \in 1..Len(records) : records[i].keyword = keyword }

(* Fault: the first record of a repeated keyword decides.                  *)
FirstOf(records, keyword) ==
  CHOOSE i \in Occurrences(records, keyword) :
    \A j \in Occurrences(records, keyword) : i <= j
(* PaxRecords::get                                                         *)
LastOf(records, keyword) ==
  CHOOSE i \in Occurrences(records, keyword) :
    \A j \in Occurrences(records, keyword) : j <= i

Get(records, keyword) ==
  IF Occurrences(records, keyword) = {} THEN "absent"
  ELSE records[LastOf(records, keyword)].value

(* hdrcharset(): absent or deleted, it is UTF-8.                           *)
GlobalCharset(global_records) ==
  IF Get(global_records, "hdrcharset") = "binary" THEN "binary" ELSE "utf8"

(* Fault: a deleted hdrcharset leaves what it was.                         *)
InheritsWhenDeleted(records, inherited) ==
  IF Get(records, "hdrcharset") \in {"absent", ""} THEN inherited
  ELSE Get(records, "hdrcharset")
(* resolve_hdrcharset: one charset for all records, whatever their order.  *)
Charset(records, inherited) ==
  CASE Get(records, "hdrcharset") = "absent" -> inherited
    [] Get(records, "hdrcharset") = ""       -> "utf8"
    [] OTHER                                 -> Get(records, "hdrcharset")

(* PaxRecords::parse, but for its grammar: an empty header, an unknown     *)
(* charset, and text that is not in the charset in force are rejected; a   *)
(* vendor may put in anything.                                             *)
Parses(records, inherited) ==
  /\ records # <<>>
  /\ \A i \in Occurrences(records, "hdrcharset") :
       records[i].value \in {"", "utf8", "binary"}
  /\ \A i \in 1..Len(records) :
       records[i].value = "raw" =>
         \/ records[i].keyword = "vendor"
         \/ records[i].keyword \in Encoded /\ Charset(records, inherited) = "binary"

(* One record of a global header: in place, or at the end.                 *)
ApplyOne(active, record) ==
  IF Occurrences(active, record.keyword) = {} THEN Append(active, record)
  ELSE [active EXCEPT ![LastOf(active, record.keyword)] = record]

(* GlobalPaxRecords::apply                                                 *)
ApplyGlobal(active, records) ==
  LET applied[i \in 0..Len(records)] ==
        IF i = 0 THEN active ELSE ApplyOne(applied[i - 1], records[i])
  IN  applied[Len(records)]

(* effective_record: local before global; a deletion counts as a record.   *)
Effective(local_records, global_records, keyword) ==
  IF Occurrences(local_records, keyword) # {} THEN Get(local_records, keyword)
  ELSE Get(global_records, keyword)
=============================================================================
