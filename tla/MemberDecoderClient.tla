-------------------------- MODULE MemberDecoderClient --------------------------
(***************************************************************************)
(* What the decoder promises of the members it hands out, told from the    *)
(* headers of the archive alone.                                           *)
(***************************************************************************)
EXTENDS MemberDecoder

DecoderSpec == DecoderInit /\ [][DecoderNext]_decoderVars

-----------------------------------------------------------------------------
(* The reference: the records that speak of position p, in archive order,  *)
(* are those of the global headers before it, and of the headers that      *)
(* stand directly before it and are not global.                            *)

Speaks(q, p) ==
  \/ headers[q].type = "Global"
  \/ \A r \in q..(p - 1) : headers[r].type \in {"Local", "Gnu"}

Heard(p) ==
  FlattenSeq([ q \in 1..(p - 1) |-> IF Speaks(q, p) THEN headers[q].records ELSE <<>> ])

LastWord(records, keyword) ==
  LET last == { i \in DOMAIN records :
                  /\ records[i].keyword = keyword
                  /\ \A j \in (i + 1)..Len(records) : records[j].keyword # keyword }
  IN  IF last = {} THEN "absent" ELSE records[CHOOSE i \in last : TRUE].value

Allowed(header) ==
  /\ header.family = "Gnu" => policy.allow_gnu
  /\ header.type = "Global" =>
       /\ policy.allow_global_pax_extensions
       /\ \/ policy.allow_global_pax_member_metadata
          \/ \A r \in Range(header.records) : r.keyword \notin {"path", "linkpath", "size"}
  /\ \A r \in Range(header.records) :
       r.keyword = "vendor" =>
         /\ policy.allow_vendor
         /\ policy.allow_non_utf8_pax_vendor_values \/ r.value # "raw"
  /\ \/ policy.allow_duplicate_pax_records
     \/ Cardinality({ r.keyword : r \in Range(header.records) }) = Len(header.records)

-----------------------------------------------------------------------------
(* A member's path and size are the last that the archive says of it: the  *)
(* last record of the keyword in all the global headers so far and in its  *)
(* own, where a deletion is a word too, and the header block only if there *)
(* is none.  The code merges the global headers in place, in two copies,   *)
(* as they come, and looks at the local records apart.                     *)
MetadataIsLastWord ==
  out.type = "Member" =>
    LET heard == Heard(out.position)
        own   == headers[out.position].records
    IN  /\ out.path = LastWord(own \o heard, "path")
        /\ out.size = LastWord(heard, "size")

(* A member is handed out only after headers that are all allowed, also    *)
(* global ones of long ago and those read by a call that was dropped; a    *)
(* rejection names the first header that is not, though the headers are    *)
(* not checked in their order, and no member comes after it.               *)
PolicyIsExact ==
  LET first(p) == \A q \in 1..(p - 1) : Allowed(headers[q])
  IN  CASE out.type = "Member"          -> first(out.position + 1)
        [] out.type = "PolicyViolation" -> first(out.position) /\ ~first(out.position + 1)
        [] OTHER                        -> TRUE

(* A name that is not UTF-8 passes the parser only where the charset the   *)
(* archive last declared, in the header itself or in a global one before,  *)
(* is binary; a deleted charset is UTF-8 again.                            *)
RawNamesNeedBinary ==
  \A p \in 1..Len(headers) :
    /\ headers[p].type \in {"Global", "Local"}
    /\ p < Len(headers) \/ p \in Range(pending_extensions.global_pax
                                         \o pending_extensions.local_pax)
    /\ \E r \in Range(headers[p].records) : r.keyword \in Encoded /\ r.value = "raw"
    => LastWord(Heard(p) \o headers[p].records, "hdrcharset") = "binary"

=============================================================================
