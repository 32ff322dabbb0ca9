---------------------------- MODULE MCMemberDecoder ----------------------------
(***************************************************************************)
(* A small instance of MemberDecoderClient.                                *)
(***************************************************************************)
EXTENDS MemberDecoderClient

Everything == [allow_gnu |-> TRUE, allow_vendor |-> TRUE,
               allow_non_utf8_pax_vendor_values |-> TRUE,
               allow_global_pax_extensions |-> TRUE,
               allow_global_pax_member_metadata |-> TRUE,
               allow_duplicate_pax_records |-> TRUE]

(* DecodePolicy::default(), and what departs from it either way.           *)
MCPolicies ==
  { Everything,
    [Everything EXCEPT !.allow_vendor = FALSE, !.allow_global_pax_member_metadata = FALSE,
                       !.allow_duplicate_pax_records = FALSE],
    [Everything EXCEPT !.allow_gnu = FALSE, !.allow_global_pax_extensions = FALSE,
                       !.allow_non_utf8_pax_vendor_values = FALSE] }

R(keyword, value) == Record(keyword, value)

MCRecordLists ==
  { << R("path", "a") >>,
    << R("path", "raw"), R("hdrcharset", "binary") >>,
    << R("hdrcharset", ""), R("path", "raw") >>,
    << R("hdrcharset", "other") >>,
    << R("size", "1"), R("path", "b"), R("size", "2") >>,
    << R("size", ""), R("linkpath", "") >>,
    << R("vendor", "raw") >> }
=============================================================================
