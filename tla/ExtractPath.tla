------------------------------ MODULE ExtractPath ------------------------------
(***************************************************************************)
(* The paths of an archive as extraction reads them.  A string is the      *)
(* nonempty sequence of the pieces its slashes separate: "a/../" is        *)
(* <<"a", "..", "">>, and the empty string is <<"">>.  A normalized path   *)
(* is a sequence of names, and <<>> is the extraction root.                *)
(***************************************************************************)
EXTENDS Integers, Sequences, FiniteSets, SequencesExt

Backslash == "\\"    \* a piece with a backslash in it

IsName(piece) == piece \notin {"", ".", ".."}

(* The pieces that are names, in their order.                              *)
Names(value) ==
  LET names[n \in 0..Len(value)] ==
        IF n = 0 THEN <<>>
        ELSE IF IsName(value[n]) THEN Append(names[n - 1], value[n]) ELSE names[n - 1]
  IN  names[Len(value)]

(* How many lead up to a parent directory.                                 *)
Ascents(value) == Cardinality({ i \in 1..Len(value) : value[i] = ".." })

(* A normalized path; parent of the root is the root.                      *)
parent(path)           == Front(path)
starts_with(path, base) == IsPrefix(base, path)
root                   == <<>>

Refused      == [ok |-> FALSE, path |-> root]
Decoded(path) == [ok |-> TRUE, path |-> path]

(* Fault: an absolute path passes.                                         *)
AbsoluteAllowed(value) == ~Contains(value, Backslash)
(* validate_extraction_path, where a path has no prefix                    *)
validate_extraction_path(value) ==
  /\ ~Contains(value, Backslash)
  /\ ~(Len(value) > 1 /\ value[1] = "")

normalize_member_path(value) ==
  IF validate_extraction_path(value) /\ ~Contains(value, "..")
  THEN Decoded(Names(value)) ELSE Refused

(* The end of a string says that it leads to a directory.                  *)
DirectorySuffix(value) == Len(value) > 1 /\ Last(value) \in {"", ".", ".."}

(* decode_member: what is wrong with a member, and where it goes           *)
decode_member(member) ==
  LET decoded == normalize_member_path(member.path)
      error ==
        IF \/ member.kind # "Directory" /\ DirectorySuffix(member.path)
           \/ ~decoded.ok
           \/ member.kind # "Directory" /\ decoded.path = root
        THEN "UnsafePath"
        ELSE IF member.kind \in {"SymbolicLink", "HardLink"} /\ member.target = <<"">>
        THEN "InvalidLink"
        ELSE "None"
  IN  [error |-> error, path |-> decoded.path]

(* ".." after a name: where it leads depends on what the name is.          *)
IsAmbiguous(value) ==
  \E i, j \in 1..Len(value) : i < j /\ IsName(value[i]) /\ value[j] = ".."

(* validate_symlink_target, of the link at "path"                          *)
validate_symlink_target(path, value) ==
  LET base == parent(path)
      up   == Ascents(value)
  IN  IF \/ ~validate_extraction_path(value)
         \/ IsAmbiguous(value)
         \/ up > Len(base)
      THEN Refused
      ELSE Decoded(SubSeq(base, 1, Len(base) - up) \o Names(value))

(* Fault: only a slash asks for a directory.                               *)
SlashSuffix(value) == Len(value) > 1 /\ Last(value) = ""
requires_directory(value) ==
  SlashSuffix(value) \/ Last(value) \in {".", ".."}

(* resolve_link_target: ".." is lexical here, for no file system is asked  *)
resolve_link_target(value, base) ==
  LET step(at, piece) ==
        IF ~at.ok THEN at
        ELSE CASE piece = ".." -> IF at.path = root THEN Refused ELSE Decoded(parent(at.path))
               [] IsName(piece) -> Decoded(Append(at.path, piece))
               [] OTHER -> at
  IN  IF validate_extraction_path(value)
      THEN FoldLeft(step, Decoded(base), value) ELSE Refused
================================================================================
