---------------------------- MODULE MCMemberFraming ----------------------------
(***************************************************************************)
(* Paths of up to seven characters, longer than a prefix and a name can    *)
(* hold; sizes around what the size field and u64 can hold; links that fit *)
(* their field, that fill it and that do not fit.                          *)
(***************************************************************************)
EXTENDS MemberFraming

MCFieldLen == [f \in Field |->
  CASE f = "mode" -> 4 [] f = "size" -> 4 [] f = "checksum" -> 8
    [] f = "name" -> 3 [] f = "prefix" -> 2 [] f = "linkname" -> 2
    [] f = "typeflag" -> 1 [] OTHER -> 2]

a == 97

Texts(characters, n) == UNION { [1..len -> characters] : len \in 0..n }

Paths == Texts({a, Slash}, 7) \cup Texts({a, Slash, Dot}, 4)

M(path, kind, size, link_path, executable) ==
  [path |-> path, kind |-> kind, size |-> size, link_path |-> link_path, executable |-> executable]

Sizes == {0, 1, 15, 16, 17, 511, 512, 513, 65519, 65520, 65535}

(* The first member leaves every field of the buffer as full as it can be. *)
Fillers ==
  { M(<<a, a, Slash, a, a, a>>, Regular, 511, <<>>, TRUE),
    M(<<a, a, Slash, a, a, a>>, SymbolicLink, 0, << <<a, a>> >>, FALSE),
    M(<<a, a, Slash, a, a, Slash>>, Directory, 0, <<>>, FALSE) }

All ==
  { M(path, Regular, 0, <<>>, FALSE) : path \in Paths }
    \cup { M(path, Directory, 0, <<>>, FALSE) : path \in Texts({a, Slash, Dot}, 2) }
    \cup { M(<<a>>, kind, size, <<>>, TRUE) : kind \in {Regular, Directory}, size \in Sizes }
    \cup { M(<<a>>, SymbolicLink, 0, <<link>>, FALSE) : link \in Texts({a, Slash}, 3) }
    \cup { M(<<a, NUL>>, Regular, 0, <<>>, FALSE), M(<<a>>, "Fifo", 0, <<>>, FALSE),
           M(<<a>>, SymbolicLink, 0, <<>>, FALSE), M(<<a>>, Regular, 0, << <<a>> >>, FALSE),
           M(Filled(a, 600), Regular, 0, <<>>, FALSE) }

MCMembers == <<Fillers, All>>
=============================================================================
