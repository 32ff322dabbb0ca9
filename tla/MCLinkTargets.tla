----------------------------- MODULE MCLinkTargets -----------------------------
(***************************************************************************)
(* Archives of up to three members over two names, with links at the root  *)
(* and one level below it; a few spellings of each path, and targets of    *)
(* every kind the checks tell apart.                                       *)
(***************************************************************************)
EXTENDS LinkTargetsClient

MCNameBytes == [name \in {"a", "b", "c"} |-> IF name = "b" THEN 2 ELSE 1]

MCPolicies ==
  { [allow_overwrites |-> overwrites, allow_ambient_targets |-> ambient,
     allow_missing_targets |-> missing] :
      overwrites \in BOOLEAN, ambient \in {FALSE}, missing \in BOOLEAN }
  \cup { [allow_overwrites |-> FALSE, allow_ambient_targets |-> TRUE,
          allow_missing_targets |-> FALSE] }

Member(kind, path, target) == [kind |-> kind, path |-> path, target |-> target]

Targets ==
  { <<"">>, <<".">>, <<"..">>, <<"a">>, <<"b">>, <<"a", "">>, <<"b", ".">>, <<"b", "a">>,
    <<"..", "b">>, <<"..", "..", "b">>, <<"..", "b", "a", "">>, <<"a", "..">>, <<"a", "..", "b">>, <<"..", "..", "a">>,
    <<"", "a">>, <<Backslash>> }

MCMembers ==
  { Member("Directory", path, <<"">>) : path \in { <<"a", "">>, <<".", "b">>, <<".">> } }
  \cup { Member("File", path, <<"">>) :
           path \in { <<"b">>, <<"a", "", "a">>, <<"a", "">>, <<".">>, <<"..", "a">> } }
  \cup { Member("SymbolicLink", path, target) :
           path \in { <<"a">>, <<"b">>, <<"a", "a">>, <<"a", "b">>, <<"a", "a", "b">>, <<"b", "a">> }, target \in Targets }
  \cup { Member("HardLink", <<"b", "b">>, target) :
           target \in { <<"">>, <<"b", "..", "a", "a">>, <<"a", "..", "..">>, <<"b">> } }
================================================================================
