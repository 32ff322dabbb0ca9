---------------------------- MODULE MCPaxRecordText ----------------------------
(***************************************************************************)
(* Records whose lengths cross 10, 100 and 1000, values full of            *)
(* separators, keywords with and without a name and some that are none,    *)
(* and payloads with a sign, a leading zero, a length of zero, one that    *)
(* ends in its own digits, and one that reaches beyond the type.           *)
(***************************************************************************)
EXTENDS PaxRecordText

Named(namespace, name) == [namespace |-> namespace, name |-> name]

MCKeywords ==
  { Named(<<Letter>>, <<>>), Named(<<Letter, Dot>>, << <<Letter>> >>),
    Named(<<>>, <<>>), Named(<<Letter, Equals>>, <<>>), Named(<<Letter>>, << <<>> >>) }

MCValues ==
  { [i \in 1..n |-> Letter] : n \in {0, 1, 3, 4, 5, 91, 92, 93, 94, 990, 991, 992} }
    \cup { <<Equals>>, <<Newline>>, <<5, Space, Letter, Equals, Newline>> }

MCNoise == {6, Space, Equals, Newline, Raw}

MCForeign ==
  { <<Plus, 6, Space, Letter, Equals, Newline>>, <<0, 6, Space, Letter, Equals, Newline>>,
    <<0, Space, Newline>>, <<1, Newline, Space, Letter, Equals, Newline>>, <<2, Space>>,
    <<5, Space, Letter, Equals, Newline, 9, 9, 9, 9, Space>>, <<9, 9, 9, 9, 9, Space>> }
=============================================================================
