------------------------------ MODULE MCSourceFiles ------------------------------
(***************************************************************************)
(* Files from empty to two and a half chunks, with the source's ratio of   *)
(* a chunk to the largest buffered file.  The trees put a streamed file    *)
(* before, between and after small ones, fill a group and leave one short. *)
(***************************************************************************)
EXTENDS SourceFiles

CONSTANTS empty, one, two, five

MCSize == [f \in Files |->
  CASE f = empty -> 0 [] f = one -> 1 [] f = two -> 2 [] f = five -> 5]

MCAdditions == { <<one, five, one, two>>, <<empty, one, one, five>>, <<five, empty, two>> }
=============================================================================
