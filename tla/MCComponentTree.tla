---------------------------- MODULE MCComponentTree ----------------------------
(***************************************************************************)
(* Every order of calls on trees of up to four nodes: chains of three      *)
(* components, siblings, and states that replace one another.              *)
(***************************************************************************)
EXTENDS ComponentTree
=============================================================================
