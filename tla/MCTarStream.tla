---------------------------- MODULE MCTarStream ----------------------------
(* Archives of two-byte blocks in either family, headers of the other      *)
(* family and unsupported ones among them.                                 *)
EXTENDS TarStreamClient

CONSTANT a

MCSizes     == {0, 1, 3, 5}
MCTypeflags == {"x", "g", "L", "K", "Regular", "HardLink", "Directory", "Unsupported"}
Payload(path, size) == [path |-> path, size |-> size]
MCPaxPayloads ==
  { Payload(a, Absent), Payload(Absent, 2), Payload(Absent, Deleted), Payload(Absent, 0) }
MCNames     == {a}
=============================================================================
