---------------------------- MODULE MCTarReader ----------------------------
(* The logical reader over archives of a few two-byte blocks: payloads of  *)
(* one to three blocks, the last one padded, chunks of one or two blocks   *)
(* and drains of two, so that chunks are cut short, resumed by another     *)
(* call, and delivered block by block.                                     *)
EXTENDS TarReaderInv

CONSTANT a

MCSizes   == {0, 1, 3, 7}
MCTargets == {1, 4}
MCExtensionTypeflags == {"x", "g", "L", "K", "Regular", "HardLink"}
MCMemberTypeflags == {"Regular"}
Payload(path, size) == [path |-> path, size |-> size]
MCPaxPayloads == { Payload(a, Absent), Payload(Absent, 3), Payload(Deleted, Absent) }
MCNames   == {a}
=============================================================================
