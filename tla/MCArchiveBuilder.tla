--------------------------- MODULE MCArchiveBuilder ---------------------------
(***************************************************************************)
(* Archive construction over paths of one to three components: single      *)
(* files, a directory that later entries imply or repeat, and two source   *)
(* trees.  The first is walked in four batches, so that the producer      *)
(* comes to wait on a full channel, and holds a small file that fills a    *)
(* group, a streamed file of two chunks, an empty file and a link.         *)
(***************************************************************************)
EXTENDS ArchiveBuilderClient

CONSTANTS a, b, c, d

File(path, size) == [path |-> path, size |-> size, kind |-> "Regular"]
Directory(path)  == [path |-> path, size |-> 0, kind |-> "Directory"]
Link(path)       == [path |-> path, size |-> 0, kind |-> "SymbolicLink"]

MCEntries == { File(<<a>>, 3), File(<<a, b>>, 1), Directory(<<a>>), Directory(<<b, a>>) }
MCTrees ==
  { << Directory(<<a>>), File(<<a, b>>, 2), File(<<a, c>>, 3),
       Directory(<<a, d>>), File(<<a, d, a>>, 0), Link(<<a, d, b>>),
       File(<<a, d, c>>, 2), File(<<a, d, d>>, 1) >>,
    << Directory(<<b>>), File(<<b, c>>, 1), Link(<<b, d>>) >> }
=============================================================================
