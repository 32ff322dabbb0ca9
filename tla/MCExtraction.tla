----------------------------- MODULE MCExtraction -----------------------------
(***************************************************************************)
(* Archives of a few members over the names a, b and c, extracted into an  *)
(* empty destination or one that holds a file, a directory or a link where *)
(* members go; x leads out of the root, and where links are extracted the  *)
(* disk takes c for a.  A file of one or two units is buffered, one of     *)
(* three is streamed; two files or three units fill a batch.               *)
(***************************************************************************)
EXTENDS ExtractionClient, TLC

CONSTANTS a, b, c, x

MCFold      == [n \in {a, b, c} |-> n]
MCFoldNames == [n \in {a, b, c} |-> IF n = c THEN a ELSE n]

AMember(path, kind, size, target, slash) ==
  [path |-> path, kind |-> kind, size |-> size, target |-> target,
   requires_directory |-> slash]

AFile(path, size)     == AMember(path, "File", size, <<>>, FALSE)
ADirectory(path)      == AMember(path, "Directory", 0, <<>>, FALSE)
ALink(path, target)   == AMember(path, "SymbolicLink", 0, target, FALSE)
ADirLink(path, target) == AMember(path, "SymbolicLink", 0, target, TRUE)
AHardLink(path, target, size) == AMember(path, "HardLink", size, target, FALSE)

MCFileMembers ==
  { AFile(<<a>>, 2), AFile(<<a>>, 3), AFile(<<b>>, 2), AFile(<<a, b>>, 1),
    ADirectory(<<a>>), AHardLink(<<b>>, <<a>>, 0), AHardLink(<<b>>, <<a>>, 1) }

MCLinkMembers ==
  { AFile(<<a>>, 1), AFile(<<a, b>>, 3), ADirectory(<<a>>),
    AFile(<<b, a>>, 1), ALink(<<a>>, <<b>>), ADirLink(<<b>>, <<a>>), ALink(<<a, a>>, <<b, a>>),
    AFile(<<c>>, 1), ALink(<<c>>, <<b>>) }

Empty == [p \in {} |-> Nothing]

MCDestinations ==
  { Empty, <<a>> :> File(0, 0), <<a>> :> Directory(0),
    (<<a>> :> Link(<<b>>, 0)) @@ (<<b>> :> Directory(0)) }

MCLinkDestinations ==
  { Empty, <<b>> :> File(0, 0), <<b>> :> Directory(0), <<b>> :> Link(<<a>>, 0),
    <<b>> :> Link(<<x>>, 0) }

Policy(overwrites, symlink, hard, ambient, missing) ==
  [allow_overwrites |-> overwrites, symlinks |-> symlink, allow_hard_links |-> hard,
   allow_ambient_targets |-> ambient, allow_missing_targets |-> missing]

MCFilePolicies == { Policy(TRUE, "Reject", TRUE, FALSE, TRUE),
                    Policy(FALSE, "Skip", TRUE, FALSE, TRUE) }
MCLinkPolicies == { Policy(TRUE, "Preserve", FALSE, FALSE, TRUE),
                    Policy(TRUE, "Preserve", FALSE, FALSE, FALSE),
                    Policy(FALSE, "Preserve", FALSE, TRUE, FALSE),
                    Policy(TRUE, "Skip", FALSE, FALSE, FALSE) }
=============================================================================
