--------------------------- MODULE LinkTargetsClient ---------------------------
(***************************************************************************)
(* What becomes of the links once the operating system follows them: it    *)
(* knows only the targets as written, resolves them one component at a     *)
(* time, and takes ".." from wherever a link has led it.                   *)
(***************************************************************************)
EXTENDS LinkTargets

CONSTANT
  MAX_LOOKUP_STEPS    \* bound: the components one lookup goes through before it fails

ASSUME LookupAssumption == MAX_LOOKUP_STEPS \in Nat

(* A path lookup over the nodes of a tree: it stands in the directory      *)
(* "dir", with the components "todo" still to go, until it has an end.     *)
Lookup(dir, todo) == [dir |-> dir, todo |-> todo, end |-> "Going"]

Ended(lookup, end) == [lookup EXCEPT !.end = end]

(* A lookup goes on with the text of a link, and then with what is left: a *)
(* text that begins with a slash starts at the root of the file system,    *)
(* which is outside of the destination.                                    *)
IsAbsolute(text) == Len(text) > 1 /\ Head(text) = ""

Through(dir, text, rest) ==
  IF IsAbsolute(text) THEN Ended(Lookup(dir, rest), "Outside") ELSE Lookup(dir, text \o rest)

(* One component.                                                          *)
LookupStep(tree, lookup) ==
  LET piece == Head(lookup.todo)
      rest  == Tail(lookup.todo)
      next  == Append(lookup.dir, piece)
  IN  CASE lookup.end # "Going"  -> lookup
        [] lookup.end = "Going" /\ lookup.todo = <<>> -> Ended(lookup, "Directory")
        [] OTHER ->
             CASE piece \in {"", "."} -> Lookup(lookup.dir, rest)
               [] piece = ".." ->
                    IF lookup.dir = root THEN Ended(lookup, "Outside")
                    ELSE Lookup(parent(lookup.dir), rest)
               [] IsName(piece) /\ next \notin DOMAIN tree -> Ended(lookup, "Dangling")
               [] OTHER ->
                    CASE tree[next].type = "Directory" -> Lookup(next, rest)
                      [] tree[next].type = "File" ->
                           Ended(lookup, IF rest = <<>> THEN "File" ELSE "Dangling")
                      [] tree[next].type = "Link" ->
                           Through(lookup.dir, tree[next].target, rest)

(* Where a lookup of the text of a link in the directory "dir" ends; it    *)
(* fails if it goes on and on.                                             *)
Follow(tree, dir, text) ==
  LET lookup[n \in 0..MAX_LOOKUP_STEPS] ==
        IF n = 0 THEN Through(dir, text, <<>>) ELSE LookupStep(tree, lookup[n - 1])
      end == lookup[MAX_LOOKUP_STEPS].end
  IN  IF end = "Going" THEN "Endless" ELSE end

LinksIn(tree) == { path \in DOMAIN tree : tree[path].type = "Link" }

LeadsTo(tree, path) == Follow(tree, parent(path), tree[path].target)

(***************************************************************************)
(* No link that is in the destination leads out of it, not even between    *)
(* the creation of two links, or when extraction stopped half way: no      *)
(* target is absolute, and the lexical checks on targets account for ".."  *)
(* behind other links.                                                     *)
(***************************************************************************)
LinksStayInside ==
  \A path \in LinksIn(disk) : LeadsTo(disk, path) # "Outside"

(***************************************************************************)
(* When extraction succeeds, each link leads where the resolution over     *)
(* the entries of the archive said it would, with all its links in place;  *)
(* none dangles unless the policy lets it.                                 *)
(***************************************************************************)
LinksLeadAsJudged ==
  phase = "Done" =>
    \A i \in 1..Len(judged) :
      LET end == LeadsTo(disk, symlinks[judged[i].link].path)
      IN  /\ end = judged[i].kind
          /\ end = "Dangling" => policy.allow_missing_targets

(* The tree there would be, were every link created.                       *)
Pending ==
  { i \in 1..Len(symlinks) : IsActive(i) }

Complete ==
  LET links == { symlinks[i].path : i \in Pending }
      target(path) == symlinks[CHOOSE i \in Pending : symlinks[i].path = path].target
  IN  [path \in DOMAIN disk \cup links |->
         IF path \in links THEN Link(target(path)) ELSE disk[path]]

(* A text that ends in a slash or a "." leads to a directory or nowhere.   *)
AsksForDirectory(text) == Len(text) > 1 /\ Last(text) \in {"", "."}

(* The text up to its last name, or the whole if it has none.              *)
WithoutSuffix(text) ==
  LET named == { n \in 1..Len(text) : IsName(text[n]) }
  IN  IF named = {} THEN text ELSE SubSeq(text, 1, Max(named))

(***************************************************************************)
(* A link is refused, other than for the limits on its resolution, only    *)
(* for what the operating system would find, were all links created: a     *)
(* cycle; nothing, where the policy wants a target; or nothing because the *)
(* text asks for a directory and what is there is a file, which no policy  *)
(* lets pass.  There is no ambient target to refuse in a destination that  *)
(* was empty: all it holds is of the archive.                              *)
(***************************************************************************)
RefusalIsDeserved ==
  phase = "Refused" =>
    LET link == symlinks[at]
        end  == LeadsTo(Complete, link.path)
    IN  \/ end = "Endless"
        \/ end = "Dangling" /\ ~policy.allow_missing_targets
        \/ end = "Dangling" /\ AsksForDirectory(link.target)
             /\ Follow(Complete, parent(link.path), WithoutSuffix(link.target)) = "File"

(* The bytes a resolution touches: each path it goes through is copied and *)
(* hashed, and its names are looked up as far as the first stop.           *)
BytesAt(path) ==
  LET stop == IF Stops(path) = {} THEN Len(path) ELSE Min(Stops(path))
  IN  2 * Bytes(path) + Length(SubSeq(path, 1, stop)) - stop

(* The path behind the link a path stops at.                               *)
Behind(path) ==
  LET stop  == Min(Stops(path))
      index == StateOf(SubSeq(path, 1, stop)).index
  IN  symlinks[index].resolved_target \o SubSeq(path, stop + 1, Len(path))

StopsAtLink(path) ==
  Stops(path) # {} /\ StateOf(SubSeq(path, 1, Min(Stops(path)))).kind = "Symlink"

BytesWalked(path) ==
  LET walk[n \in 0..(MAX_SYMLINK_EXPANSIONS + 1)] ==
        IF n = 0 THEN [path |-> path, bytes |-> BytesAt(path)]
        ELSE LET last == walk[n - 1]
             IN  IF ~StopsAtLink(last.path) THEN last
                 ELSE [path |-> Behind(last.path),
                       bytes |-> last.bytes + BytesAt(Behind(last.path))]
  IN  walk[MAX_SYMLINK_EXPANSIONS + 1].bytes

(***************************************************************************)
(* The paths that are copied, hashed and looked up to judge all the        *)
(* accepted links of an archive together have no more bytes than one       *)
(* extraction may use.                                                     *)
(***************************************************************************)
WorkIsBounded ==
  Total([i \in 1..Len(judged) |-> BytesWalked(symlinks[judged[i].link].resolved_target)])
    <= MAX_SYMLINK_RESOLUTION_WORK_BYTES
================================================================================
