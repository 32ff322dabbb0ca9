------------------------------ MODULE LinkTargets ------------------------------
(***************************************************************************)
(* The symbolic links of an extraction, with their targets as written:     *)
(* members are read one by one, links are kept for the end, then each is   *)
(* judged against the whole graph and only then are any created.           *)
(*                                                                         *)
(* The destination is empty at first and the file system does not fail;    *)
(* Extraction has what lies there before, names that fold together, and    *)
(* failures, with targets already resolved.                                *)
(***************************************************************************)
EXTENDS Integers, Sequences, FiniteSets, FiniteSetsExt, ExtractPath

CONSTANTS
  Members,                   \* the members an archive may hold
  Policies,                  \* the policies it may be extracted under
  NameBytes,                 \* the length of each name
  MAX_MEMBERS,               \* bound: the members of an archive
  MAX_SYMLINK_EXPANSIONS,
  MAX_SYMLINK_RESOLUTION_WORK_BYTES

(* A text is a sequence of the pieces between its slashes.                 *)
Name  == DOMAIN NameBytes
Piece == Name \cup {"", ".", "..", Backslash}

ASSUME LinkTargetsAssumption ==
  /\ {MAX_MEMBERS, MAX_SYMLINK_EXPANSIONS, MAX_SYMLINK_RESOLUTION_WORK_BYTES} \subseteq Nat
  /\ \A name \in Name : IsName(name) /\ name # Backslash /\ NameBytes[name] \in Nat
  /\ Members \subseteq [kind : {"File", "Directory", "SymbolicLink", "HardLink"},
                         path : Seq(Piece) \ {<<>>}, target : Seq(Piece) \ {<<>>}]

VARIABLES
  policy,
  entries,     \* the state of each path the archive has made
  symlinks,    \* the links reserved so far
  disk,        \* what is in the destination, by path
  phase,       \* "Members", "Judge", "Create", "Done", or how it ended:
               \* the error of a member, or "Refused" or "Limit" of a link
  at,          \* the next member, or link, to be handled
  work,        \* resolution_work_bytes
  judged       \* what the accepted links lead to

vars == <<policy, entries, symlinks, disk, phase, at, work, judged>>

State(kind)   == [kind |-> kind, index |-> 0]
Symlink(index) == [kind |-> "Symlink", index |-> index]
Directory     == [type |-> "Directory", target |-> <<>>]
File          == [type |-> "File", target |-> <<>>]
Link(target)  == [type |-> "Link", target |-> target]

NoEntries == [path \in {} |-> State("None")]

Init ==
  /\ policy \in Policies
  /\ entries = NoEntries
  /\ symlinks = <<>>
  /\ disk = [path \in {} |-> Directory]
  /\ phase = "Members"
  /\ at = 1
  /\ work = 0
  /\ judged = <<>>

StateOf(path) == IF path \in DOMAIN entries THEN entries[path] ELSE State("None")

IsDirectory(path) == path = root \/ StateOf(path).kind = "CreatedDirectory"

With(f, path, value) == [p \in DOMAIN f \cup {path} |-> IF p = path THEN value ELSE f[p]]
Without(f, path)     == [p \in DOMAIN f \ {path} |-> f[p]]

-----------------------------------------------------------------------------
(* One member.                                                             *)

StrictPrefixes(path) == { SubSeq(path, 1, n) : n \in 1..(Len(path) - 1) }

HasActiveChildren(path) == \E p \in DOMAIN entries : path \in StrictPrefixes(p)

(* ensure_parents creates them, or finds that one is no directory          *)
ParentsCollide(path) ==
  \E p \in StrictPrefixes(path) : p \in DOMAIN entries /\ ~IsDirectory(p)

(* replace_leaf: what is at the path goes, if it may                       *)
LeafCollides(path) ==
  path \in DOMAIN entries /\ ~(policy.allow_overwrites /\ ~HasActiveChildren(path))

Collides(path, kind) ==
  \/ ParentsCollide(path)
  \/ LeafCollides(path) /\ ~(kind = "Directory" /\ IsDirectory(path))

(* The entry, and the nodes on the disk: a link has none yet.              *)
Settle(path, state, nodes) ==
  LET new == StrictPrefixes(path) \ DOMAIN entries
  IN  /\ entries' = [p \in DOMAIN entries \cup new \cup {path} |->
                       IF p = path THEN state
                       ELSE IF p \in new THEN State("CreatedDirectory") ELSE entries[p]]
      /\ disk' = [p \in (DOMAIN disk \ {path}) \cup new \cup DOMAIN nodes |->
                    IF p \in DOMAIN nodes THEN nodes[p]
                    ELSE IF p \in new THEN Directory ELSE disk[p]]

Node(path, node) == [p \in {path} |-> node]

Fail(error) ==
  /\ phase' = error
  /\ UNCHANGED <<policy, entries, symlinks, disk, at, work, judged>>

Extracted(path, kind, state, nodes) ==
  IF Collides(path, kind) THEN Fail("PathCollision")
  ELSE /\ Settle(path, state, nodes)
       /\ at' = at + 1
       /\ UNCHANGED <<policy, phase, work, judged>>

ExtractFile(path) ==
  /\ Extracted(path, "File", State("File"), Node(path, File))
  /\ UNCHANGED symlinks

ExtractDirectory(path) ==
  IF path = root
  THEN at' = at + 1 /\ UNCHANGED <<policy, entries, symlinks, disk, phase, work, judged>>
  ELSE /\ Extracted(path, "Directory", State("CreatedDirectory"), Node(path, Directory))
       /\ UNCHANGED symlinks

ReserveSymlink(path, value) ==
  LET target == validate_symlink_target(path, value)
      link   == [path |-> path, target |-> value, resolved_target |-> target.path,
                 requires_directory |-> requires_directory(value)]
  IN  IF ~target.ok THEN Fail("UnsafePath")
      ELSE IF Collides(path, "SymbolicLink") THEN Fail("PathCollision")
      ELSE /\ Settle(path, Symlink(Len(symlinks) + 1), [p \in {} |-> File])
           /\ symlinks' = Append(symlinks, link)
           /\ at' = at + 1
           /\ UNCHANGED <<policy, phase, work, judged>>

ExtractHardLink(path, value) ==
  LET target == resolve_link_target(value, root)
  IN  CASE ~target.ok -> Fail("UnsafePath")
        [] target.ok /\ (StateOf(target.path).kind # "File" \/ starts_with(path, target.path)) ->
             Fail("InvalidLink")
        [] OTHER -> ExtractFile(path)

ReadMember ==
  /\ phase = "Members"
  /\ at <= MAX_MEMBERS
  /\ \E member \in Members :
       LET decoded == decode_member(member)
       IN  \/ decoded.error # "None" /\ Fail(decoded.error)
           \/ decoded.error = "None" /\ member.kind = "File" /\ ExtractFile(decoded.path)
           \/ decoded.error = "None" /\ member.kind = "Directory"
              /\ ExtractDirectory(decoded.path)
           \/ decoded.error = "None" /\ member.kind = "SymbolicLink"
              /\ ReserveSymlink(decoded.path, member.target)
           \/ decoded.error = "None" /\ member.kind = "HardLink"
              /\ ExtractHardLink(decoded.path, member.target)

EndMembers ==
  /\ phase = "Members"
  /\ phase' = "Judge"
  /\ at' = 1
  /\ UNCHANGED <<policy, entries, symlinks, disk, work, judged>>

-----------------------------------------------------------------------------
(* finalize_symlinks.                                                      *)

Total(numbers) ==
  LET sum[n \in 0..Len(numbers)] == IF n = 0 THEN 0 ELSE sum[n - 1] + numbers[n]
  IN  sum[Len(numbers)]

Length(path) == Total([n \in 1..Len(path) |-> NameBytes[path[n]] + 1])

(* The bytes of a path as text, with slashes between its names.            *)
Bytes(path) == IF path = root THEN 0 ELSE Length(path) - 1

(* check_symlink_resolution_limit: twice the path and each of its prefixes *)
WorkBytes(path) ==
  2 * Bytes(path) + Total([n \in 1..Len(path) |-> Length(SubSeq(path, 1, n))])

(* Fault: a walk stops at a file even when the path ends there.            *)
AnyFileStops(path) ==
  { n \in 1..Len(path) : StateOf(SubSeq(path, 1, n)).kind \in {"Symlink", "File"} }
(* The components a walk over the entries stops at: a link, or a file with *)
(* more to come.                                                           *)
Stops(path) ==
  { n \in 1..Len(path) :
      LET kind == StateOf(SubSeq(path, 1, n)).kind
      IN  kind = "Symlink" \/ (kind = "File" /\ n < Len(path)) }

(* Where a path with no link in it ends.                                   *)
Terminal(path) ==
  CASE path = root                                -> "Directory"
    [] StateOf(path).kind = "CreatedDirectory"    -> "Directory"
    [] StateOf(path).kind = "File"                -> "File"
    [] OTHER                                      -> "Unowned"

(* One turn of the loop of resolve_terminal.                               *)
Expansion(walk) ==
  LET path  == walk.path
      spent == walk.work + WorkBytes(path)
      stop  == Min(Stops(path))
      kind  == StateOf(SubSeq(path, 1, stop)).kind
      index == StateOf(SubSeq(path, 1, stop)).index
      next  == [walk EXCEPT !.work = spent, !.visited = @ \cup {path}]
  IN  IF spent > MAX_SYMLINK_RESOLUTION_WORK_BYTES THEN [walk EXCEPT !.end = "Limit"]
      ELSE IF path \in walk.visited THEN [next EXCEPT !.end = "Cycle"]
      ELSE IF Stops(path) = {} THEN [next EXCEPT !.end = Terminal(path)]
      ELSE IF kind = "File" THEN [next EXCEPT !.end = "Dangling"]
      ELSE [next EXCEPT !.path = symlinks[index].resolved_target
                                   \o SubSeq(path, stop + 1, Len(path))]

(* Fault: each link has a budget of its own.                               *)
FreshBudget(path, spent) ==
  [path |-> path, work |-> 0, visited |-> {}, end |-> "Going"]
StartOf(path, spent) ==
  [path |-> path, work |-> spent, visited |-> {}, end |-> "Going"]

ResolveTerminal(path) ==
  LET walk[n \in 0..(MAX_SYMLINK_EXPANSIONS + 1)] ==
        IF n = 0 THEN StartOf(path, work)
        ELSE LET last == walk[n - 1]
             IN  IF last.end = "Going" THEN Expansion(last) ELSE last
      last == walk[MAX_SYMLINK_EXPANSIONS + 1]
  IN  IF last.end = "Going" THEN [last EXCEPT !.end = "Limit"] ELSE last

(* inspect_ambient_target: there are no links in the destination yet       *)
AmbientKind(path) == IF path \in DOMAIN disk THEN disk[path].type ELSE "Dangling"

IsActive(i) == StateOf(symlinks[i].path) = Symlink(i)

(* What becomes of a link whose target resolves to "end".                  *)
Verdict(link, walk) ==
  LET kind == IF walk.end = "Unowned" THEN AmbientKind(walk.path) ELSE walk.end
  IN  IF \/ walk.end \in {"Limit", "Cycle"}
         \/ /\ walk.end = "Unowned"
            /\ ~policy.allow_ambient_targets
            /\ ~policy.allow_missing_targets \/ kind # "Dangling"
         \/ kind = "Dangling" /\ ~policy.allow_missing_targets
         \/ kind = "File" /\ link.requires_directory
      THEN "Refused" ELSE kind

JudgeLink ==
  /\ phase = "Judge"
  /\ at <= Len(symlinks)
  /\ \/ /\ ~IsActive(at)
        /\ at' = at + 1
        /\ UNCHANGED <<phase, work, judged>>
     \/ /\ IsActive(at)
        /\ LET walk == ResolveTerminal(symlinks[at].resolved_target)
               verdict == Verdict(symlinks[at], walk)
           IN  /\ work' = walk.work
               /\ \/ verdict = "Refused" /\ UNCHANGED <<at, judged>>
                     /\ phase' = IF walk.end = "Limit" THEN "Limit" ELSE "Refused"
                  \/ /\ verdict # "Refused"
                     /\ judged' = Append(judged, [link |-> at, kind |-> verdict])
                     /\ at' = at + 1
                     /\ UNCHANGED phase
  /\ UNCHANGED <<policy, entries, symlinks, disk>>

EndJudge ==
  /\ phase = "Judge"
  /\ at > Len(symlinks)
  /\ phase' = "Create"
  /\ at' = 1
  /\ UNCHANGED <<policy, entries, symlinks, disk, work, judged>>

CreateLink ==
  /\ phase = "Create"
  /\ at <= Len(judged)
  /\ LET link == symlinks[judged[at].link]
     IN  disk' = With(disk, link.path, Link(link.target))
  /\ at' = at + 1
  /\ UNCHANGED <<policy, entries, symlinks, phase, work, judged>>

EndCreate ==
  /\ phase = "Create"
  /\ at > Len(judged)
  /\ phase' = "Done"
  /\ UNCHANGED <<policy, entries, symlinks, disk, at, work, judged>>

Next ==
  \/ ReadMember
  \/ EndMembers
  \/ JudgeLink
  \/ EndJudge
  \/ CreateLink
  \/ EndCreate

Spec == Init /\ [][Next]_vars
================================================================================
