------------------------------ MODULE Extraction ------------------------------
(***************************************************************************)
(* Extraction of an archive (archive-trait, src/extract.rs and             *)
(* src/extract/root.rs): the loop over the members, the archive-owned      *)
(* state of the paths (ExtractionRoot), the batches of small files written *)
(* by one blocking task, and the symbolic links deferred to the end.       *)
(*                                                                         *)
(* What is left to do for the current member is a row of operations; each  *)
(* one ends in one change of the destination, and the future may be        *)
(* dropped between any two.  Every file system call may fail.  Nobody else *)
(* modifies the destination (Archive::extract_in demands it).              *)
(***************************************************************************)
EXTENDS DestinationTree

CONSTANTS
  Policies,                        \* ExtractPolicy and LinkPolicy
  Destinations,                    \* what the destination may hold beforehand
  Members,                         \* what an archive may hold
  MaxMembers,                      \* bound: members of the archive
  BUFFERED_PAYLOAD_MAX_BYTES,      \* a larger file is streamed
  BUFFERED_FILE_BATCH_MAX_ENTRIES,
  BUFFERED_FILE_BATCH_MAX_BYTES,
  MAX_SYMLINK_EXPANSIONS

(* decode_member: paths and targets are normalized, so that no name leads  *)
(* out of the root; only a directory is the root.                          *)
MemberType ==
  [path : Seq(DOMAIN Fold), kind : {"File", "Directory", "SymbolicLink", "HardLink"},
   size : Nat, target : Seq(DOMAIN Fold), requires_directory : BOOLEAN]

WasThere(node) == node \in {Directory(0), File(0, 0)} \/ node = Link(node.to, 0)

ASSUME ExtractionAssumption ==
  /\ {MaxMembers, BUFFERED_PAYLOAD_MAX_BYTES, MAX_SYMLINK_EXPANSIONS, MAX_LINKS} \subseteq Nat
  /\ {BUFFERED_FILE_BATCH_MAX_ENTRIES, BUFFERED_FILE_BATCH_MAX_BYTES} \subseteq Nat \ {0}
  /\ BUFFERED_PAYLOAD_MAX_BYTES <= BUFFERED_FILE_BATCH_MAX_BYTES
  /\ Policies \subseteq [allow_overwrites : BOOLEAN, symlinks : {"Preserve", "Reject", "Skip"},
                         allow_hard_links : BOOLEAN, allow_ambient_targets : BOOLEAN,
                         allow_missing_targets : BOOLEAN]
  /\ Members \subseteq MemberType /\ Outside \notin { Fold[n] : n \in DOMAIN Fold }
  /\ \A m \in Members : m.path = <<>> => m.kind = "Directory"
  /\ \A disk \in Destinations : \A p \in DOMAIN disk : p # <<>> /\ WasThere(disk[p])

VARIABLES
  policy,      \* the policy of this extraction
  members,     \* the members read
  entries,     \* ExtractionRoot.entries: the state of the paths that have one
  symlinks,    \* ExtractionRoot.symlinks
  handle,      \* ExtractionRoot.directory_handle
  buffered,    \* ExtractionRoot.buffered_files
  task,        \* the blocking task that writes a batch
  cancelled,   \* ExtractionRoot.buffered_file_cancellation
  todo,        \* what is left to do
  phase,       \* "running", "returned" or "dropped"
  result       \* what extract returns

rootVars == <<entries, symlinks, handle, buffered>>
callVars == <<todo, phase, result>>
extractionVars == <<diskVars, policy, members, rootVars, task, cancelled, callVars>>

Op(name, path) == [op |-> name, path |-> path]

NoTask == [files |-> <<>>, stage |-> "start", error |-> "None"]

ExtractionInit ==
  /\ policy \in Policies
  /\ fs \in Destinations
  /\ data = [i \in {0} |-> [by |-> 0, done |-> TRUE]]
  /\ members = <<>>
  /\ entries = <<>> /\ symlinks = <<>> /\ handle = NoHandle
  /\ buffered = <<>> /\ task = NoTask /\ cancelled = FALSE
  /\ todo = <<>> /\ phase = "running" /\ result = "Pending"

-----------------------------------------------------------------------------
(* The state of the paths: a ComponentTree of ExtractedEntry.              *)

Plain(kind) == [kind |-> kind, index |-> 0]

StateOf(p) ==
  IF p = <<>> THEN Plain("AmbientDirectory")
  ELSE IF p \in DOMAIN entries THEN entries[p] ELSE Plain("None")

IsDirectory(p) == StateOf(p).kind \in {"CreatedDirectory", "AmbientDirectory"}

HasActiveChildren(p) == \E q \in DOMAIN entries : Parent(q) = p

(* Fault: a directory that holds only deferred links may be replaced.      *)
CanAlwaysReplace(p) == policy.allow_overwrites
CanReplace(p) == policy.allow_overwrites /\ ~HasActiveChildren(p)

SetState(p, state) ==
  entries' = [q \in DOMAIN entries \cup {p} |-> IF q = p THEN state ELSE entries[q]]

ClearState(p) == entries' = [q \in DOMAIN entries \ {p} |-> entries[q]]

KnownParent(p) == \A q \in Prefixes(p) : IsDirectory(q)

-----------------------------------------------------------------------------
(* Control.                                                                *)

Current == Len(members)
Member  == members[Current]

Doing(name) == todo # <<>> /\ Head(todo).op = name
Path        == Head(todo).path
Spot        == Location(Path, handle)

(* After the future was dropped, only the call in flight completes.        *)
Then(ops) ==
  /\ todo' = IF phase = "dropped" THEN <<>> ELSE ops \o Tail(todo)
  /\ UNCHANGED <<phase, result>>

(* Fault: the files that wait for their batch are forgotten.               *)
FailsAtOnce(error) ==
  /\ todo' = IF phase = "dropped" THEN <<>> ELSE << Op("Return", <<>>) >>
  /\ result' = error
  /\ UNCHANGED phase

(* An error ends the loop; what is buffered is written before it returns.  *)
FailWith(error) ==
  /\ todo' = IF phase = "dropped" THEN <<>> ELSE << Op("Flush", <<>>), Op("Return", <<>>) >>
  /\ result' = error
  /\ UNCHANGED phase

Fails(error) == FailWith(error) /\ UNCHANGED <<diskVars, rootVars>>

Parents(p) == [n \in 1..(Len(p) - 1) |-> Op("Parent", SubSeq(p, 1, n))]

(* Fault: a large file does not wait for the small ones before it.         *)
Unordered(p) == <<>>
InOrder(p) == << Op("Flush", p) >>

(* Fault: what is in the way of a link is left there.                      *)
NotCleared(p) == <<>>
Cleared(p) == << Op("Replace", p) >>

(* extract_file, extract_directory, reserve_symlink, extract_hard_link     *)
Program(m) ==
  LET flush   == << Op("Flush", m.path) >>
      parents == Parents(m.path)
      replace == Cleared(m.path)
  IN  CASE m.kind = "File" /\ m.size <= BUFFERED_PAYLOAD_MAX_BYTES ->
             << Op("Payload", m.path), Op("Queue", m.path) >>
        [] m.kind = "File" /\ m.size > BUFFERED_PAYLOAD_MAX_BYTES ->
             InOrder(m.path) \o parents \o << Op("Create", m.path), Op("Write", m.path) >>
        [] m.kind = "Directory" ->
             flush \o IF m.path = <<>> THEN <<>> ELSE parents \o << Op("Directory", m.path) >>
        [] m.kind = "SymbolicLink" ->
             IF policy.symlinks = "Skip" THEN <<>>
             ELSE flush \o << Op("Target", m.path) >> \o parents
                    \o replace \o << Op("Reserve", m.path) >>
        [] m.kind = "HardLink" ->
             flush \o << Op("Target", m.path) >> \o parents \o replace
               \o << Op("Link", m.path) >>
               \o IF m.size = 0 THEN << Op("Payload", m.path) >>
                  ELSE << Op("Truncate", m.path), Op("Write", m.path) >>

Allowed(m) ==
  /\ m.kind = "SymbolicLink" => policy.symlinks # "Reject"
  /\ m.kind = "HardLink" => policy.allow_hard_links

(* members.next(), check_member_policy and decode_member; the text of any  *)
(* name may be rejected.                                                   *)
NextMember ==
  /\ todo = <<>> /\ phase = "running"
  /\ \/ /\ Current < MaxMembers
        /\ \E m \in Members :
             /\ members' = Append(members, m)
             /\ \/ FailWith("Policy")
                \/ Allowed(m) /\ todo' = Program(m) /\ UNCHANGED <<phase, result>>
     \/ FailWith("Archive") /\ UNCHANGED members
     \/ /\ todo' = << Op("Flush", <<>>), Op("Validate", <<>>) >>
        /\ UNCHANGED <<members, phase, result>>
  /\ UNCHANGED <<diskVars, rootVars>>

(* The payload of a small file, or of a hard link that must have none, is  *)
(* read to its end before anything depends on it.                          *)
Payload ==
  /\ Doing("Payload")
  /\ Then(<<>>) \/ FailWith("Archive")
  /\ UNCHANGED <<diskVars, rootVars>>

-----------------------------------------------------------------------------
(* Small files: queue_buffered_file and flush_buffered_files.              *)

Bytes(files) ==
  LET sum[n \in 0..Len(files)] == IF n = 0 THEN 0 ELSE sum[n - 1] + files[n].size
  IN  sum[Len(files)]

(* Fault: the policy is asked about other kinds of members only.           *)
AlwaysAllowed(p) == IF StateOf(p).kind = "File" THEN "ExpectedFile" ELSE "Allowed"
Replacement(p) ==
  IF ~CanReplace(p) THEN "Disallowed"
  ELSE IF StateOf(p).kind = "File" THEN "ExpectedFile" ELSE "Allowed"

Queue ==
  /\ Doing("Queue")
  /\ Then(IF KnownParent(Path) THEN << Op("Enqueue", Path) >>
          ELSE << Op("Flush", Path) >> \o Parents(Path) \o << Op("Enqueue", Path) >>)
  /\ UNCHANGED <<diskVars, rootVars>>

Overflows ==
  /\ buffered # <<>>
  /\ Bytes(buffered) + Member.size > BUFFERED_FILE_BATCH_MAX_BYTES

IsFull(files) ==
  \/ Len(files) >= BUFFERED_FILE_BATCH_MAX_ENTRIES
  \/ Bytes(files) >= BUFFERED_FILE_BATCH_MAX_BYTES

(* The handle of a directory that is about to be replaced is dropped.      *)
HandleWithout(p) == IF handle.entry = p THEN NoHandle ELSE handle

Enqueue ==
  LET file == [path |-> Path, size |-> Member.size, by |-> Current,
               handle |-> IF handle.entry = Parent(Path) THEN handle ELSE NoHandle,
               replacement |-> Replacement(Path)]
  IN  /\ Doing("Enqueue")
      /\ IF StateOf(Path).kind = "Symlink"
         THEN /\ Then(<< Op("Flush", Path), Op("Replace", Path), Op("Enqueue", Path) >>)
              /\ UNCHANGED rootVars
         ELSE IF Overflows
         THEN /\ Then(<< Op("Flush", Path), Op("Enqueue", Path) >>)
              /\ UNCHANGED rootVars
         ELSE /\ buffered' = Append(buffered, file)
              /\ SetState(Path, Plain("File"))
              /\ handle' = HandleWithout(Path)
              /\ Then(IF IsFull(Append(buffered, file)) THEN << Op("Flush", Path) >> ELSE <<>>)
              /\ UNCHANGED symlinks
      /\ UNCHANGED diskVars

Flush ==
  /\ Doing("Flush")
  /\ IF buffered = <<>>
     THEN Then(<<>>) /\ UNCHANGED <<buffered, task>>
     ELSE /\ task' = [NoTask EXCEPT !.files = buffered]
          /\ buffered' = <<>>
          /\ Then(<< Op("Await", Path) >>)
  /\ UNCHANGED <<diskVars, entries, symlinks, handle>>

Await ==
  /\ Doing("Await") /\ task.files = <<>>
  /\ IF task.error = "None" THEN Then(<<>>) ELSE FailWith(task.error)
  /\ UNCHANGED <<diskVars, rootVars>>

(* write_buffered_files: one file after the other, none after the future   *)
(* was dropped; the first error ends the batch.                            *)
Batched      == Head(task.files)
BatchedSpot  == Location(Batched.path, Batched.handle)
BatchedNode  == IF BatchedSpot = Nowhere THEN Nothing ELSE NodeAt(BatchedSpot)

(* Fault: the batch tries the file again and again.                        *)
BatchRetries(error) ==
  /\ task' = [task EXCEPT !.error = error]
  /\ UNCHANGED diskVars

BatchFails(error) ==
  /\ task' = [NoTask EXCEPT !.error = error]
  /\ UNCHANGED diskVars

SkipFiles ==
  /\ task.files # <<>> /\ task.stage = "start" /\ cancelled
  /\ task' = NoTask
  /\ UNCHANGED diskVars

(* Fault: the batch is written whatever happens to the future.             *)
AlwaysGoesOn == task.files # <<>>
GoesOn == task.files # <<>> /\ ~cancelled

(* The future may be dropped just after this.                              *)
CheckCancellation ==
  /\ GoesOn /\ task.stage = "start"
  /\ task' = [task EXCEPT !.stage = "checked"]
  /\ UNCHANGED diskVars

(* remove_file, or open_new_file that finds something and                  *)
(* remove_buffered_leaf                                                    *)
ClearLeaf ==
  /\ task.stage = "checked"
  /\ \/ BatchFails("Filesystem")
     \/ /\ BatchedNode # Nothing
        /\ \/ Batched.replacement = "Disallowed"
           \/ BatchedNode.type = "Directory" /\ ~IsEmpty(BatchedSpot)
        /\ BatchFails("PathCollision")
     \/ /\ BatchedNode # Nothing
        /\ Batched.replacement # "Disallowed"
        /\ BatchedNode.type = "Directory" => IsEmpty(BatchedSpot)
        /\ Remove(BatchedSpot)
        /\ task' = [task EXCEPT !.stage = "removed"]
        /\ UNCHANGED data

CreateFile ==
  /\ task.stage \in {"checked", "removed"}
  /\ \/ /\ BatchedSpot # Nowhere /\ BatchedNode = Nothing
        /\ Put(BatchedSpot, File(Batched.by, Batched.by))
        /\ Written(Batched.by, Batched.by, FALSE)
        /\ task' = [task EXCEPT !.stage = "created"]
     \/ task.stage = "removed" /\ BatchFails("Filesystem")

FillFile ==
  /\ task.stage = "created"
  /\ \/ /\ Written(Batched.by, Batched.by, TRUE)
        /\ task' = [task EXCEPT !.files = Tail(@), !.stage = "start"]
        /\ UNCHANGED fs
     \/ BatchFails("Filesystem")

TaskStep ==
  /\ CheckCancellation \/ ClearLeaf \/ CreateFile \/ FillFile \/ SkipFiles
  /\ UNCHANGED <<policy, members, rootVars, cancelled, callVars>>

-----------------------------------------------------------------------------
(* One call on the destination each.                                       *)

SpotNode == IF Spot = Nowhere THEN Nothing ELSE NodeAt(Spot)

(* replace_leaf and remove_leaf                                            *)
Replace ==
  /\ Doing("Replace")
  /\ \/ Fails("Filesystem")
     \/ /\ SpotNode = Nothing /\ StateOf(Path).kind = "None"
        /\ Then(<<>>) /\ UNCHANGED <<diskVars, rootVars>>
     \/ /\ SpotNode # Nothing \/ StateOf(Path).kind # "None"
        /\ \/ ~CanReplace(Path)
           \/ SpotNode.type = "Directory" /\ ~IsEmpty(Spot)
        /\ Fails("PathCollision")
     \/ /\ SpotNode # Nothing \/ StateOf(Path).kind # "None"
        /\ CanReplace(Path)
        /\ SpotNode.type = "Directory" => IsEmpty(Spot)
        /\ IF SpotNode = Nothing THEN UNCHANGED fs ELSE Remove(Spot)
        /\ ClearState(Path)
        /\ handle' = IF SpotNode.type = "Directory" THEN HandleWithout(Path) ELSE handle
        /\ Then(<<>>)
        /\ UNCHANGED <<data, symlinks, buffered>>

(* Fault: a link to a directory is taken for one.                          *)
LooksLikeDirectory(spot) == Lookup(spot) = "Directory"
IsRealDirectory(spot) == NodeAt(spot).type = "Directory"

(* ensure_directory, for a directory member or for the parent of a member  *)
EnsureDirectory ==
  LET explicit == Head(todo).op = "Directory"
      known(by, kind) ==
        /\ handle' = [entry |-> Path, at |-> Follow(Spot), by |-> by]
        /\ SetState(Path, Plain(kind))
        /\ Then(<<>>)
        /\ UNCHANGED <<data, symlinks, buffered>>
  IN  /\ Doing("Parent") \/ Doing("Directory")
      /\ \/ IsDirectory(Path) /\ Then(<<>>) /\ UNCHANGED <<diskVars, rootVars>>
         \/ ~IsDirectory(Path) /\ Fails("Filesystem")
         \/ /\ StateOf(Path).kind = "None" /\ Spot # Nowhere /\ SpotNode = Nothing
            /\ Put(Spot, Directory(Current))
            /\ \/ known(Current, "CreatedDirectory")
               \/ known(Current, "AmbientDirectory")   \* open_dir failed once
               \/ FailWith("Filesystem") /\ UNCHANGED <<data, rootVars>>
         \/ /\ StateOf(Path).kind = "None" /\ SpotNode # Nothing /\ IsRealDirectory(Spot)
            /\ known(NodeAt(Follow(Spot)).by, "AmbientDirectory")
            /\ UNCHANGED fs
         \/ /\ ~IsDirectory(Path)
            /\ \/ StateOf(Path).kind # "None"
               \/ SpotNode # Nothing /\ ~IsRealDirectory(Spot)
            /\ IF explicit THEN Then(<< Op("Replace", Path), Op("Directory", Path) >>)
               ELSE FailWith("PathCollision")
            /\ UNCHANGED <<diskVars, rootVars>>

(* create_file                                                             *)
Create ==
  /\ Doing("Create")
  /\ \/ /\ StateOf(Path).kind = "Symlink" \/ SpotNode # Nothing
        /\ Then(<< Op("Replace", Path), Op("Create", Path) >>)
        /\ UNCHANGED <<diskVars, rootVars>>
     \/ /\ StateOf(Path).kind # "Symlink" /\ Spot # Nowhere /\ SpotNode = Nothing
        /\ Put(Spot, File(Current, Current))
        /\ Written(Current, Current, FALSE)
        /\ SetState(Path, Plain("File"))
        /\ Then(<<>>)
        /\ UNCHANGED <<symlinks, handle, buffered>>
     \/ Fails("Filesystem")

(* write_payload, into the file just created or truncated                  *)
Write ==
  /\ Doing("Write")
  /\ \/ Fails("Archive")
     \/ Fails("Filesystem")
     \/ /\ Written(SpotNode.inode, Current, TRUE)
        /\ Then(<<>>)
        /\ UNCHANGED <<fs, rootVars>>

Linkable(m) ==
  /\ StateOf(m.target).kind = "File"
  /\ m.target \notin Prefixes(m.path) \cup {m.path}

(* validate_symlink_target, resolve_link_target and the checks of          *)
(* extract_hard_link                                                       *)
Target ==
  /\ Doing("Target")
  /\ \/ Fails("UnsafePath")
     \/ Member.kind = "HardLink" /\ ~Linkable(Member) /\ Fails("InvalidLink")
     \/ /\ Member.kind = "HardLink" => Linkable(Member)
        /\ Then(<<>>)
        /\ UNCHANGED <<diskVars, rootVars>>

HardLink ==
  LET source == Location(Member.target, NoHandle)
      spot   == Location(Path, NoHandle)
  IN  /\ Doing("Link")
      /\ \/ Fails("Filesystem")
         \/ /\ Nowhere \notin {source, spot}
            /\ NodeAt(source).type = "File" /\ NodeAt(spot) = Nothing
            /\ Put(spot, File(NodeAt(source).inode, Current))
            /\ SetState(Path, Plain("File"))
            /\ Then(<<>>)
            /\ UNCHANGED <<data, symlinks, handle, buffered>>

Truncate ==
  /\ Doing("Truncate")
  /\ \/ Fails("Filesystem")
     \/ /\ SpotNode.type = "File"
        /\ Written(SpotNode.inode, Current, FALSE)
        /\ Then(<<>>)
        /\ UNCHANGED <<fs, rootVars>>

(* reserve_symlink: the link waits for the end of the archive              *)
Reserve ==
  /\ Doing("Reserve")
  /\ SetState(Path, [kind |-> "Symlink", index |-> Len(symlinks) + 1])
  /\ symlinks' = Append(symlinks, [path |-> Path, target |-> Member.target, by |-> Current,
                                   requires_directory |-> Member.requires_directory])
  /\ Then(<<>>)
  /\ UNCHANGED <<diskVars, handle, buffered>>

-----------------------------------------------------------------------------
(* Symbolic links, once every member is read.                              *)

(* resolve_terminal: the first component of the path that is a link, or a  *)
(* file with more components after it.                                     *)
Stops(p) ==
  { n \in 1..Len(p) :
      LET kind == StateOf(SubSeq(p, 1, n)).kind
      IN  kind = "Symlink" \/ (kind = "File" /\ n < Len(p)) }

StopKind(p) ==
  IF Stops(p) = {} THEN "None" ELSE StateOf(SubSeq(p, 1, First(Stops(p)))).kind

Rewrite(p) ==
  IF StopKind(p) # "Symlink" THEN p
  ELSE LET n == First(Stops(p))
       IN  symlinks[StateOf(SubSeq(p, 1, n)).index].target \o SubSeq(p, n + 1, Len(p))

Terminal(p) ==
  LET walk[n \in 0..MAX_SYMLINK_EXPANSIONS] == IF n = 0 THEN p ELSE Rewrite(walk[n - 1])
  IN  walk[MAX_SYMLINK_EXPANSIONS]

(* What the archive alone tells of the end of a path: a cycle never ends.  *)
ArchiveKind(end) ==
  CASE StopKind(end) = "Symlink"                  -> "Endless"
    [] StopKind(end) = "File"                     -> "Dangling"
    [] end = <<>>                                 -> "Directory"
    [] StateOf(end).kind = "CreatedDirectory"     -> "Directory"
    [] StateOf(end).kind = "File"                 -> "File"
    [] OTHER                                      -> "Unowned"

(* inspect_ambient_target                                                  *)
AmbientKind(end) ==
  LET found == Lookup(OnDisk(end)) IN IF found = "Nothing" THEN "Dangling" ELSE found

(* Fault: a dangling target is not searched for links of others.           *)
NeverTraverses(end) == FALSE
TraversesAmbientLink(end) ==
  AmbientKind(end) = "Dangling" /\ LinksOn(OnDisk(end)) # {}

ActiveLinks ==
  { i \in 1..Len(symlinks) : StateOf(symlinks[i].path) = [kind |-> "Symlink", index |-> i] }

Verdict(i) ==
  LET link    == symlinks[i]
      end     == Terminal(link.target)
      unowned == ArchiveKind(end) = "Unowned"
      kind    == IF unowned THEN AmbientKind(end) ELSE ArchiveKind(end)
      closed  == unowned /\ ~policy.allow_ambient_targets
  IN  IF unowned /\ (policy.allow_ambient_targets \/ policy.allow_missing_targets)
                 /\ kind = "Error"
      THEN "Filesystem"
      ELSE IF \/ kind = "Endless"
              \/ closed /\ ~policy.allow_missing_targets
              \/ closed /\ (kind # "Dangling" \/ TraversesAmbientLink(end))
              \/ kind = "Dangling" /\ ~policy.allow_missing_targets
              \/ kind = "File" /\ link.requires_directory
      THEN "InvalidLink" ELSE "Accepted"

Rejected == { i \in ActiveLinks : Verdict(i) # "Accepted" }

(* The links are made in the order in which they were reserved.            *)
LinkOps ==
  LET ops[n \in 0..Len(symlinks)] ==
        IF n = 0 THEN <<>>
        ELSE ops[n - 1] \o IF n \in ActiveLinks THEN << Op("MakeLink", symlinks[n].path) >> ELSE <<>>
  IN  ops[Len(symlinks)]

Validate ==
  /\ Doing("Validate")
  /\ \/ ActiveLinks # {} /\ FailWith("Filesystem")
     \/ Rejected # {} /\ FailWith(Verdict(First(Rejected)))
     \/ /\ Rejected = {}
        /\ Then(LinkOps \o << Op("Return", <<>>) >>)
  /\ UNCHANGED <<diskVars, rootVars>>

MakeLink ==
  LET link == symlinks[StateOf(Path).index]
  IN  /\ Doing("MakeLink")
      /\ \/ Fails("Filesystem")
         \/ /\ Spot # Nowhere /\ SpotNode = Nothing
            /\ Put(Spot, Link(OnDisk(link.target), link.by))
            /\ Then(<<>>)
            /\ UNCHANGED <<data, rootVars>>
         \/ SpotNode # Nothing /\ ~CanReplace(Path) /\ Fails("PathCollision")
         \/ /\ SpotNode # Nothing /\ CanReplace(Path) /\ SpotNode.type # "Link"
            /\ Then(<<>>)
            /\ UNCHANGED <<diskVars, rootVars>>
         \/ /\ SpotNode # Nothing /\ CanReplace(Path) /\ SpotNode.type = "Link"
            /\ Remove(Spot)
            /\ Then(<< Op("MakeLink", Path) >>)
            /\ UNCHANGED <<data, rootVars>>

Return ==
  /\ Doing("Return")
  /\ phase' = "returned" /\ todo' = <<>>
  /\ result' = IF result = "Pending" THEN "Ok" ELSE result
  /\ UNCHANGED <<diskVars, rootVars>>

-----------------------------------------------------------------------------
(* The caller drops the future: ExtractionRoot is dropped with it, which   *)
(* tells the batch task; a call already handed to a blocking thread ends.  *)
BlockingOps ==
  {"Replace", "Parent", "Directory", "Create", "Write", "Truncate", "Link", "MakeLink"}

DropFuture ==
  /\ phase = "running"
  /\ phase' = "dropped" /\ cancelled' = TRUE
  /\ todo' = IF todo # <<>> /\ Head(todo).op \in BlockingOps THEN <<Head(todo)>> ELSE <<>>
  /\ UNCHANGED <<diskVars, policy, members, rootVars, task, result>>

Operation ==
  \/ Payload \/ Queue \/ Enqueue \/ Await \/ Replace \/ EnsureDirectory \/ Create \/ Write
  \/ Target \/ HardLink \/ Truncate \/ Reserve \/ Validate \/ MakeLink \/ Return

Step ==
  /\ \/ NextMember /\ UNCHANGED task
     \/ Flush /\ UNCHANGED members
     \/ Operation /\ UNCHANGED <<members, task>>
  /\ UNCHANGED <<policy, cancelled>>

ExtractionNext == Step \/ TaskStep \/ DropFuture
=============================================================================
