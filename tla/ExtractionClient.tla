--------------------------- MODULE ExtractionClient ---------------------------
(***************************************************************************)
(* Extraction with the history its properties speak of, and what the       *)
(* destination should hold when all is done.                               *)
(***************************************************************************)
EXTENDS Extraction, Functions

VARIABLES
  origin,    \* what the destination held beforehand
  late       \* the paths whose leaf was changed after the future was dropped

clientVars == <<extractionVars, origin, late>>

(* The path the step is about.                                             *)
Operand == IF task.files # <<>> THEN Batched.path ELSE Path

Remembers ==
  /\ late' = IF phase = "dropped" /\ diskVars' # diskVars THEN late \cup {Operand} ELSE late
  /\ UNCHANGED origin

ClientInit == ExtractionInit /\ origin = fs /\ late = {}
ClientNext == ExtractionNext /\ Remembers

(* The executor polls the future again when what it waits for has          *)
(* answered; blocking tasks run.  Nobody need drop the future.             *)
ClientSpec ==
  /\ ClientInit
  /\ [][ClientNext]_clientVars
  /\ WF_clientVars(Step /\ Remembers)
  /\ WF_clientVars(TaskStep /\ Remembers)

-----------------------------------------------------------------------------
AtBoundary == phase = "running" /\ todo = <<>>

(* Between two members the state of the paths is true: every parent of a   *)
(* path that has a state is a directory the extraction knows of, a         *)
(* directory is a real one on the disk, a file is there or waits in the    *)
(* batch, and nothing is where a link is reserved.  Directories are        *)
(* reused, and files queued, on this word alone.  A file may be queued     *)
(* over a directory in use only if its batch must fail.  And at any time    *)
(* the one directory handle kept belongs to the directory the disk has at  *)
(* that path now, not to one that was removed.                             *)
EntriesMatchTree ==
  /\ phase = "running" /\ handle # NoHandle =>
       handle.at = OnDisk(handle.entry) /\ NodeAt(handle.at) = Directory(handle.by)
  /\ AtBoundary => \A p \in DOMAIN entries :
       /\ \A q \in Prefixes(p) :
            IsDirectory(q) \/ \E n \in 1..Len(buffered) :
                                buffered[n].path = q /\ buffered[n].replacement = "Disallowed"
       /\ LET type == NodeAt(OnDisk(p)).type
          IN  CASE entries[p].kind = "File" ->
                     type = "File" \/ \E n \in 1..Len(buffered) : buffered[n].path = p
                [] entries[p].kind = "Symlink" -> type = "Nothing"
                [] OTHER -> type = "Directory"

(* The leaves a step changes.                                              *)
Changed ==
  { p \in DOMAIN fs \cup DOMAIN fs' : p \notin DOMAIN fs \cap DOMAIN fs' \/ fs[p] # fs'[p] }

(* Whatever the destination holds, an operation on a path changes the leaf *)
(* of that path: neither a link of others nor one of this archive is       *)
(* followed on the way to it.                                              *)
NeverFollowsLinks == [][\A p \in Changed : p = OnDisk(Operand)]_clientVars

(* Without allow_overwrites nothing on the disk is removed or replaced, be *)
(* it from before or of this archive; and no policy lets an archive write  *)
(* into a file that was there before, not even through a hard link.        *)
NothingOverwritten ==
  [][ /\ ~policy.allow_overwrites =>
           \A p \in DOMAIN fs : p \in DOMAIN fs' /\ fs'[p] = fs[p]
      /\ data'[0] = data[0] ]_clientVars

(* Once the future was dropped, the call in flight ends, the batch task    *)
(* finishes the file it is at, and nothing else is touched.                *)
QuietAfterDrop == Cardinality(late) <= 1

-----------------------------------------------------------------------------
(* What the destination should hold: the last member at a path decides.    *)

Counts(m) == m.path # <<>> /\ ~(m.kind = "SymbolicLink" /\ policy.symlinks = "Skip")

At(p, i) == { j \in 1..i : Counts(members[j]) /\ members[j].path = p }
LastAt(p, i) == CHOOSE j \in At(p, i) : \A k \in At(p, i) : k <= j

(* The member whose file a member's path names.                            *)
InodeOf(i) ==
  LET inode[j \in 1..i] ==
        IF members[j].kind = "HardLink" THEN inode[LastAt(members[j].target, j - 1)] ELSE j
  IN  inode[i]

IsFile(m) == m.kind \in {"File", "HardLink"}

Writers(inode) ==
  { j \in 1..Current :
      /\ IsFile(members[j])
      /\ members[j].kind = "HardLink" => members[j].size > 0
      /\ InodeOf(j) = inode }

Contents(inode) ==
  [by |-> CHOOSE j \in Writers(inode) : \A k \in Writers(inode) : k <= j, done |-> TRUE]

Implied(p) == \E i \in 1..Current : Counts(members[i]) /\ p \in Prefixes(members[i].path)

HoldsLastMember(p) ==
  IF At(p, Current) # {}
  THEN LET i == LastAt(p, Current) IN
       CASE IsFile(members[i]) -> /\ NodeAt(p).type = "File"
                                  /\ NodeAt(p).inode = InodeOf(i)
                                  /\ data[NodeAt(p).inode] = Contents(InodeOf(i))
         [] members[i].kind = "Directory"    -> NodeAt(p).type = "Directory"
         [] members[i].kind = "SymbolicLink" -> NodeAt(p) = Link(members[i].target, i)
  ELSE IF Implied(p) THEN NodeAt(p).type = "Directory"
  ELSE NodeAt(p) = IF p \in DOMAIN origin THEN origin[p] ELSE Nothing

(* The disk holds every name of the archive apart from the others.  Where  *)
(* it folds two into one, two paths mean one place, and nothing is said of *)
(* what it holds in the end.                                               *)
NamesStayApart ==
  \A m \in Range(members) : OnDisk(m.path) = m.path /\ OnDisk(m.target) = m.target

(* A success means every path holds what the last member at it says, a     *)
(* path of no member what it held before: batches, streamed files and      *)
(* deferred links took effect as if one after the other.                   *)
SuccessIsSequential ==
  result = "Ok" /\ NamesStayApart =>
    \A p \in (DOMAIN fs \cup DOMAIN origin \cup { m.path : m \in Range(members) }) \ {<<>>} :
      HoldsLastMember(p)

(* A hard link with contents empties the file it shares before it reads    *)
(* them.  If the archive fails then, that file is cut short.               *)
CutShort(inode) ==
  /\ result = "Archive" /\ Member.kind = "HardLink" /\ Member.size > 0
  /\ NodeAt(OnDisk(Member.path)).type = "File"
  /\ NodeAt(OnDisk(Member.path)).inode = inode

(* A failure of the archive or of its members' validity is reported only   *)
(* when the files of the members before it, at other paths than its own,   *)
(* are on the disk, and whole but for the one file that a hard link with   *)
(* contents shares and had already emptied.                                *)
EarlierFilesCommitted ==
  phase = "returned" /\ result \in {"Archive", "Policy", "UnsafePath", "InvalidLink"} =>
    \A i \in 1..(Current - 1) :
      members[i].kind = "File" /\ LastAt(members[i].path, Current) = i =>
        LET node == NodeAt(OnDisk(members[i].path))
        IN  node.type = "File" /\ (data[node.inode].done \/ CutShort(node.inode))

(* The members whose links a lookup of p meets; 0 for a link of others.    *)
LinksMet(p) ==
  LET walk[n \in 0..MAX_LINKS] == IF n = 0 THEN p ELSE Expand(walk[n - 1])
  IN  { NodeAt(SubSeq(walk[n], 1, First(LinksOn(walk[n])))).by :
          n \in { m \in 0..MAX_LINKS : LinksOn(walk[m]) # {} } }

(* The links of a successful extraction lead where the policy lets them:   *)
(* never round in a circle, to something that exists unless missing        *)
(* targets are allowed, never to or through what was there before unless   *)
(* ambient targets are allowed, and to no file if they asked for a         *)
(* directory.                                                              *)
LinksObeyPolicy ==
  result = "Ok" /\ NamesStayApart =>
    \A p \in { q \in DOMAIN fs : fs[q].type = "Link" /\ fs[q].by > 0 } :
      LET end == Follow(p) IN
      /\ LinksOn(end) = {}
      /\ ~policy.allow_missing_targets => Lookup(p) \in {"Directory", "File"}
      /\ ~policy.allow_ambient_targets =>
           0 \notin LinksMet(p) /\ (end \in DOMAIN fs => fs[end].by > 0)
      /\ members[fs[p].by].requires_directory => Lookup(p) # "File"

(* Where two names fold together, a link gives way only to something a     *)
(* member after it put there, and replaces only a link from before it.     *)
LinkGivesWayToLater ==
  [][ Doing("MakeLink") /\ SpotNode # Nothing /\ phase' = "running" /\ result' = "Pending" =>
        LET by == symlinks[StateOf(Path).index].by
        IN  IF fs' = fs THEN SpotNode.by > by ELSE SpotNode.by < by ]_clientVars

(* Extraction comes to an end, dropped or not, and so does its batch task. *)
ExtractionEnds ==
  <>[](phase # "running" /\ todo = <<>> /\ task.files = <<>>)
=============================================================================
