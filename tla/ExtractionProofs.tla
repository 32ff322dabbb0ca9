--------------------------- MODULE ExtractionProofs ---------------------------
(***************************************************************************)
(* What an extraction never does, for any archive, policy, destination and *)
(* limits.  The inductive invariant justifies every operation that is left *)
(* to do by the state and by the operations before it: an operation on a   *)
(* path comes when its parents are directories the extraction knows of, a  *)
(* link is made to a file of the archive, contents go to a file that was   *)
(* just created or emptied.  Until the symbolic links are made, no link is *)
(* anywhere a path was descended.  Where the disk keeps names apart, a     *)
(* second layer says that what the extraction believes of its paths is     *)
(* what the disk holds, up to files that wait in a batch, and a third      *)
(* whose the files on the disk are, and which of them are whole.           *)
(***************************************************************************)
EXTENDS ExtractionClient, SequenceTheorems, FiniteSetTheorems, SharedLemmas, TLAPS

Paths == Seq(DOMAIN Fold)

OpNames ==
  {"Payload", "Queue", "Enqueue", "Flush", "Await", "Parent", "Directory", "Create", "Write",
   "Replace", "Target", "Reserve", "Link", "Truncate", "Validate", "MakeLink", "Return"}

(* The operations on the current member's own path.                        *)
MemberOps ==
  {"Payload", "Queue", "Enqueue", "Directory", "Create", "Write", "Replace", "Target", "Reserve",
   "Link", "Truncate"}

OpType == [op : OpNames, path : Paths]

HandleType == { [entry |-> p, at |-> OnDisk(p), by |-> n] : p \in Paths, n \in Nat }

FileType ==
  [path : Paths \ {<<>>}, size : Nat, by : Nat \ {0}, handle : HandleType,
   replacement : {"Disallowed", "ExpectedFile", "Allowed"}]

LinkType == [path : Paths \ {<<>>}, target : Paths, by : Nat, requires_directory : BOOLEAN]

-----------------------------------------------------------------------------
(* Paths and places.                                                       *)

NoLink(p) == NodeAt(OnDisk(p)).type # "Link"

(* A file that was there before.                                           *)
Old(p) == NodeAt(OnDisk(p)).type = "File" /\ NodeAt(OnDisk(p)).inode = 0

LEMMA PathParts ==
  ASSUME NEW p \in Paths \ {<<>>}
  PROVE  /\ Len(p) \in Nat \ {0} /\ Parent(p) \in Paths /\ Len(Parent(p)) = Len(p) - 1
         /\ \A k \in 1..(Len(p) - 1) : Parent(p)[k] = p[k]
         /\ \A q \in Prefixes(p) : q \in Paths \ {<<>>} /\ q # p /\ Prefixes(q) \subseteq Prefixes(p)
         /\ Parent(p) = <<>> \/ Parent(p) \in Prefixes(p)
<1>1. Len(p) \in Nat \ {0}
  BY EmptySeq DEF Paths
<1>2. Parent(p) \in Paths /\ Len(Parent(p)) = Len(p) - 1
      /\ \A k \in 1..(Len(p) - 1) : Parent(p)[k] = p[k]
  <2>. DEFINE n == Len(p) - 1
  <2>1. n \in Nat /\ n <= Len(p) /\ p \in Paths
    BY <1>1
  <2>. HIDE DEF n
  <2>2. SubSeq(p, 1, n) \in Paths /\ Len(SubSeq(p, 1, n)) = n
        /\ \A k \in 1..n : SubSeq(p, 1, n)[k] = p[k]
    BY <2>1 DEF Paths
  <2>. QED  BY <2>2 DEF Parent, n
<1>3. ASSUME NEW q \in Prefixes(p)
      PROVE  q \in Paths \ {<<>>} /\ q # p /\ Prefixes(q) \subseteq Prefixes(p)
  <2>1. PICK n \in 1..(Len(p) - 1) : q = SubSeq(p, 1, n)
    BY DEF Prefixes
  <2>2. q \in Paths /\ Len(q) = n /\ n # 0 /\ n # Len(p)
    BY <1>1, <2>1 DEF Paths
  <2>3. ASSUME NEW m \in 1..(Len(q) - 1) PROVE SubSeq(q, 1, m) = SubSeq(p, 1, m) /\ m \in 1..(Len(p) - 1)
    <3>1. m \in 1..(Len(p) - 1) /\ m \in Nat /\ m <= n /\ n <= Len(p) /\ n \in Nat
      BY <1>1, <2>2
    <3>2. \A k \in 1..m : SubSeq(q, 1, m)[k] = q[k] /\ q[k] = p[k] /\ SubSeq(p, 1, m)[k] = p[k]
      BY <1>1, <2>1, <2>2, <3>1 DEF Paths
    <3>3. SubSeq(q, 1, m) \in Paths /\ SubSeq(p, 1, m) \in Paths
          /\ Len(SubSeq(q, 1, m)) = m /\ Len(SubSeq(p, 1, m)) = m
      BY <1>1, <2>2, <3>1 DEF Paths
    <3>. QED  BY <3>1, <3>2, <3>3, SeqEqual DEF Paths
  <2>4. Prefixes(q) \subseteq Prefixes(p)
    BY <2>3 DEF Prefixes
  <2>5. q # <<>> /\ q # p
    BY <2>2
  <2>. QED  BY <2>2, <2>4, <2>5
<1>4. CASE Len(p) = 1
  <2>1. Len(Parent(p)) = 0
    BY <1>2, <1>4
  <2>2. Parent(p) = <<>>
    BY <1>2, <2>1, EmptySeq DEF Paths
  <2>. QED  BY <1>1, <1>2, <1>3, <2>2
<1>5. CASE Len(p) # 1
  <2>1. Len(p) - 1 \in 1..(Len(p) - 1)
    BY <1>1, <1>5
  <2>2. Parent(p) \in Prefixes(p)
    BY <2>1 DEF Parent, Prefixes
  <2>. QED  BY <1>1, <1>2, <1>3, <2>2
<1>. QED  BY <1>4, <1>5

LEMMA OnDiskIs ==
  ASSUME NEW p \in Paths
  PROVE  /\ OnDisk(p) \in Seq(Range(Fold)) /\ Len(OnDisk(p)) = Len(p)
         /\ \A k \in 1..Len(p) : OnDisk(p)[k] = Fold[p[k]]
<1>1. Len(p) \in Nat /\ \A k \in 1..Len(p) : p[k] \in DOMAIN Fold
  BY DEF Paths
<1>2. \A k \in 1..Len(p) : Fold[p[k]] \in Range(Fold)
  BY <1>1 DEF Range
<1>3. OnDisk(p) \in [1..Len(p) -> Range(Fold)]
  BY <1>2 DEF OnDisk
<1>4. OnDisk(p) \in Seq(Range(Fold))
  BY <1>1, <1>3, SeqDef
<1>5. Len(OnDisk(p)) = Len(p)
  BY <1>1, <1>3, LenProperties, <1>4
<1>. QED  BY <1>4, <1>5 DEF OnDisk

LEMMA OnDiskRoot == OnDisk(<<>>) = <<>> /\ <<>> \in Paths
<1>1. <<>> \in Paths
  BY DEF Paths
<1>2. Len(OnDisk(<<>>)) = 0 /\ OnDisk(<<>>) \in Seq(Range(Fold))
  BY <1>1, OnDiskIs
<1>. QED  BY <1>1, <1>2, EmptySeq

(* What the disk holds at the front of a path is at the path's prefix.     *)
LEMMA OnDiskFront ==
  ASSUME NEW p \in Paths, NEW n \in 1..Len(p)
  PROVE  SubSeq(OnDisk(p), 1, n) = OnDisk(SubSeq(p, 1, n)) /\ SubSeq(p, 1, n) \in Paths
<1>. DEFINE q == SubSeq(p, 1, n)
<1>1. Len(p) \in Nat /\ n \in Nat /\ n <= Len(p) /\ \A k \in 1..n : k \in 1..Len(p)
  BY DEF Paths
<1>2. q \in Paths /\ Len(q) = n /\ \A k \in 1..n : q[k] = p[k]
  BY <1>1 DEF Paths
<1>. HIDE DEF q
<1>3. /\ OnDisk(p) \in Seq(Range(Fold)) /\ Len(OnDisk(p)) = Len(p)
      /\ \A k \in 1..n : OnDisk(p)[k] = Fold[p[k]]
  BY <1>1, OnDiskIs
<1>4. OnDisk(q) \in Seq(Range(Fold)) /\ Len(OnDisk(q)) = n /\ \A k \in 1..n : OnDisk(q)[k] = Fold[p[k]]
  BY <1>2, OnDiskIs
<1>5. /\ SubSeq(OnDisk(p), 1, n) \in Seq(Range(Fold)) /\ Len(SubSeq(OnDisk(p), 1, n)) = n
      /\ \A k \in 1..n : SubSeq(OnDisk(p), 1, n)[k] = Fold[p[k]]
  BY <1>1, <1>3
<1>6. SubSeq(OnDisk(p), 1, n) = OnDisk(q)
  BY <1>4, <1>5, SeqEqual
<1>. QED  BY <1>2, <1>6 DEF q

LEMMA FollowPlain ==
  ASSUME NEW p, LinksOn(p) = {}
  PROVE  Follow(p) = p
<1>. DEFINE n == MAX_LINKS
            walk[k \in 0..n] == IF k = 0 THEN p ELSE Expand(walk[k - 1])
            f == [k \in 0..n |-> p]
<1>1. n \in Nat
  BY ExtractionAssumption
<1>2. Expand(p) = p
  BY DEF Expand
<1>3. f = [k \in 0..n |-> IF k = 0 THEN p ELSE Expand(f[k - 1])]
  <2>1. ASSUME NEW k \in 0..n, k # 0 PROVE f[k - 1] = p
    <3>1. k - 1 \in 0..n
      BY <1>1, <2>1
    <3>. QED  BY <3>1
  <2>. QED  BY <1>2, <2>1, Zenon
<1>. HIDE DEF n, f
<1>4. walk = [k \in 0..n |-> IF k = 0 THEN p ELSE Expand(walk[k - 1])]
  BY <1>3, Zenon DEF walk
<1>. HIDE DEF walk
<1>. DEFINE T == { k \in 0..n : walk[k] = p }
<1>5. 0 \in T
  BY <1>1, <1>4
<1>6. ASSUME NEW k \in 0..(n - 1), k \in T PROVE k + 1 \in T
  <2>1. k + 1 \in 0..n /\ k + 1 # 0 /\ (k + 1) - 1 = k
    BY <1>1
  <2>2. walk[k + 1] = Expand(walk[k])
    BY <1>4, <2>1
  <2>. QED  BY <1>2, <1>6, <2>1, <2>2
<1>7. \A k \in 0..n : k \in T
  <2>. HIDE DEF T
  <2>. QED  BY <1>1, <1>5, <1>6, CountingUp
<1>8. walk[n] = p
  <2>1. n \in 0..n
    BY <1>1
  <2>. QED  BY <1>7, <2>1
<1>. QED  BY <1>8, Zenon DEF Follow, walk, n

LEMMA NoLinksOn ==
  ASSUME NEW p \in Paths, \A q \in Prefixes(p) \cup {p} : NoLink(q)
  PROVE  LinksOn(OnDisk(p)) = {}
<1>. SUFFICES ASSUME NEW n \in 1..Len(OnDisk(p))
              PROVE  NodeAt(SubSeq(OnDisk(p), 1, n)).type # "Link"
  BY DEF LinksOn
<1>1. Len(p) \in Nat /\ n \in 1..Len(p)
  BY OnDiskIs DEF Paths
<1>2. SubSeq(OnDisk(p), 1, n) = OnDisk(SubSeq(p, 1, n))
  BY <1>1, OnDiskFront
<1>3. SubSeq(p, 1, n) \in Prefixes(p) \cup {p}
  <2>1. CASE n = Len(p)
    <3>1. SubSeq(p, 1, n) = p
      BY <1>1, <2>1 DEF Paths
    <3>. QED  BY <3>1
  <2>2. CASE n # Len(p)
    <3>1. n \in 1..(Len(p) - 1)
      BY <1>1, <2>2
    <3>. QED  BY <3>1 DEF Prefixes
  <2>. QED  BY <2>1, <2>2
<1>. QED  BY <1>2, <1>3 DEF NoLink

(* Whether the disk has the place of a path that no link is above.         *)
Reached(p, h) ==
  \/ Parent(p) = <<>>
  \/ IF h.entry = Parent(p) THEN NodeAt(OnDisk(Parent(p))) = Directory(h.by)
     ELSE /\ Head(OnDisk(Parent(p))) # Outside
          /\ \A q \in Prefixes(Parent(p)) : NodeAt(OnDisk(q)).type # "File"
          /\ NodeAt(OnDisk(Parent(p))).type = "Directory"

(* Where no link is above it, a path leads to its own place or nowhere.    *)
LEMMA LocationIs ==
  \A p \in Paths \ {<<>>} : \A h :
    (\A q \in Prefixes(p) : NoLink(q)) /\ h.at = OnDisk(h.entry) =>
      Location(p, h) = IF Reached(p, h) THEN OnDisk(p) ELSE Nowhere
<1>. TAKE p \in Paths \ {<<>>}
<1>. TAKE h
<1>. HAVE (\A q \in Prefixes(p) : NoLink(q)) /\ h.at = OnDisk(h.entry)
<1>. DEFINE parent == OnDisk(Parent(p))
            leaf == OnDisk(p)[Len(p)]
<1>1. /\ Len(p) \in Nat \ {0} /\ Parent(p) \in Paths /\ Len(Parent(p)) = Len(p) - 1
      /\ \A k \in 1..(Len(p) - 1) : Parent(p)[k] = p[k]
      /\ \A q \in Prefixes(p) : Prefixes(q) \subseteq Prefixes(p)
      /\ Parent(p) = <<>> \/ Parent(p) \in Prefixes(p)
  BY PathParts
<1>2. /\ OnDisk(p) \in Seq(Range(Fold)) /\ Len(OnDisk(p)) = Len(p)
      /\ \A k \in 1..Len(p) : OnDisk(p)[k] = Fold[p[k]]
  BY OnDiskIs
<1>3. /\ parent \in Seq(Range(Fold)) /\ Len(parent) = Len(p) - 1
      /\ \A k \in 1..(Len(p) - 1) : parent[k] = Fold[p[k]]
  BY <1>1, OnDiskIs
<1>4. leaf \in Range(Fold)
  BY <1>1, <1>2
<1>. HIDE DEF parent, leaf
<1>5. Append(parent, leaf) = OnDisk(p)
  <2>. DEFINE a == Append(parent, leaf)
  <2>1. a \in Seq(Range(Fold)) /\ Len(a) = Len(p)
    BY <1>1, <1>3, <1>4
  <2>2. ASSUME NEW k \in 1..Len(p) PROVE a[k] = OnDisk(p)[k]
    <3>1. CASE k = Len(p)
      BY <1>1, <1>3, <3>1 DEF leaf
    <3>2. CASE k # Len(p)
      <4>1. k \in 1..(Len(p) - 1)
        BY <1>1, <3>2
      <4>2. a[k] = parent[k]
        BY <1>1, <1>3, <4>1
      <4>. QED  BY <1>2, <1>3, <4>1, <4>2
    <3>. QED  BY <3>1, <3>2
  <2>. HIDE DEF a
  <2>3. a = OnDisk(p)
    BY <1>2, <2>1, <2>2, SeqEqual
  <2>. QED  BY <2>3 DEF a
<1>6. parent = <<>> <=> Parent(p) = <<>>
  <2>1. parent = <<>> => Len(Parent(p)) = 0
    BY <1>1, <1>3, EmptySeq
  <2>. QED  BY <1>1, <2>1, EmptySeq, OnDiskRoot DEF parent, Paths
<1>7. CASE Parent(p) = <<>>
  <2>1. parent = <<>>
    BY <1>6, <1>7
  <2>2. <<leaf>> = Append(parent, leaf)
    BY <2>1
  <2>. QED  BY <1>5, <1>7, <2>1, <2>2 DEF Location, Reached, parent, leaf
<1>8. CASE Parent(p) # <<>>
  <2>1. Parent(p) \in Prefixes(p) /\ parent # <<>>
    BY <1>1, <1>6, <1>8
  <2>2. LinksOn(parent) = {}
    <3>1. \A q \in Prefixes(Parent(p)) \cup {Parent(p)} : NoLink(q)
      BY <1>1, <2>1
    <3>. QED  BY <1>1, <3>1, NoLinksOn DEF parent
  <2>3. Follow(parent) = parent
    BY <2>2, FollowPlain
  <2>4. h.entry = Parent(p) => h.at = parent
    BY DEF parent
  <2>5. Prefixes(parent) = { OnDisk(q) : q \in Prefixes(Parent(p)) }
    <3>1. \A n \in 1..(Len(p) - 2) : n \in 1..Len(Parent(p))
      BY <1>1
    <3>2. \A n \in 1..(Len(p) - 2) : SubSeq(parent, 1, n) = OnDisk(SubSeq(Parent(p), 1, n))
      BY <1>1, <3>1, OnDiskFront DEF parent
    <3>3. Len(parent) - 1 = Len(p) - 2 /\ Len(Parent(p)) - 1 = Len(p) - 2
      BY <1>1, <1>3
    <3>. QED  BY <3>2, <3>3 DEF Prefixes
  <2>6. Lookup(parent) = "Directory" <=>
          /\ Head(parent) # Outside
          /\ \A q \in Prefixes(Parent(p)) : NodeAt(OnDisk(q)).type # "File"
          /\ NodeAt(parent).type = "Directory"
    BY <2>1, <2>2, <2>3, <2>5 DEF Lookup
  <2>7. Location(p, h) =
          IF h.entry = Parent(p)
          THEN IF NodeAt(h.at) = Directory(h.by) THEN Append(h.at, leaf) ELSE Nowhere
          ELSE IF Lookup(parent) = "Directory" THEN Append(Follow(parent), leaf) ELSE Nowhere
    BY <2>1 DEF Location, parent, leaf
  <2>8. CASE h.entry = Parent(p)
    <3>1. Location(p, h) = IF NodeAt(parent) = Directory(h.by) THEN OnDisk(p) ELSE Nowhere
      BY <1>5, <2>4, <2>7, <2>8, Zenon
    <3>. QED  BY <1>8, <2>8, <3>1, Zenon DEF Reached, parent
  <2>9. CASE h.entry # Parent(p)
    <3>1. Location(p, h) = IF Lookup(parent) = "Directory" THEN OnDisk(p) ELSE Nowhere
      BY <1>5, <2>3, <2>7, <2>9, Zenon
    <3>. QED  BY <1>8, <2>6, <2>9, <3>1, Zenon DEF Reached, parent
  <2>. QED  BY <2>8, <2>9
<1>. QED  BY <1>7, <1>8

LEMMA LocationNext ==
  (\A p \in Paths \ {<<>>} : \A h :
     (\A q \in Prefixes(p) : NoLink(q)) /\ h.at = OnDisk(h.entry) =>
       Location(p, h) = IF Reached(p, h) THEN OnDisk(p) ELSE Nowhere)'
BY LocationIs, PTL

LEMMA PlaceIs ==
  ASSUME NEW p \in Paths \ {<<>>}
  PROVE  OnDisk(p) # Nowhere /\ OnDisk(p) # <<>> /\ \A q \in Prefixes(p) : OnDisk(q) # OnDisk(p)
<1>1. Len(OnDisk(p)) = Len(p) /\ Len(p) \in Nat \ {0} /\ OnDisk(p) \in Seq(Range(Fold))
  BY OnDiskIs, PathParts
<1>2. ASSUME NEW q \in Prefixes(p) PROVE OnDisk(q) # OnDisk(p)
  <2>1. q \in Paths
    BY PathParts
  <2>2. PICK n \in 1..(Len(p) - 1) : q = SubSeq(p, 1, n)
    BY DEF Prefixes
  <2>3. Len(q) = n /\ n # Len(p)
    BY <1>1, <2>2 DEF Paths
  <2>. QED  BY <1>1, <2>1, <2>3, OnDiskIs
<1>. QED  BY <1>1, <1>2 DEF Nowhere

(* A place stays reached while nothing above it changes.                   *)
LEMMA LocationKept ==
  ASSUME NEW p \in Paths \ {<<>>}, \A q \in Prefixes(p) : NoLink(q),
         NEW h, h.at = OnDisk(h.entry),
         \A q \in Prefixes(p) : NodeAt(OnDisk(q))' = NodeAt(OnDisk(q))
  PROVE  Location(p, h)' = Location(p, h)
<1>1. \A q \in Prefixes(p) : NoLink(q)'
  BY DEF NoLink
<1>2. Location(p, h)' = (IF Reached(p, h) THEN OnDisk(p) ELSE Nowhere)'
  BY <1>1, LocationNext
<1>3. Location(p, h) = IF Reached(p, h) THEN OnDisk(p) ELSE Nowhere
  BY LocationIs
<1>4. Parent(p) = <<>> \/ (Parent(p) \in Prefixes(p) /\ Prefixes(Parent(p)) \subseteq Prefixes(p))
  BY PathParts
<1>5. Reached(p, h)' <=> Reached(p, h)
  BY <1>4 DEF Reached
<1>. QED  BY <1>2, <1>3, <1>5

-----------------------------------------------------------------------------
(* The invariant.                                                          *)

(* What is left to do is about the current member.                         *)
Placed(o) ==
  /\ o.op \in MemberOps => Current > 0 /\ o.path = Member.path /\ o.path # <<>>
  /\ o.op = "Parent" =>
       Current > 0 /\ Member.path # <<>> /\ o.path \in Prefixes(Member.path)
  /\ o.op \in {"Link", "Truncate"} => Member.kind = "HardLink"
  /\ o.op \in {"Queue", "Enqueue", "Create"} => Member.kind = "File"

Closing == {"Flush", "Await", "MakeLink"}

(* A call awaits its batch at once, and the links come last.               *)
Orderly(o, b) ==
  /\ o.op = "Await" => b = {}
  /\ \A e \in b : e.op # "Validate"
  /\ o.op \in {"Validate", "MakeLink"} => \A e \in b : e.op \in Closing

(* The operations that rely on the parents of their path.                  *)
Settled ==
  {"Enqueue", "Parent", "Directory", "Create", "Write", "Replace", "Reserve", "Link", "Truncate"}

Rooted(o, b) ==
  o.op \in Settled => \A q \in Prefixes(o.path) : IsDirectory(q) \/ Op("Parent", q) \in b

(* What needs the files of the archive comes after their batch.            *)
Emptied(o, b) ==
  o.op \in {"Link", "Validate", "MakeLink"} =>
    buffered = <<>> \/ \E e \in b : e.op = "Flush"

Sourced(o, b) == o.op = "Link" => Linkable(Member) \/ \E e \in b : e.op = "Target"

Truncable(o, b) == o.op = "Truncate" => ~Old(o.path) \/ \E e \in b : e.op = "Link"

Justified(o, b) ==
  /\ Placed(o) /\ Orderly(o, b) /\ Rooted(o, b) /\ Emptied(o, b)
  /\ Sourced(o, b) /\ Truncable(o, b)

RowInv == \A l \in Left(todo) : Justified(l.do, l.after)

(* What a step on the first operation left must do for those after it.     *)
Keeps(add) ==
  /\ members' = members
  /\ \A e \in add : /\ e.op # "Validate"
                    /\ Head(todo).op \in Closing => e.op \in Closing
  /\ \A q : Head(todo) = Op("Parent", q) => Head(todo) \in add \/ IsDirectory(q)'
  /\ Member.path # <<>> => \A q \in Prefixes(Member.path) : IsDirectory(q) => IsDirectory(q)'
  /\ buffered # <<>> /\ buffered' # <<>> => Head(todo).op # "Flush"
  /\ buffered = <<>> /\ buffered' # <<>> => Head(todo).op = "Enqueue"
  /\ Linkable(Member) => Linkable(Member)'
  /\ Head(todo).op = "Target" /\ Member.kind = "HardLink" => Linkable(Member)'
  /\ Current > 0 /\ ~Old(Member.path) => ~Old(Member.path)'
  /\ Head(todo).op = "Link" => ~Old(Member.path)'

LEMMA MemberPath ==
  ASSUME members \in Seq(Members), Current > 0
  PROVE  Current \in Nat /\ Member \in Members /\ Member \in MemberType /\ Member.path \in Paths
<1>1. Current \in Nat /\ Current \in 1..Len(members)
  BY DEF Current
<1>2. Member \in Members
  BY <1>1 DEF Member
<1>3. Member \in MemberType
  BY <1>2, ExtractionAssumption
<1>. QED  BY <1>1, <1>2, <1>3 DEF MemberType, Paths

LEMMA Kept ==
  ASSUME NEW add, Keeps(add), Placed(Head(todo)), members \in Seq(Members),
         NEW m, NEW n, Justified(m.do, m.after),
         m.do = n.do, NEW rest, m.after = {Head(todo)} \cup rest, n.after = add \cup rest
  PROVE  Justified(n.do, n.after)'
<1>. DEFINE o == n.do
            b == n.after
<1>1. members' = members /\ Current' = Current /\ Member' = Member
  BY DEF Keeps, Current, Member
<1>2. Placed(o) /\ Orderly(o, m.after) /\ Rooted(o, m.after) /\ Emptied(o, m.after)
      /\ Sourced(o, m.after) /\ Truncable(o, m.after)
  BY DEF Justified, Placed, Orderly, Rooted, Emptied, Sourced, Truncable
<1>3. Head(todo) \in m.after /\ \A e \in m.after : e = Head(todo) \/ e \in b
  OBVIOUS
<1>4. Placed(o)'
  BY <1>1, <1>2 DEF Placed
<1>5. Orderly(o, b)'
  <2>1. o.op # "Await"
    BY <1>2, <1>3 DEF Orderly
  <2>2. \A e \in b : e.op # "Validate"
    BY <1>2 DEF Orderly, Keeps
  <2>3. ASSUME o.op \in {"Validate", "MakeLink"}, NEW e \in b PROVE e.op \in Closing
    <3>1. \A d \in m.after : d.op \in Closing
      BY <1>2, <2>3 DEF Orderly
    <3>. QED  BY <1>3, <3>1 DEF Keeps
  <2>. QED  BY <2>1, <2>2, <2>3 DEF Orderly, Closing
<1>6. Rooted(o, b)'
  <2>. SUFFICES ASSUME o.op \in Settled, NEW q \in Prefixes(o.path), Op("Parent", q) \notin b
                PROVE  IsDirectory(q)'
    BY DEF Rooted
  <2>1. Member.path # <<>> /\ q \in Prefixes(Member.path)
    <3>1. CASE o.op = "Parent"
      <4>1. Current > 0 /\ Member.path # <<>> /\ o.path \in Prefixes(Member.path)
        BY <1>2, <3>1 DEF Placed
      <4>2. Prefixes(o.path) \subseteq Prefixes(Member.path)
        BY <4>1, MemberPath, PathParts
      <4>. QED  BY <4>1, <4>2
    <3>2. CASE o.op # "Parent"
      BY <1>2, <3>2 DEF Placed, MemberOps, Settled
    <3>. QED  BY <3>1, <3>2
  <2>2. CASE IsDirectory(q)
    BY <2>1, <2>2 DEF Keeps
  <2>3. CASE Head(todo) = Op("Parent", q)
    BY <1>3, <2>3 DEF Keeps
  <2>. QED  BY <1>2, <1>3, <2>2, <2>3 DEF Rooted
<1>7. Emptied(o, b)'
  <2>. SUFFICES ASSUME o.op \in {"Link", "Validate", "MakeLink"}, buffered' # <<>>,
                       \A e \in b : e.op # "Flush"
                PROVE  FALSE
    BY DEF Emptied
  <2>1. CASE buffered = <<>>
    <3>1. Head(todo).op = "Enqueue"
      BY <2>1 DEF Keeps
    <3>2. Member.kind = "File"
      BY <3>1 DEF Placed
    <3>3. o.op # "Link"
      BY <1>2, <3>2 DEF Placed
    <3>4. Head(todo).op \in Closing
      BY <1>2, <1>3, <3>3 DEF Orderly
    <3>. QED  BY <3>1, <3>4 DEF Closing
  <2>2. CASE buffered # <<>>
    <3>1. Head(todo).op # "Flush"
      BY <2>2 DEF Keeps
    <3>. QED  BY <1>2, <1>3, <2>2, <3>1 DEF Emptied
  <2>. QED  BY <2>1, <2>2
<1>8. Sourced(o, b)'
  <2>. SUFFICES ASSUME o.op = "Link", \A e \in b : e.op # "Target"
                PROVE  Linkable(Member)'
    BY DEF Sourced
  <2>1. Member.kind = "HardLink"
    BY <1>2 DEF Placed
  <2>2. Linkable(Member) \/ Head(todo).op = "Target"
    BY <1>2, <1>3 DEF Sourced
  <2>. QED  BY <2>1, <2>2 DEF Keeps
<1>9. Truncable(o, b)'
  <2>. SUFFICES ASSUME o.op = "Truncate", \A e \in b : e.op # "Link"
                PROVE  ~Old(o.path)'
    BY DEF Truncable
  <2>1. o.path = Member.path /\ Current > 0
    BY <1>2 DEF Placed, MemberOps
  <2>2. ~Old(o.path) \/ Head(todo).op = "Link"
    BY <1>2, <1>3 DEF Truncable
  <2>3. ~Old(Member.path)'
    BY <2>1, <2>2 DEF Keeps, Old
  <2>. QED  BY <1>1, <2>1, <2>3 DEF Old
<1>. QED  BY <1>4, <1>5, <1>6, <1>7, <1>8, <1>9 DEF Justified

LEMMA RowThen ==
  ASSUME NEW ops \in Seq(OpType), todo \in Seq(OpType), todo # <<>>, RowInv,
         members \in Seq(Members), Keeps(Elems(ops)),
         \A l \in Left(ops) : Justified(l.do, l.after)',
         todo' = IF phase = "dropped" THEN <<>> ELSE ops \o Tail(todo)
  PROVE  todo' \in Seq(OpType) /\ RowInv'
<1>1. Tail(todo) \in Seq(OpType) /\ ops \o Tail(todo) \in Seq(OpType)
  OBVIOUS
<1>2. CASE phase = "dropped"
  <2>1. todo' = <<>> /\ Left(todo') = {}
    BY <1>2, LeftNone
  <2>. QED  BY <2>1 DEF RowInv
<1>3. CASE phase # "dropped"
  <2>1. todo' = ops \o Tail(todo)
    BY <1>3
  <2>2. Placed(Head(todo))
    BY HeadLeft DEF RowInv, Justified
  <2>3. ASSUME NEW l \in Left(todo') PROVE Justified(l.do, l.after)'
    <3>1. CASE l \in Left(ops)
      BY <3>1
    <3>2. ASSUME NEW m \in Left(Tail(todo)), l.do = m.do, l.after = Elems(ops) \cup m.after
          PROVE  Justified(l.do, l.after)'
      <4>1. PICK n \in Left(todo) : n.do = m.do /\ n.after = {Head(todo)} \cup m.after
        BY LeftTail
      <4>2. Justified(n.do, n.after)
        BY DEF RowInv
      <4>. QED  BY <2>2, <3>2, <4>1, <4>2, Kept
    <3>3. l \in Left(ops \o Tail(todo))
      BY <2>1
    <3>4. l \in Left(ops) \/ \E m \in Left(Tail(todo)) : l.do = m.do /\ l.after = Elems(ops) \cup m.after
      <4>1. \A s, t \in Seq(OpType) : \A k \in Left(s \o t) :
              k \in Left(s) \/ \E m \in Left(t) : k.do = m.do /\ k.after = Elems(s) \cup m.after
        BY LeftConcat
      <4>2. Tail(todo) \in Seq(OpType) /\ ops \in Seq(OpType)
        BY <1>1
      <4>3. \A k \in Left(ops \o Tail(todo)) :
              k \in Left(ops) \/ \E m \in Left(Tail(todo)) : k.do = m.do /\ k.after = Elems(ops) \cup m.after
        BY <4>1, <4>2, Zenon
      <4>. QED  BY <3>3, <4>3, Zenon
    <3>. QED  BY <3>1, <3>2, <3>4
  <2>. QED  BY <1>1, <2>1, <2>3 DEF RowInv
<1>. QED  BY <1>2, <1>3

Queued == Elems(buffered) \cup Elems(task.files)

Kinds == {"CreatedDirectory", "AmbientDirectory", "File", "Symlink"}

TypeInv ==
  /\ policy \in Policies /\ members \in Seq(Members) /\ todo \in Seq(OpType)
  /\ phase \in {"running", "returned", "dropped"} /\ cancelled \in BOOLEAN
  /\ buffered \in Seq(FileType)
  /\ task \in [files : Seq(FileType), stage : {"start", "checked", "removed", "created"},
               error : {"None", "Filesystem", "PathCollision"}]
  /\ DOMAIN entries \subseteq Paths \ {<<>>}
  /\ \A p \in DOMAIN entries : entries[p].kind \in Kinds
  /\ symlinks \in Seq(LinkType)
  /\ handle \in HandleType
  /\ 0 \in DOMAIN data

DiskInv ==
  \A p \in DOMAIN fs :
    /\ p # <<>> /\ fs[p].type \in {"Directory", "File", "Link"}
    /\ fs[p].type = "Directory" => fs[p].by \in Nat

(* A task runs while the call awaits it, or by itself; when a call failed, *)
(* only what is buffered is still written.                                 *)
TaskInv ==
  /\ task.files # <<>> =>
       (phase = "running" /\ Doing("Await")) \/ (phase = "dropped" /\ todo = <<>>)
  /\ task.files = <<>> => task.stage = "start"
  /\ task.error # "None" => result # "Pending" \/ Doing("Await") \/ phase = "dropped"
  /\ cancelled <=> phase = "dropped"
  /\ phase = "dropped" => todo = <<>> \/ (Len(todo) = 1 /\ Head(todo).op \in BlockingOps)
  /\ phase = "returned" => todo = <<>>
  /\ phase = "running" /\ result # "Pending" =>
       /\ \A e \in Elems(todo) : e.op \in {"Flush", "Await", "Return"}
       /\ \E e \in Elems(todo) : e.op = "Return"

(* Contents are written right after the file was created or emptied.       *)
WriteInv ==
  /\ \A k \in 2..Len(todo) : todo[k].op = "Write" => todo[k - 1].op \in {"Create", "Truncate"}
  /\ Doing("Write") => Spot = OnDisk(Path) /\ NodeAt(Spot).type = "File" /\ ~Old(Path)

(* The links are being made, and nothing else is done any more.            *)
Linking ==
  /\ \A e \in Elems(todo) : e.op \in Closing \cup {"Return"}
  /\ buffered = <<>> /\ task.files = <<>>
  /\ phase = "running" => \E e \in Elems(todo) : e.op = "Return"

(* Until then no link is where a path was or will be descended.            *)
NoLinks ==
  /\ \A p \in DOMAIN entries : /\ \A q \in Prefixes(p) : NoLink(q)
                               /\ IsDirectory(p) => NoLink(p)
  /\ \A f \in Queued : \A q \in Prefixes(f.path) : NoLink(q)

LinkInv ==
  /\ Linking \/ NoLinks
  /\ (\E e \in Elems(todo) : e.op = "MakeLink") => Linking

AllowedInv ==
  ~policy.allow_overwrites => \A f \in Queued : f.replacement = "Disallowed"

(* A file of the archive is no file that was there before.                 *)
OwnInv ==
  phase = "running" /\ result = "Pending" /\ task.error = "None" =>
    /\ \A p \in DOMAIN entries : entries[p].kind = "File" =>
         ~Old(p) \/ \E f \in Queued : f.path = p
    /\ task.stage = "created" => ~Old(Batched.path)

Inv ==
  /\ TypeInv /\ DiskInv /\ TaskInv /\ RowInv /\ WriteInv /\ LinkInv /\ AllowedInv /\ OwnInv

-----------------------------------------------------------------------------
(* Steps on the disk and on the state of the paths.                        *)

LEMMA PutNode ==
  ASSUME NEW p, p # <<>>, NEW node, Put(p, node)
  PROVE  \A q : NodeAt(q)' = IF q = p THEN node ELSE NodeAt(q)
BY DEF Put, NodeAt

LEMMA RemoveNode ==
  ASSUME NEW p, p # <<>>, Remove(p)
  PROVE  \A q : NodeAt(q)' = IF q = p THEN Nothing ELSE NodeAt(q)
BY DEF Remove, NodeAt

LEMMA SameNode ==
  ASSUME UNCHANGED fs
  PROVE  \A q : NodeAt(q)' = NodeAt(q)
BY DEF NodeAt

(* Something is at a place the disk has.                                   *)
LEMMA NodeThere ==
  ASSUME DiskInv, NEW p
  PROVE  /\ NodeAt(p).type \in {"Directory", "File", "Link", "Nothing"}
         /\ NodeAt(p).type = "Directory" => NodeAt(p).by \in Nat
         /\ NodeAt(p) = Nothing <=> NodeAt(p).type = "Nothing"
         /\ NodeAt(p) = Nothing <=> p # <<>> /\ p \notin DOMAIN fs
BY DEF DiskInv, NodeAt, Nothing, Directory

NoNewLinks == \A p : NoLink(p) => NoLink(p)'
NoNewOld   == \A p : ~Old(p) => ~Old(p)'

LEMMA PutGentle ==
  ASSUME NEW p, p # <<>>, NEW node, Put(p, node), DiskInv,
         node.type \in {"Directory", "File", "Link"}, node.type = "File" => node.inode # 0,
         node.type = "Directory" => node.by \in Nat
  PROVE  DiskInv' /\ NoNewOld /\ (node.type # "Link" => NoNewLinks)
<1>1. \A q : NodeAt(q)' = IF q = p THEN node ELSE NodeAt(q)
  BY PutNode
<1>2. DiskInv'
  BY DEF DiskInv, Put
<1>3. NoNewOld /\ (node.type # "Link" => NoNewLinks)
  BY <1>1 DEF NoNewOld, NoNewLinks, Old, NoLink
<1>. QED  BY <1>2, <1>3

LEMMA RemoveGentle ==
  ASSUME NEW p, p # <<>>, Remove(p), DiskInv
  PROVE  DiskInv' /\ NoNewOld /\ NoNewLinks
<1>1. \A q : NodeAt(q)' = IF q = p THEN Nothing ELSE NodeAt(q)
  BY RemoveNode
<1>2. DiskInv'
  BY DEF DiskInv, Remove
<1>3. NoNewOld /\ NoNewLinks
  BY <1>1 DEF NoNewOld, NoNewLinks, Old, NoLink, Nothing
<1>. QED  BY <1>2, <1>3

LEMMA SameGentle ==
  ASSUME UNCHANGED fs, DiskInv
  PROVE  DiskInv' /\ NoNewOld /\ NoNewLinks
BY DEF DiskInv, NoNewOld, NoNewLinks, Old, NoLink, NodeAt

LEMMA SetStateIs ==
  ASSUME NEW p, p # <<>>, NEW state, SetState(p, state)
  PROVE  /\ \A q : StateOf(q)' = IF q = p THEN state ELSE StateOf(q)
         /\ DOMAIN entries' = DOMAIN entries \cup {p} /\ entries'[p] = state
         /\ \A q \in DOMAIN entries' : q # p => q \in DOMAIN entries /\ entries'[q] = entries[q]
BY DEF SetState, StateOf

LEMMA ClearStateIs ==
  ASSUME NEW p, p # <<>>, ClearState(p)
  PROVE  /\ \A q : StateOf(q)' = IF q = p THEN Plain("None") ELSE StateOf(q)
         /\ DOMAIN entries' = DOMAIN entries \ {p}
         /\ \A q \in DOMAIN entries' : q \in DOMAIN entries /\ entries'[q] = entries[q]
BY DEF ClearState, StateOf

LEMMA SameState ==
  ASSUME UNCHANGED entries
  PROVE  \A q : StateOf(q)' = StateOf(q)
BY DEF StateOf

DirectoryKinds == {"CreatedDirectory", "AmbientDirectory"}

(* What a step leaves true of the places the paths have, if it adds no     *)
(* link and no state but a true one.                                       *)
LEMMA WorldKept ==
  ASSUME TypeInv, LinkInv, AllowedInv, OwnInv, DOMAIN entries' \subseteq Paths \ {<<>>},
         UNCHANGED <<policy, task, buffered>>, NoNewOld,
         phase' = "running" => phase = "running", result' = "Pending" => result = "Pending",
         \A q \in DOMAIN entries' :
           \/ q \in DOMAIN entries /\ entries'[q] = entries[q]
           \/ /\ \A r \in Prefixes(q) : NoLink(r)
              /\ entries'[q].kind \in DirectoryKinds => NoLink(q)'
              /\ entries'[q].kind = "File" => ~Old(q)'
  PROVE  (NoLinks /\ NoNewLinks => NoLinks') /\ AllowedInv' /\ OwnInv'
<1>1. Queued' = Queued
  BY DEF Queued
<1>2. AllowedInv'
  BY <1>1 DEF AllowedInv
<1>3. OwnInv'
  <2>. SUFFICES ASSUME (phase = "running" /\ result = "Pending" /\ task.error = "None")'
                PROVE  (/\ \A p \in DOMAIN entries : entries[p].kind = "File" =>
                             ~Old(p) \/ \E f \in Queued : f.path = p
                        /\ task.stage = "created" => ~Old(Batched.path))'
    BY DEF OwnInv
  <2>1. /\ \A p \in DOMAIN entries : entries[p].kind = "File" =>
             ~Old(p) \/ \E f \in Queued : f.path = p
        /\ task.stage = "created" => ~Old(Batched.path)
    BY DEF OwnInv
  <2>2. ASSUME NEW p \in DOMAIN entries', entries'[p].kind = "File"
        PROVE  ~Old(p)' \/ \E f \in Queued : f.path = p
    <3>1. CASE p \in DOMAIN entries /\ entries'[p] = entries[p]
      BY <2>1, <2>2, <3>1 DEF NoNewOld
    <3>2. CASE ~(p \in DOMAIN entries /\ entries'[p] = entries[p])
      BY <2>2, <3>2
    <3>. QED  BY <3>1, <3>2
  <2>3. task.stage = "created" => ~Old(Batched.path)'
    BY <2>1 DEF NoNewOld, Batched, Old
  <2>. QED  BY <1>1, <2>2, <2>3 DEF Batched
<1>4. ASSUME NoLinks, NoNewLinks PROVE NoLinks'
  <2>1. ASSUME NEW p \in DOMAIN entries', NEW q \in Prefixes(p) PROVE NoLink(q)'
    BY <1>4, <2>1 DEF NoLinks, NoNewLinks
  <2>2. ASSUME NEW p \in DOMAIN entries', IsDirectory(p)' PROVE NoLink(p)'
    <3>1. p # <<>> /\ entries'[p].kind \in DirectoryKinds
      BY <2>2 DEF IsDirectory, StateOf, DirectoryKinds
    <3>2. CASE p \in DOMAIN entries /\ entries'[p] = entries[p]
      <4>1. IsDirectory(p)
        BY <3>1, <3>2 DEF IsDirectory, StateOf, DirectoryKinds
      <4>. QED  BY <1>4, <3>2, <4>1 DEF NoLinks, NoNewLinks
    <3>3. CASE ~(p \in DOMAIN entries /\ entries'[p] = entries[p])
      BY <3>1, <3>3
    <3>. QED  BY <3>2, <3>3
  <2>3. ASSUME NEW f \in Queued, NEW q \in Prefixes(f.path) PROVE NoLink(q)'
    BY <1>4 DEF NoLinks, NoNewLinks
  <2>. QED  BY <1>1, <2>1, <2>2, <2>3 DEF NoLinks
<1>. QED  BY <1>2, <1>3, <1>4

-----------------------------------------------------------------------------
(* Steps on what is left to do.                                            *)

LEMMA TailElems ==
  ASSUME NEW T, NEW s \in Seq(T), s # <<>>
  PROVE  /\ Elems(s) = {Head(s)} \cup Elems(Tail(s)) /\ Elems(s) \subseteq T
         /\ Head(s) \in T /\ Tail(s) \in Seq(T)
<1>1. /\ Len(s) \in Nat /\ Len(s) > 0 /\ Len(Tail(s)) = Len(s) - 1 /\ Head(s) = s[1]
      /\ \A k \in 1..Len(Tail(s)) : Tail(s)[k] = s[k + 1] /\ k + 1 \in 1..Len(s)
      /\ \A k \in 1..Len(s) : s[k] \in T
  BY EmptySeq
<1>2. \A k \in 1..Len(s) : k = 1 \/ (k - 1 \in 1..Len(Tail(s)) /\ (k - 1) + 1 = k)
  BY <1>1
<1>3. ASSUME NEW k \in 1..Len(s) PROVE s[k] \in {Head(s)} \cup Elems(Tail(s))
  BY <1>1, <1>2 DEF Elems
<1>4. 1 \in 1..Len(s)
  BY <1>1
<1>5. Elems(Tail(s)) \subseteq Elems(s)
  BY <1>1 DEF Elems
<1>6. Elems(s) \subseteq {Head(s)} \cup Elems(Tail(s))
  BY <1>3 DEF Elems
<1>7. Head(s) \in Elems(s) /\ Elems(s) \subseteq T
  BY <1>1, <1>4 DEF Elems
<1>8. Head(s) \in T /\ Tail(s) \in Seq(T)
  BY <1>1, <1>4
<1>. QED  BY <1>5, <1>6, <1>7, <1>8

LEMMA ElemsThen ==
  ASSUME NEW ops \in Seq(OpType), todo \in Seq(OpType), todo # <<>>,
         todo' = IF phase = "dropped" THEN <<>> ELSE ops \o Tail(todo)
  PROVE  /\ Elems(todo') \subseteq Elems(ops) \cup Elems(todo)
         /\ phase # "dropped" => Elems(todo') = Elems(ops) \cup Elems(Tail(todo))
         /\ todo' \in Seq(OpType)
<1>1. Tail(todo) \in Seq(OpType) /\ Elems(Tail(todo)) \subseteq Elems(todo)
  BY TailElems
<1>2. CASE phase = "dropped"
  <2>1. todo' = <<>> /\ Elems(<<>>) = {} /\ <<>> \in Seq(OpType)
    BY <1>2, LeftNone
  <2>. QED  BY <1>2, <2>1
<1>3. CASE phase # "dropped"
  <2>1. todo' = ops \o Tail(todo)
    BY <1>3
  <2>2. Elems(ops \o Tail(todo)) = Elems(ops) \cup Elems(Tail(todo))
    <3>1. \A s, t \in Seq(OpType) : Elems(s \o t) = Elems(s) \cup Elems(t)
      BY ElemsConcat
    <3>. QED  BY <1>1, <3>1, Zenon
  <2>. QED  BY <1>1, <1>3, <2>1, <2>2
<1>. QED  BY <1>2, <1>3

(* Only the first operation is under way, and what it may be.              *)
LEMMA NotLinking ==
  ASSUME TypeInv, LinkInv, TaskInv, todo # <<>>, Head(todo).op \notin Closing \cup {"Return"}
  PROVE  /\ NoLinks /\ \A e \in Elems(todo) : e.op # "MakeLink"
         /\ task.files = <<>> /\ task.stage = "start" /\ phase \in {"running", "dropped"}
         /\ phase = "running" => result = "Pending" /\ task.error = "None"
<1>1. Head(todo) \in Elems(todo)
  BY TailElems DEF TypeInv
<1>2. ~Linking
  BY <1>1 DEF Linking
<1>3. NoLinks /\ \A e \in Elems(todo) : e.op # "MakeLink"
  BY <1>2 DEF LinkInv
<1>4. ~Doing("Await")
  BY DEF Doing, Closing
<1>5. task.files = <<>> /\ task.stage = "start" /\ phase \in {"running", "dropped"}
  BY <1>4 DEF TaskInv, TypeInv
<1>6. phase = "running" => result = "Pending" /\ task.error = "None"
  BY <1>1, <1>4 DEF TaskInv, Closing
<1>. QED  BY <1>3, <1>5, <1>6

Leads(s) == \A k \in 2..Len(s) : s[k].op = "Write" => s[k - 1].op \in {"Create", "Truncate"}

Ready == Spot = OnDisk(Path) /\ NodeAt(Spot).type = "File" /\ ~Old(Path)

LEMMA WriteThen ==
  ASSUME NEW ops \in Seq(OpType), todo \in Seq(OpType), todo # <<>>, WriteInv, Leads(ops),
         todo' = IF phase = "dropped" THEN <<>> ELSE ops \o Tail(todo),
         ops # <<>> => Head(ops).op # "Write",
         Head(todo).op \in {"Create", "Truncate"} =>
           IF ops = <<>> THEN (Doing("Write"))' => Ready'
           ELSE ops[Len(ops)].op \in {"Create", "Truncate"}
  PROVE  WriteInv'
<1>1. CASE phase = "dropped"
  <2>1. todo' = <<>> /\ 2..Len(todo') = {}
    BY <1>1
  <2>. QED  BY <2>1 DEF WriteInv, Doing
<1>2. CASE phase # "dropped"
  <2>. DEFINE tail == Tail(todo)
              row == ops \o tail
  <2>1. todo' = row
    BY <1>2
  <2>2. /\ Len(ops) \in Nat /\ Len(tail) \in Nat /\ tail \in Seq(OpType)
        /\ Len(todo) = Len(tail) + 1 /\ Head(todo) = todo[1]
        /\ \A k \in 1..Len(tail) : tail[k] = todo[k + 1]
    BY EmptySeq
  <2>3. /\ Len(row) = Len(ops) + Len(tail)
        /\ \A k \in 1..Len(ops) : row[k] = ops[k]
        /\ \A k \in 1..Len(tail) : row[Len(ops) + k] = tail[k]
    <3>. HIDE DEF tail
    <3>. QED  BY <2>2, ConcatProperties
  <2>4. ops = <<>> <=> Len(ops) = 0
    BY EmptySeq
  <2>. HIDE DEF row, tail
  <2>5. ASSUME NEW k \in 2..Len(row), row[k].op = "Write"
        PROVE  row[k - 1].op \in {"Create", "Truncate"}
    <3>1. CASE k <= Len(ops)
      <4>1. k \in 2..Len(ops) /\ k \in 1..Len(ops) /\ k - 1 \in 1..Len(ops)
        BY <2>2, <2>3, <3>1
      <4>. QED  BY <2>3, <2>5, <4>1 DEF Leads
    <3>2. CASE k > Len(ops) + 1
      <4>. DEFINE i == k - Len(ops)
              j == i - 1
      <4>0. \A x, y \in Nat : \A n \in 2..(x + y) : n > x + 1 =>
              /\ n - x \in 1..y /\ (n - x) - 1 \in 1..y /\ n = x + (n - x)
              /\ n - 1 = x + ((n - x) - 1) /\ (n - x) + 1 \in 2..(y + 1)
              /\ ((n - x) - 1) + 1 = ((n - x) + 1) - 1
        OBVIOUS
      <4>1. /\ i \in 1..Len(tail) /\ j \in 1..Len(tail) /\ k = Len(ops) + i
            /\ k - 1 = Len(ops) + j /\ i + 1 \in 2..Len(todo) /\ j + 1 = (i + 1) - 1
        BY <2>2, <2>3, <3>2, <4>0, ZenonT(60)
      <4>. HIDE DEF i, j
      <4>2. row[k] = todo[i + 1] /\ row[k - 1] = todo[(i + 1) - 1]
        <5>1. row[Len(ops) + i] = todo[i + 1] /\ row[Len(ops) + j] = todo[j + 1]
          BY <2>2, <2>3, <4>1
        <5>2. row[k] = row[Len(ops) + i] /\ row[k - 1] = row[Len(ops) + j]
              /\ todo[j + 1] = todo[(i + 1) - 1]
          BY <4>1, Zenon
        <5>. QED  BY <5>1, <5>2, Zenon
      <4>. QED  BY <2>5, <4>1, <4>2 DEF WriteInv
    <3>3. CASE k = Len(ops) + 1
      <4>1. /\ 1 \in 1..Len(tail) /\ 2 \in 2..Len(todo) /\ k - 1 = Len(ops)
            /\ Len(ops) \in 1..Len(ops) /\ Len(ops) # 0 /\ 2 - 1 = 1 /\ 1 + 1 = 2
        BY <2>2, <2>3, <3>3
      <4>2. row[k] = todo[2] /\ row[k - 1] = ops[Len(ops)]
        BY <2>2, <2>3, <3>3, <4>1
      <4>3. Head(todo).op \in {"Create", "Truncate"}
        BY <2>2, <2>5, <4>1, <4>2 DEF WriteInv
      <4>. QED  BY <2>4, <4>1, <4>2, <4>3
    <3>4. k <= Len(ops) \/ k > Len(ops) + 1 \/ k = Len(ops) + 1
      BY <2>2, <2>3
    <3>. QED  BY <3>1, <3>2, <3>3, <3>4
  <2>6. ASSUME (Doing("Write"))' PROVE Ready'
    <3>1. row # <<>> /\ Head(row).op = "Write"
      BY <2>1, <2>6 DEF Doing
    <3>2. row \in Seq(OpType) /\ Len(row) # 0 /\ Head(row) = row[1]
      BY <2>2, <3>1, EmptySeq DEF row
    <3>3. CASE ops = <<>>
      <4>1. 1 \in 1..Len(tail) /\ 2 \in 2..Len(todo) /\ 2 - 1 = 1 /\ Len(ops) + 1 = 1 /\ 1 + 1 = 2
        BY <2>2, <2>3, <2>4, <3>2, <3>3
      <4>2. row[1] = todo[2]
        BY <2>2, <2>3, <4>1
      <4>3. Head(todo).op \in {"Create", "Truncate"}
        BY <2>2, <3>1, <3>2, <4>1, <4>2 DEF WriteInv
      <4>. QED  BY <2>6, <3>3, <4>3
    <3>4. CASE ops # <<>>
      <4>1. 1 \in 1..Len(ops) /\ Head(ops) = ops[1]
        BY <2>2, <2>4, <3>4
      <4>. QED  BY <2>3, <3>1, <3>2, <3>4, <4>1
    <3>. QED  BY <3>3, <3>4
  <2>. QED  BY <2>1, <2>5, <2>6 DEF WriteInv, Ready
<1>. QED  BY <1>1, <1>2

LEMMA ThenKeeps ==
  ASSUME TypeInv, TaskInv, RowInv, WriteInv, LinkInv, todo # <<>>,
         Head(todo).op \notin Closing \cup {"Return"},
         NEW ops \in Seq(OpType), Then(ops), UNCHANGED <<task, cancelled, members>>,
         Keeps(Elems(ops)), \A l \in Left(ops) : Justified(l.do, l.after)',
         \A e \in Elems(ops) : e.op # "MakeLink",
         Leads(ops), ops # <<>> => Head(ops).op # "Write",
         Head(todo).op \in {"Create", "Truncate"} =>
           IF ops = <<>> THEN (Doing("Write"))' => Ready'
           ELSE ops[Len(ops)].op \in {"Create", "Truncate"}
  PROVE  /\ todo' \in Seq(OpType) /\ RowInv' /\ TaskInv' /\ WriteInv' /\ (NoLinks' => LinkInv')
         /\ UNCHANGED <<phase, result>>
<1>1. /\ todo \in Seq(OpType) /\ members \in Seq(Members)
      /\ todo' = (IF phase = "dropped" THEN <<>> ELSE ops \o Tail(todo))
      /\ UNCHANGED <<phase, result>>
  BY DEF TypeInv, Then
<1>2. todo' \in Seq(OpType) /\ RowInv'
  BY <1>1, RowThen
<1>3. WriteInv'
  BY <1>1, WriteThen
<1>4. /\ NoLinks /\ \A e \in Elems(todo) : e.op # "MakeLink"
      /\ task.files = <<>> /\ task.stage = "start" /\ phase \in {"running", "dropped"}
      /\ phase = "running" => result = "Pending" /\ task.error = "None"
  BY NotLinking
<1>5. TaskInv'
  BY <1>1, <1>4 DEF TaskInv
<1>6. \A e \in Elems(todo') : e.op # "MakeLink"
  BY <1>1, <1>4, ElemsThen
<1>. QED  BY <1>1, <1>2, <1>3, <1>5, <1>6 DEF LinkInv

(* An operation that only leaves others to do.                             *)
LEMMA PassKeeps ==
  ASSUME Inv, todo # <<>>, Head(todo).op \notin Closing \cup {"Return", "Link"},
         NEW ops \in Seq(OpType), Then(ops),
         UNCHANGED <<diskVars, rootVars, task, policy, cancelled, members>>,
         \A l \in Left(ops) : Justified(l.do, l.after),
         \A e \in Elems(ops) : e.op \notin {"Validate", "MakeLink"},
         \A q : Head(todo) = Op("Parent", q) => IsDirectory(q),
         Head(todo).op = "Target" /\ Member.kind = "HardLink" => Linkable(Member),
         Leads(ops), ops # <<>> => Head(ops).op # "Write",
         Head(todo).op \in {"Create", "Truncate"} =>
           ops # <<>> /\ ops[Len(ops)].op \in {"Create", "Truncate"}
  PROVE  Inv'
<1>1. TypeInv /\ DiskInv /\ TaskInv /\ RowInv /\ WriteInv /\ LinkInv /\ AllowedInv /\ OwnInv
  BY DEF Inv
<1>2. DiskInv' /\ NoNewOld /\ NoNewLinks
  BY <1>1, SameGentle DEF diskVars
<1>3. \A q : StateOf(q)' = StateOf(q)
  BY SameState DEF rootVars
<1>4. Current' = Current /\ Member' = Member
  BY DEF Current, Member
<1>5. \A q : IsDirectory(q)' = IsDirectory(q)
  BY <1>3 DEF IsDirectory
<1>6. Linkable(Member)' = Linkable(Member)
  BY <1>3, <1>4 DEF Linkable
<1>7. Keeps(Elems(ops))
  <2>1. ~Old(Member.path) => ~Old(Member.path)'
    BY <1>2, <1>4 DEF NoNewOld, Old
  <2>. QED  BY <1>5, <1>6, <2>1 DEF Keeps, Closing, rootVars
<1>8. ASSUME NEW l \in Left(ops) PROVE Justified(l.do, l.after)'
  <2>1. Old(l.do.path)' = Old(l.do.path)
    BY DEF Old, NodeAt, diskVars
  <2>. QED  BY <1>4, <1>5, <1>6, <2>1
            DEF Justified, Placed, Orderly, Rooted, Emptied, Sourced, Truncable, rootVars
<1>9. /\ todo' \in Seq(OpType) /\ RowInv' /\ TaskInv' /\ WriteInv' /\ (NoLinks' => LinkInv')
      /\ UNCHANGED <<phase, result>>
  BY <1>1, <1>7, <1>8, ThenKeeps
<1>10. TypeInv'
  BY <1>1, <1>9 DEF TypeInv, diskVars, rootVars
<1>11. (NoLinks /\ NoNewLinks => NoLinks') /\ AllowedInv' /\ OwnInv'
  BY <1>1, <1>2, <1>9, <1>10, WorldKept DEF TypeInv, rootVars
<1>12. NoLinks
  BY <1>1, NotLinking
<1>. QED  BY <1>2, <1>9, <1>10, <1>11, <1>12 DEF Inv

(* An operation that fails.                                                *)
LEMMA FailKeeps ==
  ASSUME TypeInv, TaskInv, NEW error, FailWith(error), error # "Pending",
         members' \in Seq(Members), UNCHANGED <<task, cancelled>>,
         task.files = <<>>, phase \in {"running", "dropped"}
  PROVE  /\ todo' \in Seq(OpType) /\ RowInv' /\ TaskInv' /\ WriteInv'
         /\ phase' = phase /\ result' # "Pending"
         /\ buffered' = buffered /\ Linking => Linking'
         /\ \A e \in Elems(todo') : e.op # "MakeLink"
<1>. DEFINE flush == Op("Flush", <<>>)
            return == Op("Return", <<>>)
            row == IF phase = "dropped" THEN <<>> ELSE << flush, return >>
<1>1. todo' = row /\ result' = error /\ phase' = phase
  BY DEF FailWith
<1>2. flush \in OpType /\ return \in OpType /\ flush.op = "Flush" /\ return.op = "Return"
  BY OnDiskRoot DEF Op, OpType, OpNames
<1>. HIDE DEF flush, return
<1>3. row \in Seq(OpType) /\ Elems(row) \subseteq {flush, return}
      /\ (phase # "dropped" => return \in Elems(row))
  BY <1>2 DEF Elems
<1>4. ASSUME NEW l \in Left(row) PROVE Justified(l.do, l.after)'
  <2>1. PICK k \in 1..Len(row) : l.do = row[k] /\ l.after = { row[j] : j \in 1..(k - 1) }
    BY LeftOf
  <2>2. phase # "dropped" /\ Len(row) = 2
    BY <2>1
  <2>3. l.do \in {flush, return} /\ l.after \subseteq {flush, return}
    <3>1. \A j \in 1..(k - 1) : j \in 1..2
      BY <2>1, <2>2
    <3>. QED  BY <2>1, <2>2, <3>1
  <2>. QED  BY <1>2, <2>3
            DEF Justified, Placed, Orderly, Rooted, Emptied, Sourced, Truncable, MemberOps, Settled
<1>5. \A k \in 2..Len(row) : row[k].op # "Write"
  BY <1>2
<1>6. row # <<>> => Head(row).op = "Flush"
  BY <1>2
<1>. HIDE DEF row
<1>7. RowInv'
  BY <1>1, <1>4 DEF RowInv
<1>8. WriteInv'
  BY <1>1, <1>5, <1>6 DEF WriteInv, Doing
<1>9. TaskInv'
  BY <1>1, <1>2, <1>3 DEF TaskInv, row
<1>10. buffered' = buffered /\ Linking => Linking'
  BY <1>1, <1>2, <1>3 DEF Linking, Closing
<1>11. \A e \in Elems(todo') : e.op # "MakeLink"
  BY <1>1, <1>2, <1>3
<1>. QED  BY <1>1, <1>3, <1>7, <1>8, <1>9, <1>10, <1>11

LEMMA FailsKeeps ==
  ASSUME Inv, NEW error, FailWith(error), error # "Pending",
         members' \in Seq(Members), UNCHANGED <<diskVars, rootVars, task, policy, cancelled>>,
         task.files = <<>>, phase \in {"running", "dropped"}
  PROVE  Inv'
<1>1. TypeInv /\ DiskInv /\ TaskInv /\ RowInv /\ WriteInv /\ LinkInv /\ AllowedInv /\ OwnInv
  BY DEF Inv
<1>2. DiskInv' /\ NoNewOld /\ NoNewLinks
  BY <1>1, SameGentle DEF diskVars
<1>3. /\ todo' \in Seq(OpType) /\ RowInv' /\ TaskInv' /\ WriteInv'
      /\ phase' = phase /\ result' # "Pending"
      /\ buffered' = buffered /\ Linking => Linking'
      /\ \A e \in Elems(todo') : e.op # "MakeLink"
  BY <1>1, FailKeeps
<1>4. TypeInv'
  BY <1>1, <1>3 DEF TypeInv, diskVars, rootVars
<1>5. (NoLinks /\ NoNewLinks => NoLinks') /\ AllowedInv' /\ OwnInv'
  BY <1>1, <1>2, <1>3, <1>4, WorldKept DEF TypeInv, rootVars
<1>6. LinkInv'
  BY <1>1, <1>2, <1>3, <1>5 DEF LinkInv, rootVars
<1>. QED  BY <1>2, <1>3, <1>4, <1>5, <1>6 DEF Inv

-----------------------------------------------------------------------------
(* Rows that carry their own justification.                                *)

Planned(o, b, m) ==
  /\ o.op \in MemberOps => o.path = m.path /\ m.path # <<>>
  /\ o.op = "Parent" => m.path # <<>> /\ o.path \in Prefixes(m.path)
  /\ o.op \in {"Link", "Truncate"} => m.kind = "HardLink"
  /\ o.op \in {"Queue", "Enqueue", "Create"} => m.kind = "File"
  /\ Orderly(o, b)
  /\ o.op \in Settled => \A q \in Prefixes(o.path) : Op("Parent", q) \in b
  /\ o.op \in {"Link", "Validate", "MakeLink"} => \E e \in b : e.op = "Flush"
  /\ o.op = "Link" => \E e \in b : e.op = "Target"
  /\ o.op = "Truncate" => \E e \in b : e.op = "Link"
  /\ o.op = "Write" => b # {}

Plan(s, m) ==
  /\ s \in Seq(OpType) /\ Leads(s)
  /\ \A l \in Left(s) : Planned(l.do, l.after, m)

LEMMA PlannedIs ==
  ASSUME NEW l, NEW m, Planned(l.do, l.after, m)
  PROVE  /\ Current > 0 /\ Member = m => Justified(l.do, l.after)
         /\ Current' > 0 /\ Member' = m => Justified(l.do, l.after)'
BY DEF Planned, Justified, Placed, Orderly, Rooted, Emptied, Sourced, Truncable

LEMMA PlanHead ==
  ASSUME NEW s, NEW m, Plan(s, m), s # <<>>
  PROVE  Head(s).op # "Write"
<1>1. s \in Seq(OpType)
  BY DEF Plan
<1>2. PICK l \in Left(s) : l.do = Head(s) /\ l.after = {}
  BY <1>1, HeadLeft
<1>. QED  BY <1>2 DEF Plan, Planned

LEMMA PlanNone == \A m : Plan(<<>>, m)
BY LeftNone DEF Plan, Leads

LEMMA PlanAppend ==
  ASSUME NEW s, NEW m, Plan(s, m), NEW o \in OpType, Planned(o, Elems(s), m),
         o.op = "Write" => s # <<>> /\ s[Len(s)].op \in {"Create", "Truncate"}
  PROVE  Plan(s \o <<o>>, m) /\ Elems(s \o <<o>>) = Elems(s) \cup {o}
         /\ (s \o <<o>>) # <<>> /\ (s \o <<o>>)[Len(s \o <<o>>)] = o
<1>. DEFINE t == s \o <<o>>
<1>1. s \in Seq(OpType) /\ <<o>> \in Seq(OpType) /\ Leads(s)
      /\ \A l \in Left(s) : Planned(l.do, l.after, m)
  BY DEF Plan
<1>2. /\ Len(s) \in Nat /\ Len(t) = Len(s) + 1 /\ t[Len(s) + 1] = o
      /\ \A k \in 1..Len(s) : t[k] = s[k]
  BY <1>1
<1>3. t \in Seq(OpType)
  BY <1>1
<1>4. Elems(t) = Elems(s) \cup {o}
  <2>1. \A u, v \in Seq(OpType) : Elems(u \o v) = Elems(u) \cup Elems(v)
    BY ElemsConcat
  <2>. QED  BY <1>1, <2>1, ElemsOne, Zenon
<1>5. ASSUME NEW l \in Left(t) PROVE Planned(l.do, l.after, m)
  <2>1. \A u, v \in Seq(OpType) : \A k \in Left(u \o v) :
          k \in Left(u) \/ \E j \in Left(v) : k.do = j.do /\ k.after = Elems(u) \cup j.after
    BY LeftConcat
  <2>2. l \in Left(s) \/ \E j \in Left(<<o>>) : l.do = j.do /\ l.after = Elems(s) \cup j.after
    <3>1. \A k \in Left(s \o <<o>>) :
            k \in Left(s) \/ \E j \in Left(<<o>>) : k.do = j.do /\ k.after = Elems(s) \cup j.after
      BY <1>1, <2>1, Zenon
    <3>. QED  BY <3>1, Zenon
  <2>3. ASSUME NEW j \in Left(<<o>>), l.do = j.do, l.after = Elems(s) \cup j.after
        PROVE  l.do = o /\ l.after = Elems(s)
    BY <2>3, LeftOne
  <2>. QED  BY <1>1, <2>2, <2>3
<1>. HIDE DEF t
<1>6. Leads(t)
  <2>. SUFFICES ASSUME NEW k \in 2..Len(t), t[k].op = "Write"
                PROVE  t[k - 1].op \in {"Create", "Truncate"}
    BY DEF Leads
  <2>1. CASE k <= Len(s)
    <3>1. k \in 2..Len(s) /\ k \in 1..Len(s) /\ k - 1 \in 1..Len(s)
      BY <1>2, <2>1
    <3>. QED  BY <1>1, <1>2, <3>1 DEF Leads
  <2>2. CASE k = Len(s) + 1
    <3>1. k - 1 = Len(s) /\ Len(s) \in 1..Len(s)
      BY <1>2, <2>2
    <3>. QED  BY <1>2, <2>2, <3>1
  <2>3. k <= Len(s) \/ k = Len(s) + 1
    BY <1>2
  <2>. QED  BY <2>1, <2>2, <2>3
<1>7. t # <<>>
  BY <1>2, <1>3, EmptySeq
<1>8. t[Len(t)] = o
  BY <1>2
<1>9. Plan(t, m)
  BY <1>3, <1>5, <1>6 DEF Plan
<1>. QED  BY <1>4, <1>7, <1>8, <1>9 DEF t

LEMMA ParentsRow ==
  ASSUME NEW p \in Paths \ {<<>>}
  PROVE  /\ Parents(p) \in Seq(OpType)
         /\ Elems(Parents(p)) = { Op("Parent", q) : q \in Prefixes(p) }
         /\ \A l \in Left(Parents(p)) :
              /\ \E q \in Prefixes(p) : l.do = Op("Parent", q)
                                        /\ \A r \in Prefixes(q) : Op("Parent", r) \in l.after
              /\ l.after \subseteq Elems(Parents(p))
<1>. DEFINE n == Len(p) - 1
            s == Parents(p)
<1>1. n \in Nat /\ n <= Len(p) /\ p \in Seq(DOMAIN Fold)
  BY PathParts DEF Paths
<1>2. \A k \in 1..n : SubSeq(p, 1, k) \in Paths /\ SubSeq(p, 1, k) \in Prefixes(p)
      /\ Op("Parent", SubSeq(p, 1, k)) \in OpType
  <2>1. ASSUME NEW k \in 1..n PROVE SubSeq(p, 1, k) \in Paths /\ SubSeq(p, 1, k) \in Prefixes(p)
    BY <1>1, PathParts DEF Prefixes
  <2>. QED  BY <2>1 DEF Op, OpType, OpNames
<1>3. s \in [1..n -> OpType]
  BY <1>2 DEF Parents
<1>. HIDE DEF n
<1>4. s \in Seq(OpType) /\ Len(s) = n
  BY <1>1, <1>3, SeqDef, LenProperties
<1>5. \A k \in 1..n : s[k] = Op("Parent", SubSeq(p, 1, k))
  BY DEF Parents, n
<1>. HIDE DEF s
<1>6. Elems(s) = { Op("Parent", q) : q \in Prefixes(p) }
  BY <1>4, <1>5 DEF Elems, Prefixes, n
<1>7. ASSUME NEW l \in Left(s)
      PROVE  /\ \E q \in Prefixes(p) : l.do = Op("Parent", q)
                                        /\ \A r \in Prefixes(q) : Op("Parent", r) \in l.after
             /\ l.after \subseteq Elems(s)
  <2>1. PICK k \in 1..Len(s) : l.do = s[k] /\ l.after = { s[j] : j \in 1..(k - 1) }
    BY LeftOf
  <2>2. k \in 1..n /\ \A j \in 1..(k - 1) : j \in 1..n
    BY <1>1, <1>4, <2>1
  <2>. DEFINE q == SubSeq(p, 1, k)
  <2>3. q \in Prefixes(p) /\ l.do = Op("Parent", q) /\ Len(q) = k
    BY <1>1, <1>2, <1>5, <2>1, <2>2 DEF n
  <2>4. ASSUME NEW r \in Prefixes(q) PROVE Op("Parent", r) \in l.after
    <3>1. PICK j \in 1..(Len(q) - 1) : r = SubSeq(q, 1, j)
      BY DEF Prefixes
    <3>2. j \in 1..(k - 1) /\ j \in 1..n /\ j \in Nat /\ j <= k /\ k <= Len(p) /\ k \in Nat
      BY <1>1, <2>2, <2>3, <3>1
    <3>3. r = SubSeq(p, 1, j)
      <4>1. \A i \in 1..j : SubSeq(q, 1, j)[i] = q[i] /\ q[i] = p[i] /\ SubSeq(p, 1, j)[i] = p[i]
        BY <1>1, <2>3, <3>2
      <4>2. q \in Seq(DOMAIN Fold)
        BY <1>1, <3>2
      <4>. HIDE DEF q
      <4>3. SubSeq(q, 1, j) \in Seq(DOMAIN Fold) /\ SubSeq(p, 1, j) \in Seq(DOMAIN Fold)
            /\ Len(SubSeq(q, 1, j)) = j /\ Len(SubSeq(p, 1, j)) = j
        BY <1>1, <2>3, <3>2, <4>2
      <4>. QED  BY <3>1, <4>1, <4>3, SeqEqual
    <3>. QED  BY <1>5, <2>1, <3>2, <3>3
  <2>5. l.after \subseteq Elems(s)
    BY <1>4, <2>1, <2>2 DEF Elems
  <2>. HIDE DEF q
  <2>. QED  BY <2>3, <2>4, <2>5
<1>. QED  BY <1>4, <1>6, <1>7 DEF s

LEMMA PlanParents ==
  ASSUME NEW s, NEW m, Plan(s, m), m.path \in Paths \ {<<>>}, \A e \in Elems(s) : e.op # "Validate"
  PROVE  /\ Plan(s \o Parents(m.path), m)
         /\ Elems(s \o Parents(m.path)) = Elems(s) \cup { Op("Parent", q) : q \in Prefixes(m.path) }
<1>. DEFINE p == m.path
            t == Parents(p)
            st == s \o t
<1>1. /\ t \in Seq(OpType) /\ Elems(t) = { Op("Parent", q) : q \in Prefixes(p) }
      /\ \A l \in Left(t) :
           /\ \E q \in Prefixes(p) : l.do = Op("Parent", q)
                                     /\ \A r \in Prefixes(q) : Op("Parent", r) \in l.after
           /\ l.after \subseteq Elems(t)
  BY ParentsRow
<1>2. s \in Seq(OpType) /\ Leads(s) /\ \A l \in Left(s) : Planned(l.do, l.after, m)
  BY DEF Plan
<1>. HIDE DEF t
<1>3. /\ Len(s) \in Nat /\ Len(t) \in Nat /\ Len(st) = Len(s) + Len(t)
      /\ \A k \in 1..Len(s) : st[k] = s[k]
      /\ \A k \in 1..Len(t) : st[Len(s) + k] = t[k]
  BY <1>1, <1>2, ConcatProperties
<1>4. st \in Seq(OpType)
  BY <1>1, <1>2
<1>5. Elems(st) = Elems(s) \cup Elems(t)
  <2>1. \A u, v \in Seq(OpType) : Elems(u \o v) = Elems(u) \cup Elems(v)
    BY ElemsConcat
  <2>. QED  BY <1>1, <1>2, <2>1, Zenon
<1>6. ASSUME NEW l \in Left(st) PROVE Planned(l.do, l.after, m)
  <2>1. \A u, v \in Seq(OpType) : \A k \in Left(u \o v) :
          k \in Left(u) \/ \E j \in Left(v) : k.do = j.do /\ k.after = Elems(u) \cup j.after
    BY LeftConcat
  <2>2. l \in Left(s) \/ \E j \in Left(t) : l.do = j.do /\ l.after = Elems(s) \cup j.after
    <3>1. \A k \in Left(s \o t) :
            k \in Left(s) \/ \E j \in Left(t) : k.do = j.do /\ k.after = Elems(s) \cup j.after
      BY <1>1, <1>2, <2>1, Zenon
    <3>. QED  BY <3>1, Zenon
  <2>3. ASSUME NEW j \in Left(t), l.do = j.do, l.after = Elems(s) \cup j.after
        PROVE  Planned(l.do, l.after, m)
    <3>1. PICK q \in Prefixes(p) : l.do = Op("Parent", q)
                                   /\ \A r \in Prefixes(q) : Op("Parent", r) \in l.after
      BY <1>1, <2>3
    <3>2. l.do.op = "Parent" /\ l.do.path = q
      BY <3>1 DEF Op
    <3>3. \A e \in l.after : e.op # "Validate"
      BY <1>1, <2>3 DEF Op
    <3>. QED  BY <3>1, <3>2, <3>3 DEF Planned, MemberOps, Orderly
  <2>. QED  BY <1>2, <2>2, <2>3
<1>7. \A k \in 1..Len(t) : t[k].op = "Parent"
  <2>1. \A e \in Elems(t) : e.op = "Parent"
    BY <1>1 DEF Op
  <2>. QED  BY <2>1 DEF Elems
<1>. HIDE DEF st
<1>8. Leads(st)
  <2>. SUFFICES ASSUME NEW k \in 2..Len(st), st[k].op = "Write"
                PROVE  st[k - 1].op \in {"Create", "Truncate"}
    BY DEF Leads
  <2>1. CASE k <= Len(s)
    <3>1. k \in 2..Len(s) /\ k \in 1..Len(s) /\ k - 1 \in 1..Len(s)
      BY <1>3, <2>1
    <3>. QED  BY <1>2, <1>3, <3>1 DEF Leads
  <2>2. CASE ~(k <= Len(s))
    <3>1. k - Len(s) \in 1..Len(t) /\ k = Len(s) + (k - Len(s))
      BY <1>3, <2>2
    <3>. QED  BY <1>3, <1>7, <3>1
  <2>. QED  BY <2>1, <2>2
<1>. QED  BY <1>1, <1>4, <1>5, <1>6, <1>8 DEF Plan, st, t

LEMMA Rows ==
  \A x, y \in OpType : \A s, t \in Seq(OpType) :
    /\ <<>> \o <<x>> = <<x>> /\ <<x, y>> = <<x>> \o <<y>>
    /\ s \o <<>> = s /\ s \o <<x, y>> = (s \o <<x>>) \o <<y>>
    /\ s \o (t \o <<x>>) = (s \o t) \o <<x>>
<1>. TAKE x, y \in OpType
<1>. TAKE s, t \in Seq(OpType)
<1>1. <<x>> \in Seq(OpType) /\ <<y>> \in Seq(OpType) /\ <<x, y>> = <<x>> \o <<y>>
  <2>1. <<x>> \in Seq(OpType) /\ <<y>> \in Seq(OpType) /\ <<x, y>> \in Seq(OpType)
    OBVIOUS
  <2>2. /\ <<x>> \o <<y>> \in Seq(OpType) /\ Len(<<x>> \o <<y>>) = 2
        /\ (<<x>> \o <<y>>)[1] = x /\ (<<x>> \o <<y>>)[2] = y
    BY <2>1
  <2>3. Len(<<x, y>>) = 2 /\ <<x, y>>[1] = x /\ <<x, y>>[2] = y
    OBVIOUS
  <2>4. \A k \in 1..2 : k = 1 \/ k = 2
    OBVIOUS
  <2>. QED  BY <2>1, <2>2, <2>3, <2>4, SeqEqual
<1>2. <<>> \o <<x>> = <<x>> /\ s \o <<>> = s
  BY <1>1, ConcatEmptySeq
<1>3. s \o (<<x>> \o <<y>>) = (s \o <<x>>) \o <<y>> /\ s \o (t \o <<x>>) = (s \o t) \o <<x>>
  BY <1>1, ConcatAssociative
<1>. QED  BY <1>1, <1>2, <1>3

(* The row of a member is justified whatever the state it begins in.       *)
LEMMA ProgramPlan ==
  ASSUME NEW m \in Members
  PROVE  /\ Plan(Program(m), m)
         /\ \A e \in Elems(Program(m)) : e.op \notin {"Validate", "MakeLink"}
<1>. DEFINE p == m.path
            op(n) == Op(n, p)
            PP == { Op("Parent", q) : q \in Prefixes(p) }
<1>1. m \in MemberType /\ p \in Paths /\ (p = <<>> => m.kind = "Directory")
  BY ExtractionAssumption DEF MemberType, Paths
<1>2. \A n \in OpNames : op(n) \in OpType /\ op(n).op = n /\ op(n).path = p
  BY <1>1 DEF Op, OpType
<1>3. \A e \in PP : e.op = "Parent"
  BY DEF Op
<1>. HIDE DEF p, op, PP
<1>4. ASSUME NEW s, NEW n \in OpNames, Plan(s, m), \A e \in Elems(s) : e.op \notin {"Validate", "MakeLink"},
             n \notin {"Validate", "MakeLink", "Return", "Await", "Parent"},
             n \in MemberOps => p # <<>>,
             n \in {"Link", "Truncate"} => m.kind = "HardLink",
             n \in {"Queue", "Enqueue", "Create"} => m.kind = "File",
             n \in Settled => PP \subseteq Elems(s),
             n = "Link" => op("Flush") \in Elems(s) /\ op("Target") \in Elems(s),
             n = "Truncate" => op("Link") \in Elems(s),
             n = "Write" => Elems(s) # {} /\ s # <<>> /\ s[Len(s)].op \in {"Create", "Truncate"}
      PROVE  /\ Plan(s \o <<op(n)>>, m) /\ Elems(s \o <<op(n)>>) = Elems(s) \cup {op(n)}
             /\ (s \o <<op(n)>>) # <<>> /\ (s \o <<op(n)>>)[Len(s \o <<op(n)>>)] = op(n)
             /\ \A e \in Elems(s \o <<op(n)>>) : e.op \notin {"Validate", "MakeLink"}
  <2>1. Orderly(op(n), Elems(s))
    BY <1>2, <1>4 DEF Orderly
  <2>2. n \in Settled => \A q \in Prefixes(p) : Op("Parent", q) \in Elems(s)
    BY <1>4 DEF PP
  <2>3. Planned(op(n), Elems(s), m)
    BY <1>2, <1>4, <2>1, <2>2 DEF Planned, p, OpNames
  <2>4. /\ Plan(s \o <<op(n)>>, m) /\ Elems(s \o <<op(n)>>) = Elems(s) \cup {op(n)}
        /\ (s \o <<op(n)>>) # <<>> /\ (s \o <<op(n)>>)[Len(s \o <<op(n)>>)] = op(n)
    <3>1. op(n) \in OpType /\ op(n).op = n
      BY <1>2
    <3>. HIDE DEF Plan
    <3>. QED  BY <1>4, <2>3, <3>1, PlanAppend
  <2>. QED  BY <1>2, <1>4, <2>4
<1>5. ASSUME NEW s, Plan(s, m), \A e \in Elems(s) : e.op \notin {"Validate", "MakeLink"}, p # <<>>
      PROVE  /\ Plan(s \o Parents(p), m) /\ Elems(s \o Parents(p)) = Elems(s) \cup PP
             /\ \A e \in Elems(s \o Parents(p)) : e.op \notin {"Validate", "MakeLink"}
  <2>1. Plan(s \o Parents(p), m) /\ Elems(s \o Parents(p)) = Elems(s) \cup PP
    BY <1>1, <1>5, PlanParents DEF p, PP
  <2>. QED  BY <1>3, <1>5, <2>1
<1>. DEFINE flush == <<op("Flush")>>
<1>6. Plan(<<>>, m) /\ Elems(<<>>) = {}
  BY PlanNone, LeftNone
<1>7. Plan(flush, m) /\ Elems(flush) = {op("Flush")}
      /\ \A e \in Elems(flush) : e.op \notin {"Validate", "MakeLink"}
  <2>1. <<>> \o <<op("Flush")>> = flush
    BY <1>2, Rows DEF OpNames
  <2>2. /\ Plan(<<>> \o <<op("Flush")>>, m) /\ Elems(<<>> \o <<op("Flush")>>) = {} \cup {op("Flush")}
        /\ \A e \in Elems(<<>> \o <<op("Flush")>>) : e.op \notin {"Validate", "MakeLink"}
    <3>1. "Flush" \in OpNames /\ "Flush" \notin MemberOps /\ "Flush" \notin Settled
      BY DEF OpNames, MemberOps, Settled
    <3>. QED  BY <1>4, <1>6, <3>1
  <2>. QED  BY <2>1, <2>2, Zenon
<1>8. CASE m.kind = "File" /\ m.size <= BUFFERED_PAYLOAD_MAX_BYTES
  <2>. DEFINE s1 == <<op("Payload")>>
              s2 == s1 \o <<op("Queue")>>
  <2>1. Program(m) = s2
    <3>0. ~(m.size > BUFFERED_PAYLOAD_MAX_BYTES)
      BY <1>1, <1>8, ExtractionAssumption DEF MemberType
    <3>1. Program(m) = <<op("Payload"), op("Queue")>>
      BY <1>8, <3>0 DEF Program, op, p
    <3>. QED  BY <1>2, <3>1, Rows DEF OpNames
  <2>2. <<>> \o s1 = s1
    BY <1>2, Rows DEF OpNames
  <2>3. p # <<>>
    BY <1>1, <1>8
  <2>4. Plan(s1, m) /\ \A e \in Elems(s1) : e.op \notin {"Validate", "MakeLink"}
    <3>1. /\ Plan(<<>> \o <<op("Payload")>>, m)
          /\ \A e \in Elems(<<>> \o <<op("Payload")>>) : e.op \notin {"Validate", "MakeLink"}
      <4>1. "Payload" \in OpNames /\ "Payload" \notin Settled
        BY DEF OpNames, Settled
      <4>. QED  BY <1>4, <1>6, <2>3, <4>1
    <3>. QED  BY <2>2, <3>1, Zenon
  <2>5. Plan(s2, m) /\ \A e \in Elems(s2) : e.op \notin {"Validate", "MakeLink"}
    <3>1. "Queue" \in OpNames /\ "Queue" \notin Settled
      BY DEF OpNames, Settled
    <3>. HIDE DEF s1
    <3>. QED  BY <1>4, <1>8, <2>3, <2>4, <3>1
  <2>. QED  BY <2>1, <2>5
<1>. DEFINE at == flush \o Parents(p)
<1>9. p # <<>> => Plan(at, m) /\ Elems(at) = {op("Flush")} \cup PP
                  /\ \A e \in Elems(at) : e.op \notin {"Validate", "MakeLink"}
  <2>. HIDE DEF flush
  <2>. QED  BY <1>5, <1>7
<1>10. CASE m.kind = "File" /\ ~(m.size <= BUFFERED_PAYLOAD_MAX_BYTES)
  <2>. DEFINE s1 == at \o <<op("Create")>>
              s2 == s1 \o <<op("Write")>>
  <2>1. p # <<>>
    BY <1>1, <1>10
  <2>2. Program(m) = s2
    <3>1. Program(m) = at \o <<op("Create"), op("Write")>>
      BY SMTT(60), <1>1, <1>10, ExtractionAssumption DEF Program, InOrder, op, p, MemberType
    <3>2. at \in Seq(OpType)
      BY <1>9, <2>1 DEF Plan
    <3>. HIDE DEF at
    <3>. QED  BY <1>2, <3>1, <3>2, Rows DEF OpNames
  <2>. HIDE DEF at
  <2>3. /\ Plan(s1, m) /\ \A e \in Elems(s1) : e.op \notin {"Validate", "MakeLink"}
        /\ s1 # <<>> /\ s1[Len(s1)] = op("Create") /\ PP \cup {op("Create")} \subseteq Elems(s1)
    BY <1>4, <1>9, <1>10, <2>1 DEF OpNames
  <2>. HIDE DEF s1
  <2>4. Plan(s2, m) /\ \A e \in Elems(s2) : e.op \notin {"Validate", "MakeLink"}
    <3>1. op("Create").op = "Create" /\ "Write" \in OpNames
      BY <1>2 DEF OpNames
    <3>. QED  BY <1>4, <2>1, <2>3, <3>1
  <2>. QED  BY <2>2, <2>4
<1>11. CASE m.kind = "Directory"
  <2>1. CASE p = <<>>
    <3>1. Program(m) = flush \o <<>>
      BY <1>11, <2>1 DEF Program, op, p
    <3>2. Program(m) = flush
      BY <1>2, <3>1, Rows DEF OpNames
    <3>. QED  BY <1>7, <3>2
  <2>2. CASE p # <<>>
    <3>1. Program(m) = flush \o (Parents(p) \o <<op("Directory")>>)
      BY <1>11, <2>2 DEF Program, op, p
    <3>2. Program(m) = at \o <<op("Directory")>>
      <4>1. flush \in Seq(OpType) /\ Parents(p) \in Seq(OpType) /\ op("Directory") \in OpType
        BY <1>1, <1>2, <2>2, ParentsRow DEF OpNames
      <4>. HIDE DEF flush
      <4>. QED  BY <3>1, <4>1, Rows
    <3>. HIDE DEF at
    <3>. QED  BY <1>4, <1>9, <2>2, <3>2 DEF OpNames
  <2>. QED  BY <2>1, <2>2
<1>. DEFINE t1 == flush \o <<op("Target")>>
            t2 == t1 \o Parents(p)
            t3 == t2 \o <<op("Replace")>>
<1>12. p # <<>> =>
         /\ Plan(t3, m) /\ {op("Flush"), op("Target")} \cup PP \subseteq Elems(t3)
         /\ \A e \in Elems(t3) : e.op \notin {"Validate", "MakeLink"}
  <2>. SUFFICES ASSUME p # <<>>
                PROVE  /\ Plan(t3, m) /\ {op("Flush"), op("Target")} \cup PP \subseteq Elems(t3)
                       /\ \A e \in Elems(t3) : e.op \notin {"Validate", "MakeLink"}
    OBVIOUS
  <2>. HIDE DEF flush
  <2>1. /\ Plan(t1, m) /\ Elems(t1) = {op("Flush"), op("Target")}
        /\ \A e \in Elems(t1) : e.op \notin {"Validate", "MakeLink"}
    BY <1>4, <1>7 DEF OpNames, Settled
  <2>. HIDE DEF t1
  <2>2. /\ Plan(t2, m) /\ Elems(t2) = {op("Flush"), op("Target")} \cup PP
        /\ \A e \in Elems(t2) : e.op \notin {"Validate", "MakeLink"}
    BY <1>5, <2>1
  <2>. HIDE DEF t2
  <2>. QED  BY <1>4, <2>2 DEF OpNames
<1>13. CASE m.kind = "SymbolicLink"
  <2>1. CASE policy.symlinks = "Skip"
    <3>1. Program(m) = <<>>
      BY <1>13, <2>1 DEF Program
    <3>. QED  BY <1>6, <3>1
  <2>2. CASE policy.symlinks # "Skip"
    <3>1. Program(m) = t3 \o <<op("Reserve")>>
      BY <1>13, <2>2 DEF Program, Cleared, op, p
    <3>2. p # <<>>
      BY <1>1, <1>13
    <3>. HIDE DEF t3
    <3>. QED  BY <1>4, <1>12, <3>1, <3>2 DEF OpNames
  <2>. QED  BY <2>1, <2>2
<1>14. CASE m.kind = "HardLink"
  <2>. DEFINE t4 == t3 \o <<op("Link")>>
              t5 == t4 \o <<op("Payload")>>
              t6 == t4 \o <<op("Truncate")>>
              t7 == t6 \o <<op("Write")>>
  <2>1. p # <<>>
    BY <1>1, <1>14
  <2>2. Program(m) = t4 \o (IF m.size = 0 THEN <<op("Payload")>> ELSE <<op("Truncate"), op("Write")>>)
    BY <1>14 DEF Program, Cleared, op, p
  <2>. HIDE DEF t3
  <2>3. /\ Plan(t4, m) /\ {op("Link")} \cup PP \subseteq Elems(t4)
        /\ \A e \in Elems(t4) : e.op \notin {"Validate", "MakeLink"}
    BY <1>4, <1>12, <1>14, <2>1 DEF OpNames
  <2>. HIDE DEF t4
  <2>4. CASE m.size = 0
    <3>1. Program(m) = t5
      BY <2>2, <2>4
    <3>. QED  BY <1>4, <2>1, <2>3, <3>1 DEF OpNames, Settled
  <2>5. CASE m.size # 0
    <3>1. t4 \in Seq(OpType)
      BY <2>3 DEF Plan
    <3>2. Program(m) = t7
      BY <1>2, <2>2, <2>5, <3>1, Rows DEF OpNames
    <3>3. /\ Plan(t6, m) /\ \A e \in Elems(t6) : e.op \notin {"Validate", "MakeLink"}
          /\ t6 # <<>> /\ t6[Len(t6)] = op("Truncate") /\ PP \cup {op("Truncate")} \subseteq Elems(t6)
      BY <1>4, <1>14, <2>1, <2>3 DEF OpNames
    <3>4. op("Truncate").op = "Truncate" /\ "Write" \in OpNames
      BY <1>2 DEF OpNames
    <3>. HIDE DEF t6
    <3>. QED  BY <1>4, <2>1, <3>2, <3>3, <3>4
  <2>. QED  BY <2>4, <2>5
<1>15. m.kind \in {"File", "Directory", "SymbolicLink", "HardLink"}
  BY <1>1 DEF MemberType
<1>. QED  BY <1>8, <1>10, <1>11, <1>13, <1>14, <1>15

-----------------------------------------------------------------------------
(* The steps that leave the destination alone.                             *)

LEMMA NextMemberKeeps ==
  ASSUME Inv, NextMember, UNCHANGED <<task, policy, cancelled>>
  PROVE  Inv'
<1>1. TypeInv /\ DiskInv /\ TaskInv /\ RowInv /\ WriteInv /\ LinkInv /\ AllowedInv /\ OwnInv
  BY DEF Inv
<1>2. /\ todo = <<>> /\ phase = "running" /\ UNCHANGED <<diskVars, rootVars>>
      /\ members \in Seq(Members)
  BY <1>1 DEF NextMember, TypeInv
<1>3. Elems(todo) = {}
  BY <1>2, LeftNone
<1>4. /\ task.files = <<>> /\ task.stage = "start" /\ result = "Pending" /\ task.error = "None" /\ NoLinks
  BY <1>1, <1>2, <1>3 DEF TaskInv, LinkInv, Linking, Doing
<1>5. ASSUME members' \in Seq(Members), FailWith("Policy") \/ FailWith("Archive")
      PROVE  Inv'
  BY <1>2, <1>4, <1>5, FailsKeeps
<1>6. ASSUME NEW row \in Seq(OpType), todo' = row, members' \in Seq(Members), UNCHANGED <<phase, result>>,
             \A l \in Left(row) : Justified(l.do, l.after)', Leads(row),
             row # <<>> => Head(row).op # "Write", \A e \in Elems(row) : e.op # "MakeLink"
      PROVE  Inv'
  <2>1. DiskInv' /\ NoNewOld /\ NoNewLinks
    BY <1>1, <1>2, SameGentle DEF diskVars
  <2>2. TypeInv'
    BY <1>1, <1>2, <1>6 DEF TypeInv, diskVars, rootVars
  <2>3. NoLinks' /\ AllowedInv' /\ OwnInv'
    BY <1>1, <1>2, <1>4, <1>6, <2>1, <2>2, WorldKept DEF TypeInv, rootVars
  <2>4. RowInv'
    BY <1>6 DEF RowInv
  <2>5. WriteInv'
    BY <1>6 DEF WriteInv, Doing, Leads
  <2>6. TaskInv'
    BY <1>1, <1>2, <1>4, <1>6 DEF TaskInv
  <2>7. LinkInv'
    BY <1>6, <2>3 DEF LinkInv
  <2>. QED  BY <2>1, <2>2, <2>3, <2>4, <2>5, <2>6, <2>7 DEF Inv
<1>7. ASSUME NEW m \in Members, members' = Append(members, m), todo' = Program(m), UNCHANGED <<phase, result>>
      PROVE  Inv'
  <2>1. members' \in Seq(Members) /\ Current' > 0 /\ Member' = m
    BY <1>2, <1>7 DEF Current, Member
  <2>2. Plan(Program(m), m) /\ \A e \in Elems(Program(m)) : e.op \notin {"Validate", "MakeLink"}
    BY ProgramPlan
  <2>3. Program(m) # <<>> => Head(Program(m)).op # "Write"
    BY <2>2, PlanHead
  <2>. DEFINE row == Program(m)
  <2>. HIDE DEF row
  <2>4. \A l \in Left(row) : Justified(l.do, l.after)'
    BY <2>1, <2>2, PlannedIs DEF Plan, row
  <2>5. row \in Seq(OpType) /\ Leads(row)
    BY <2>2 DEF Plan, row
  <2>6. todo' = row
    BY <1>7 DEF row
  <2>7. (row # <<>> => Head(row).op # "Write") /\ \A e \in Elems(row) : e.op # "MakeLink"
    BY <2>2, <2>3 DEF row
  <2>. QED  BY <1>6, <1>7, <2>1, <2>4, <2>5, <2>6, <2>7
<1>8. ASSUME todo' = << Op("Flush", <<>>), Op("Validate", <<>>) >>, UNCHANGED <<members, phase, result>>
      PROVE  Inv'
  <2>. DEFINE flush == Op("Flush", <<>>)
              check == Op("Validate", <<>>)
              row == << flush, check >>
  <2>1. flush \in OpType /\ check \in OpType /\ flush.op = "Flush" /\ check.op = "Validate"
    BY OnDiskRoot DEF Op, OpType, OpNames
  <2>. HIDE DEF flush, check
  <2>2. row \in Seq(OpType) /\ row # <<>> /\ Head(row) = flush /\ Elems(row) = {flush, check}
    BY <2>1 DEF Elems
  <2>3. Leads(row)
    BY <2>1 DEF Leads
  <2>4. ASSUME NEW l \in Left(row) PROVE Justified(l.do, l.after)'
    <3>1. PICK k \in 1..Len(row) : l.do = row[k] /\ l.after = { row[j] : j \in 1..(k - 1) }
      BY LeftOf
    <3>2. (l.do = flush /\ l.after = {}) \/ (l.do = check /\ l.after = {flush})
      <4>1. Len(row) = 2 /\ row[1] = flush /\ row[2] = check /\ (k = 1 \/ k = 2)
        BY <3>1
      <4>2. CASE k = 1
        BY <3>1, <4>1, <4>2
      <4>3. CASE k = 2
        <5>1. 1..(k - 1) = {1}
          BY <4>3
        <5>. QED  BY <3>1, <4>1, <4>3, <5>1
      <4>. QED  BY <4>1, <4>2, <4>3
    <3>. QED  BY <2>1, <3>2
              DEF Justified, Placed, Orderly, Rooted, Emptied, Sourced, Truncable, MemberOps, Settled,
                  Closing
  <2>5. todo' = row /\ members' \in Seq(Members)
    BY <1>2, <1>8 DEF flush, check
  <2>. HIDE DEF row
  <2>. QED  BY <1>6, <1>8, <2>1, <2>2, <2>3, <2>4, <2>5
<1>9. ASSUME NEW m \in Members, members' = Append(members, m) PROVE members' \in Seq(Members)
  BY <1>2, <1>9
<1>. QED  BY <1>2, <1>5, <1>7, <1>8, <1>9 DEF NextMember

(* The operation under way.                                                *)
LEMMA Now ==
  ASSUME Inv, todo # <<>>, Head(todo).op \notin Closing \cup {"Return"}
  PROVE  /\ Head(todo) \in OpType /\ Path \in Paths /\ members \in Seq(Members)
         /\ Placed(Head(todo)) /\ Justified(Head(todo), {})
         /\ NoLinks /\ task.files = <<>> /\ task.stage = "start" /\ phase \in {"running", "dropped"}
         /\ phase = "running" => result = "Pending" /\ task.error = "None"
<1>1. TypeInv /\ DiskInv /\ TaskInv /\ RowInv /\ WriteInv /\ LinkInv /\ AllowedInv /\ OwnInv
  BY DEF Inv
<1>2. todo \in Seq(OpType) /\ members \in Seq(Members)
  BY <1>1 DEF TypeInv
<1>3. Head(todo) \in OpType
  BY <1>2, TailElems
<1>4. Path \in Paths
  BY <1>3 DEF Path, OpType
<1>5. Justified(Head(todo), {})
  BY <1>1, <1>2, HeadLeft DEF RowInv
<1>6. Placed(Head(todo))
  BY <1>5 DEF Justified
<1>. QED  BY <1>1, <1>2, <1>3, <1>4, <1>5, <1>6, NotLinking

(* An operation that relies on the parents of its path: its place is the   *)
(* path's own, or none.                                                    *)
LEMMA Here ==
  ASSUME Inv, todo # <<>>, Head(todo).op \in Settled
  PROVE  /\ Path \in Paths \ {<<>>} /\ Current \in Nat \ {0}
         /\ Member \in MemberType /\ Member.path \in Paths \ {<<>>}
         /\ Path = Member.path \/ (Head(todo).op = "Parent" /\ Path \in Prefixes(Member.path))
         /\ \A q \in Prefixes(Path) : IsDirectory(q) /\ NoLink(q)
         /\ handle \in HandleType /\ handle.at = OnDisk(handle.entry)
         /\ Spot \in {OnDisk(Path), Nowhere}
<1>1. TypeInv /\ DiskInv /\ TaskInv /\ RowInv /\ WriteInv /\ LinkInv /\ AllowedInv /\ OwnInv
  BY DEF Inv
<1>2. /\ Placed(Head(todo)) /\ Justified(Head(todo), {}) /\ NoLinks
      /\ members \in Seq(Members) /\ Path \in Paths
  BY Now DEF Settled, Closing
<1>3. /\ Current > 0
      /\ (Path = Member.path /\ Path # <<>>)
           \/ (Head(todo).op = "Parent" /\ Member.path # <<>> /\ Path \in Prefixes(Member.path))
  BY <1>2 DEF Placed, Settled, MemberOps, Path
<1>4. Current \in Nat /\ Member \in MemberType /\ Member.path \in Paths
  BY <1>2, <1>3, MemberPath
<1>5. Path \in Paths \ {<<>>} /\ Member.path # <<>>
  BY <1>2, <1>3, <1>4, PathParts
<1>6. \A q \in Prefixes(Path) : IsDirectory(q)
  BY <1>2 DEF Justified, Rooted, Path
<1>7. \A q \in Prefixes(Path) : NoLink(q)
  <2>1. ASSUME NEW q \in Prefixes(Path) PROVE q \in DOMAIN entries
    <3>1. q # <<>> /\ IsDirectory(q)
      BY <1>5, <1>6, PathParts
    <3>. QED  BY <3>1 DEF IsDirectory, StateOf, Plain
  <2>. QED  BY <1>2, <1>6, <2>1 DEF NoLinks
<1>8. handle \in HandleType /\ handle.at = OnDisk(handle.entry)
  BY <1>1 DEF TypeInv, HandleType
<1>9. Location(Path, handle) \in {OnDisk(Path), Nowhere}
  BY <1>5, <1>7, <1>8, LocationIs
<1>. QED  BY <1>3, <1>4, <1>5, <1>6, <1>7, <1>8, <1>9 DEF Spot

LEMMA SpotKept ==
  ASSUME Inv, todo # <<>>, Head(todo).op \in Settled, UNCHANGED <<fs, handle>>, Path' = Path
  PROVE  Spot' = Spot
<1>1. PICK p \in Paths \ {<<>>}, h \in HandleType : p = Path /\ h = handle
  BY Here
<1>2. h.at = OnDisk(h.entry) /\ \A q \in Prefixes(p) : NoLink(q)
  BY <1>1, Here
<1>3. \A q : NodeAt(q)' = NodeAt(q)
  BY SameNode
<1>4. Location(p, h)' = Location(p, h)
  BY <1>2, <1>3, LocationKept
<1>5. Spot = Location(p, h) /\ Spot' = Location(p, h)'
  BY <1>1 DEF Spot, Location
<1>. QED  BY <1>4, <1>5

LEMMA NoOps ==
  /\ <<>> \in Seq(OpType) /\ Left(<<>>) = {} /\ Elems(<<>>) = {} /\ Leads(<<>>)
BY LeftNone DEF Leads

LEMMA PayloadKeeps ==
  ASSUME Inv, Payload, UNCHANGED <<members, task, policy, cancelled>>
  PROVE  Inv'
<1>1. todo # <<>> /\ Head(todo).op = "Payload" /\ UNCHANGED <<diskVars, rootVars>>
  BY DEF Payload, Doing
<1>2. members \in Seq(Members) /\ task.files = <<>> /\ phase \in {"running", "dropped"}
  BY <1>1, Now DEF Closing
<1>3. CASE Then(<<>>)
  <2>1. \A q : Head(todo) # Op("Parent", q)
    BY <1>1 DEF Op
  <2>2. Head(todo).op \notin Closing \cup {"Return", "Link", "Target", "Create", "Truncate"}
    BY <1>1 DEF Closing
  <2>. QED  BY <1>1, <1>3, <2>1, <2>2, NoOps, PassKeeps
<1>4. CASE FailWith("Archive")
  BY <1>1, <1>2, <1>4, FailsKeeps
<1>. QED  BY <1>3, <1>4 DEF Payload

LEMMA OneOp ==
  ASSUME NEW o \in OpType, o.op \notin {"Validate", "MakeLink", "Write"}, Justified(o, {})
  PROVE  /\ <<o>> \in Seq(OpType) /\ \A l \in Left(<<o>>) : Justified(l.do, l.after)
         /\ \A e \in Elems(<<o>>) : e.op \notin {"Validate", "MakeLink"}
         /\ Leads(<<o>>) /\ Head(<<o>>).op # "Write"
<1>1. ASSUME NEW l \in Left(<<o>>) PROVE Justified(l.do, l.after)
  <2>1. l.do = o /\ l.after = {}
    BY LeftOne
  <2>. QED  BY <2>1 DEF Justified, Placed, Orderly, Rooted, Emptied, Sourced, Truncable
<1>. QED  BY <1>1, ElemsOne DEF Leads

LEMMA QueueKeeps ==
  ASSUME Inv, Queue, UNCHANGED <<members, task, policy, cancelled>>
  PROVE  Inv'
<1>. DEFINE enqueue == Op("Enqueue", Path)
            flush == Op("Flush", Path)
            row == (<<flush>> \o Parents(Path)) \o <<enqueue>>
<1>1. /\ todo # <<>> /\ Head(todo).op = "Queue" /\ UNCHANGED <<diskVars, rootVars>>
      /\ Then(IF KnownParent(Path) THEN <<enqueue>> ELSE row)
  BY DEF Queue, Doing
<1>2. /\ members \in Seq(Members) /\ Placed(Head(todo)) /\ Path \in Paths
      /\ task.files = <<>> /\ phase \in {"running", "dropped"}
  BY <1>1, Now DEF Closing
<1>3. Current > 0 /\ Path = Member.path /\ Path # <<>> /\ Member.kind = "File"
  BY <1>1, <1>2 DEF Placed, MemberOps, Path
<1>4. /\ enqueue \in OpType /\ flush \in OpType /\ enqueue.op = "Enqueue" /\ flush.op = "Flush"
      /\ enqueue.path = Path
  BY <1>2 DEF Op, OpType, OpNames
<1>. HIDE DEF enqueue, flush
<1>5. CASE KnownParent(Path)
  <2>1. Justified(enqueue, {})
    BY <1>3, <1>4, <1>5
       DEF Justified, Placed, Orderly, Rooted, Emptied, Sourced, Truncable, KnownParent, Settled
  <2>2. Then(<<enqueue>>)
    BY <1>1, <1>5
  <2>3. /\ <<enqueue>> \in Seq(OpType) /\ \A l \in Left(<<enqueue>>) : Justified(l.do, l.after)
        /\ \A e \in Elems(<<enqueue>>) : e.op \notin {"Validate", "MakeLink"}
        /\ Leads(<<enqueue>>) /\ Head(<<enqueue>>).op # "Write"
    BY <1>4, <2>1, OneOp
  <2>. QED  BY <1>1, <2>2, <2>3, PassKeeps DEF Closing, Op
<1>6. CASE ~KnownParent(Path)
  <2>1. Then(row)
    BY <1>1, <1>6
  <2>2. Plan(<<flush>>, Member) /\ Elems(<<flush>>) = {flush}
    <3>1. Planned(flush, Elems(<<>>), Member)
      BY <1>4, NoOps DEF Planned, Orderly, MemberOps, Settled
    <3>2. /\ Plan(<<>> \o <<flush>>, Member) /\ Elems(<<>> \o <<flush>>) = {} \cup {flush}
      <4>1. Plan(<<>>, Member) /\ flush \in OpType /\ (flush.op = "Write" => FALSE)
        BY <1>4, PlanNone, Zenon
      <4>2. Plan(<<>> \o <<flush>>, Member) /\ Elems(<<>> \o <<flush>>) = Elems(<<>>) \cup {flush}
        BY <3>1, <4>1, PlanAppend
      <4>. QED  BY <4>2, NoOps, Zenon
    <3>3. <<>> \o <<flush>> = <<flush>>
      BY <1>4, Rows, NoOps
    <3>. QED  BY <3>2, <3>3, Zenon
  <2>3. /\ Plan(<<flush>> \o Parents(Path), Member)
        /\ Elems(<<flush>> \o Parents(Path)) = {flush} \cup { Op("Parent", q) : q \in Prefixes(Path) }
    BY <1>2, <1>3, <1>4, <2>2, PlanParents
  <2>. DEFINE s == <<flush>> \o Parents(Path)
  <2>. HIDE DEF s
  <2>4. Planned(enqueue, Elems(s), Member)
    <3>1. \A e \in Elems(s) : e.op # "Validate"
      BY <1>4, <2>3 DEF Op, s
    <3>. QED  BY <1>3, <1>4, <2>3, <3>1 DEF Planned, Orderly, s
  <2>5. /\ Plan(s \o <<enqueue>>, Member) /\ Elems(s \o <<enqueue>>) = Elems(s) \cup {enqueue}
        /\ (s \o <<enqueue>>) # <<>>
    BY ZenonT(60), <1>4, <2>3, <2>4, PlanAppend DEF s
  <2>6. row = s \o <<enqueue>>
    BY DEF s
  <2>. HIDE DEF row
  <2>7. Plan(row, Member) /\ Elems(row) = Elems(s) \cup {enqueue} /\ row # <<>>
    BY <2>5, <2>6
  <2>8. Head(row).op # "Write"
    BY <2>7, PlanHead
  <2>9. \A e \in Elems(row) : e.op \notin {"Validate", "MakeLink"}
    BY <1>4, <2>3, <2>7 DEF Op, s
  <2>10. \A l \in Left(row) : Justified(l.do, l.after)
    BY <1>3, <2>7, PlannedIs DEF Plan
  <2>11. row \in Seq(OpType) /\ Leads(row)
    BY <2>7 DEF Plan
  <2>. QED  BY <1>1, <2>1, <2>7, <2>8, <2>9, <2>10, <2>11, PassKeeps DEF Closing, Op
<1>. QED  BY <1>5, <1>6

LEMMA NoneKept ==
  ASSUME UNCHANGED <<members, entries, fs>>, buffered' \in {buffered, <<>>},
         buffered' = buffered => Head(todo).op # "Flush" \/ buffered = <<>>,
         Head(todo).op \notin {"Parent", "Link", "Target"}
  PROVE  Keeps({})
<1>1. \A q : Head(todo) # Op("Parent", q)
  BY DEF Op
<1>2. \A q : StateOf(q)' = StateOf(q)
  BY DEF StateOf
<1>3. Linkable(Member)' = Linkable(Member) /\ Old(Member.path)' = Old(Member.path)
  BY <1>2 DEF Linkable, Member, Current, Old, NodeAt
<1>. QED  BY <1>1, <1>2, <1>3 DEF Keeps, IsDirectory

LEMMA TargetKeeps ==
  ASSUME Inv, Target, UNCHANGED <<members, task, policy, cancelled>>
  PROVE  Inv'
<1>1. todo # <<>> /\ Head(todo).op = "Target"
  BY DEF Target, Doing
<1>2. members \in Seq(Members) /\ task.files = <<>> /\ phase \in {"running", "dropped"}
  BY <1>1, Now DEF Closing
<1>3. CASE Fails("UnsafePath") \/ Fails("InvalidLink")
  BY <1>1, <1>2, <1>3, FailsKeeps DEF Fails
<1>4. CASE /\ Member.kind = "HardLink" => Linkable(Member)
           /\ Then(<<>>) /\ UNCHANGED <<diskVars, rootVars>>
  <2>1. \A q : Head(todo) # Op("Parent", q)
    BY <1>1 DEF Op
  <2>2. Head(todo).op \notin Closing \cup {"Return", "Link", "Create", "Truncate"}
    BY <1>1 DEF Closing
  <2>. QED  BY <1>1, <1>4, <2>1, <2>2, NoOps, PassKeeps
<1>. QED  BY <1>3, <1>4 DEF Target

(* What only the future does goes on only while it is polled.              *)
LEMMA OnlyRunning ==
  ASSUME Inv, todo # <<>>, Head(todo).op \notin BlockingOps
  PROVE  phase = "running"
BY DEF Inv, TypeInv, TaskInv

LEMMA ClosingThen ==
  ASSUME Inv, todo # <<>>, Head(todo).op \in Closing, NEW ops, Then(ops),
         ops \in { <<>> } \cup { <<o>> : o \in OpType },
         ops # <<>> => Head(ops).op \in {"Await", "MakeLink"},
         ops # <<>> /\ Head(ops).op = "MakeLink" => Head(todo).op = "MakeLink",
         UNCHANGED <<members, cancelled>>, Keeps(Elems(ops)),
         \A l \in Left(ops) : Justified(l.do, l.after)'
  PROVE  /\ todo' \in Seq(OpType) /\ RowInv' /\ WriteInv' /\ UNCHANGED <<phase, result>>
         /\ Linking /\ buffered' = <<>> /\ task'.files = <<>> => Linking'
         /\ (\E e \in Elems(todo') : e.op = "MakeLink") => Linking
         /\ phase = "running" /\ result # "Pending" =>
              /\ \A e \in Elems(todo') : e.op \in {"Flush", "Await", "Return"}
              /\ \E e \in Elems(todo') : e.op = "Return"
         /\ phase = "dropped" => todo' = <<>>
         /\ phase # "returned"
         /\ phase = "running" /\ ops # <<>> => todo' # <<>> /\ Head(todo') = Head(ops)
<1>1. TypeInv /\ DiskInv /\ TaskInv /\ RowInv /\ WriteInv /\ LinkInv /\ AllowedInv /\ OwnInv
  BY DEF Inv
<1>2. /\ todo \in Seq(OpType) /\ members \in Seq(Members)
      /\ todo' = (IF phase = "dropped" THEN <<>> ELSE ops \o Tail(todo))
      /\ UNCHANGED <<phase, result>> /\ phase # "returned"
  BY <1>1 DEF TypeInv, Then, TaskInv
<1>3. ops \in Seq(OpType) /\ Elems(ops) \subseteq {Head(ops)} /\ (ops = <<>> => Elems(ops) = {})
  <2>1. CASE ops = <<>>
    BY <2>1, NoOps
  <2>2. CASE ops # <<>>
    <3>1. PICK o \in OpType : ops = <<o>>
      BY <2>2
    <3>. QED  BY <3>1, ElemsOne
  <2>. QED  BY <2>1, <2>2
<1>4. todo' \in Seq(OpType) /\ RowInv'
  BY <1>1, <1>2, <1>3, RowThen
<1>5. WriteInv'
  <2>1. Leads(ops) /\ (ops # <<>> => Head(ops).op # "Write")
    BY DEF Leads
  <2>2. Head(todo).op \notin {"Create", "Truncate"}
    BY DEF Closing
  <2>. QED  BY <1>1, <1>2, <1>3, <2>1, <2>2, WriteThen
<1>6. /\ Elems(todo) = {Head(todo)} \cup Elems(Tail(todo))
      /\ Elems(todo') \subseteq Elems(ops) \cup Elems(todo)
      /\ phase # "dropped" => Elems(todo') = Elems(ops) \cup Elems(Tail(todo))
  BY <1>2, <1>3, ElemsThen, TailElems
<1>7. Head(todo).op # "Return"
  BY DEF Closing
<1>8. Linking /\ buffered' = <<>> /\ task'.files = <<>> => Linking'
  BY <1>2, <1>3, <1>6, <1>7 DEF Linking, Closing
<1>9. (\E e \in Elems(todo') : e.op = "MakeLink") => Linking
  BY <1>1, <1>3, <1>6 DEF LinkInv
<1>10. phase = "running" /\ result # "Pending" =>
         /\ \A e \in Elems(todo') : e.op \in {"Flush", "Await", "Return"}
         /\ \E e \in Elems(todo') : e.op = "Return"
  <2>. SUFFICES ASSUME phase = "running", result # "Pending"
                PROVE  /\ \A e \in Elems(todo') : e.op \in {"Flush", "Await", "Return"}
                       /\ \E e \in Elems(todo') : e.op = "Return"
    OBVIOUS
  <2>1. /\ \A e \in Elems(todo) : e.op \in {"Flush", "Await", "Return"}
        /\ \E e \in Elems(todo) : e.op = "Return"
    BY <1>1 DEF TaskInv
  <2>. QED  BY <1>3, <1>6, <1>7, <2>1
<1>11. phase = "running" /\ ops # <<>> => todo' # <<>> /\ Head(todo') = Head(ops)
  <2>. SUFFICES ASSUME phase = "running", ops # <<>>
                PROVE  todo' # <<>> /\ Head(todo') = Head(ops)
    OBVIOUS
  <2>1. PICK o \in OpType : ops = <<o>>
    OBVIOUS
  <2>2. todo' = <<o>> \o Tail(todo) /\ Tail(todo) \in Seq(OpType)
    BY <1>2, <2>1
  <2>. QED  BY <2>1, <2>2
<1>. QED  BY <1>2, <1>4, <1>5, <1>8, <1>9, <1>10, <1>11

LEMMA AwaitKeeps ==
  ASSUME Inv, Await, UNCHANGED <<members, task, policy, cancelled>>
  PROVE  Inv'
<1>1. /\ todo # <<>> /\ Head(todo).op = "Await" /\ UNCHANGED <<diskVars, rootVars>>
      /\ task.files = <<>>
  BY DEF Await, Doing
<1>2. TypeInv /\ DiskInv /\ TaskInv /\ RowInv /\ WriteInv /\ LinkInv /\ AllowedInv /\ OwnInv
  BY DEF Inv
<1>3. phase = "running" /\ members \in Seq(Members)
  BY <1>1, <1>2, OnlyRunning DEF BlockingOps, TypeInv
<1>4. CASE task.error # "None"
  <2>1. FailWith(task.error) /\ task.error # "Pending"
    BY <1>2, <1>4 DEF Await, TypeInv
  <2>. QED  BY <1>1, <1>3, <2>1, FailsKeeps
<1>5. CASE task.error = "None"
  <2>1. Then(<<>>)
    BY <1>5 DEF Await
  <2>2. Keeps({})
    BY <1>1, NoneKept DEF diskVars, rootVars
  <2>3. /\ todo' \in Seq(OpType) /\ RowInv' /\ WriteInv' /\ UNCHANGED <<phase, result>>
        /\ Linking /\ buffered' = <<>> /\ task'.files = <<>> => Linking'
        /\ (\E e \in Elems(todo') : e.op = "MakeLink") => Linking
        /\ phase = "running" /\ result # "Pending" =>
             /\ \A e \in Elems(todo') : e.op \in {"Flush", "Await", "Return"}
             /\ \E e \in Elems(todo') : e.op = "Return"
    <3>1. Head(todo).op \in Closing
      BY <1>1 DEF Closing
    <3>. QED  BY <1>1, <2>1, <2>2, <3>1, NoOps, ClosingThen
  <2>4. DiskInv' /\ NoNewOld /\ NoNewLinks
    BY <1>1, <1>2, SameGentle DEF diskVars
  <2>5. TypeInv'
    BY <1>1, <1>2, <2>3 DEF TypeInv, diskVars, rootVars
  <2>6. (NoLinks /\ NoNewLinks => NoLinks') /\ AllowedInv' /\ OwnInv'
    BY <1>1, <1>2, <2>3, <2>4, <2>5, WorldKept DEF TypeInv, rootVars
  <2>7. buffered = <<>> \/ ~Linking
    BY DEF Linking
  <2>8. LinkInv'
    BY <1>1, <1>2, <2>3, <2>4, <2>6, <2>7 DEF LinkInv, rootVars
  <2>9. TaskInv'
    BY <1>1, <1>2, <1>3, <1>5, <2>3 DEF TaskInv
  <2>. QED  BY <2>3, <2>4, <2>5, <2>6, <2>8, <2>9 DEF Inv
<1>. QED  BY <1>4, <1>5

LEMMA FlushKeeps ==
  ASSUME Inv, Flush, UNCHANGED <<members, policy, cancelled>>
  PROVE  Inv'
<1>1. todo # <<>> /\ Head(todo).op = "Flush" /\ UNCHANGED <<diskVars, entries, symlinks, handle>>
  BY DEF Flush, Doing
<1>2. TypeInv /\ DiskInv /\ TaskInv /\ RowInv /\ WriteInv /\ LinkInv /\ AllowedInv /\ OwnInv
  BY DEF Inv
<1>3. phase = "running" /\ members \in Seq(Members) /\ Head(todo).op \in Closing
  BY <1>1, <1>2, OnlyRunning DEF BlockingOps, TypeInv, Closing
<1>4. task.files = <<>> /\ (result = "Pending" => task.error = "None")
  BY <1>1, <1>2, <1>3 DEF TaskInv, Doing
<1>5. DiskInv' /\ NoNewOld /\ NoNewLinks
  BY <1>1, <1>2, SameGentle DEF diskVars
<1>6. CASE buffered = <<>>
  <2>1. Then(<<>>) /\ UNCHANGED <<buffered, task>>
    BY <1>6 DEF Flush
  <2>2. Keeps({})
    BY <1>1, <1>6, <2>1, NoneKept DEF diskVars
  <2>3. /\ todo' \in Seq(OpType) /\ RowInv' /\ WriteInv' /\ UNCHANGED <<phase, result>>
        /\ Linking /\ buffered' = <<>> /\ task'.files = <<>> => Linking'
        /\ (\E e \in Elems(todo') : e.op = "MakeLink") => Linking
        /\ phase = "running" /\ result # "Pending" =>
             /\ \A e \in Elems(todo') : e.op \in {"Flush", "Await", "Return"}
             /\ \E e \in Elems(todo') : e.op = "Return"
    BY <1>1, <1>3, <2>1, <2>2, NoOps, ClosingThen
  <2>4. TypeInv'
    BY <1>1, <1>2, <2>1, <2>3 DEF TypeInv, diskVars
  <2>5. (NoLinks /\ NoNewLinks => NoLinks') /\ AllowedInv' /\ OwnInv'
    BY <1>1, <1>2, <1>5, <2>1, <2>3, <2>4, WorldKept DEF TypeInv
  <2>6. LinkInv'
    BY <1>2, <1>4, <1>5, <1>6, <2>1, <2>3, <2>5 DEF LinkInv
  <2>7. TaskInv'
    BY <1>2, <1>3, <1>4, <2>1, <2>3 DEF TaskInv
  <2>. QED  BY <1>5, <2>3, <2>4, <2>5, <2>6, <2>7 DEF Inv
<1>7. CASE buffered # <<>>
  <2>. DEFINE await == Op("Await", Path)
  <2>1. Then(<<await>>) /\ buffered' = <<>> /\ task' = [NoTask EXCEPT !.files = buffered]
    BY <1>7 DEF Flush
  <2>2. task' = [files |-> buffered, stage |-> "start", error |-> "None"]
    BY <2>1 DEF NoTask
  <2>3. await \in OpType /\ await.op = "Await"
    <3>1. Head(todo) \in OpType
      BY <1>1, <1>2, TailElems DEF TypeInv
    <3>. QED  BY <3>1 DEF Op, OpType, OpNames, Path
  <2>. HIDE DEF await
  <2>4. Keeps({})
    BY <1>1, <2>1, <1>7, NoneKept DEF diskVars
  <2>5. Keeps(Elems(<<await>>))
    BY <2>3, <2>4, ElemsOne DEF Keeps, Closing
  <2>6. ASSUME NEW l \in Left(<<await>>) PROVE Justified(l.do, l.after)'
    <3>1. l.do = await /\ l.after = {}
      BY LeftOne
    <3>. QED  BY <2>3, <3>1
              DEF Justified, Placed, Orderly, Rooted, Emptied, Sourced, Truncable, MemberOps, Settled
  <2>7. /\ todo' \in Seq(OpType) /\ RowInv' /\ WriteInv' /\ UNCHANGED <<phase, result>>
        /\ (\E e \in Elems(todo') : e.op = "MakeLink") => Linking
        /\ phase = "running" /\ result # "Pending" =>
             /\ \A e \in Elems(todo') : e.op \in {"Flush", "Await", "Return"}
             /\ \E e \in Elems(todo') : e.op = "Return"
        /\ todo' # <<>> /\ Head(todo') = await
    <3>1. <<await>> # <<>> /\ Head(<<await>>) = await
      OBVIOUS
    <3>. QED  BY <1>1, <1>3, <2>1, <2>3, <2>5, <2>6, <3>1, ClosingThen
  <2>8. TypeInv'
    <3>1. buffered \in Seq(FileType)
      BY <1>2 DEF TypeInv
    <3>2. task' \in [files : Seq(FileType), stage : {"start", "checked", "removed", "created"},
                     error : {"None", "Filesystem", "PathCollision"}]
      BY <2>2, <3>1
    <3>3. buffered' \in Seq(FileType)
      BY <2>1
    <3>. QED  BY <1>1, <1>2, <2>7, <3>2, <3>3 DEF TypeInv, diskVars
  <2>9. ~Linking /\ NoLinks
    BY <1>2, <1>7 DEF Linking, LinkInv
  <2>10. Queued' = Queued
    BY <1>4, <2>1, <2>2, NoOps DEF Queued
  <2>11. NoLinks'
    <3>1. \A p : NoLink(p) => NoLink(p)'
      BY <1>5 DEF NoNewLinks
    <3>2. \A p : IsDirectory(p)' = IsDirectory(p)
      BY <1>1 DEF IsDirectory, StateOf
    <3>. QED  BY <1>1, <2>9, <2>10, <3>1, <3>2 DEF NoLinks
  <2>12. AllowedInv'
    BY <1>2, <2>10 DEF AllowedInv
  <2>13. OwnInv'
    <3>1. \A p : ~Old(p) => ~Old(p)'
      BY <1>5 DEF NoNewOld
    <3>2. task'.stage = "start" /\ task'.error = "None"
      BY <2>2
    <3>. QED  BY <1>1, <1>2, <1>4, <2>7, <2>10, <3>1, <3>2 DEF OwnInv
  <2>14. LinkInv'
    BY <2>7, <2>9, <2>11 DEF LinkInv
  <2>15. TaskInv'
    BY <1>2, <1>3, <2>2, <2>3, <2>7 DEF TaskInv, Doing
  <2>. QED  BY <1>5, <2>7, <2>8, <2>11, <2>12, <2>13, <2>14, <2>15 DEF Inv
<1>. QED  BY <1>6, <1>7

Made(o) == o.op = "MakeLink" /\ \E n \in ActiveLinks : o = Op("MakeLink", symlinks[n].path)

LEMMA LinkOpsAre ==
  ASSUME TypeInv
  PROVE  LinkOps \in Seq({ o \in OpType : Made(o) })
<1>. DEFINE N == Len(symlinks)
            S == { o \in OpType : Made(o) }
            more(k) == IF k \in ActiveLinks THEN << Op("MakeLink", symlinks[k].path) >> ELSE <<>>
            step == [k \in 1..N |-> [s \in Seq(S) |-> s \o more(k)]]
            ops[n \in 0..N] == IF n = 0 THEN <<>> ELSE ops[n - 1] \o more(n)
<1>1. N \in Nat /\ \A k \in 1..N : symlinks[k] \in LinkType
  BY DEF TypeInv
<1>2. ASSUME NEW k \in 1..N PROVE more(k) \in Seq(S)
  <2>1. symlinks[k].path \in Paths
    BY <1>1 DEF LinkType
  <2>2. k \in ActiveLinks => Op("MakeLink", symlinks[k].path) \in S
    BY <2>1 DEF Op, OpType, OpNames, Made
  <2>. HIDE DEF S
  <2>. QED  BY <2>2
<1>. HIDE DEF N, S, more
<1>3. \A k \in 1..N : \A s \in Seq(S) : s \o more(k) \in Seq(S)
  BY <1>2
<1>4. step \in [1..N -> [Seq(S) -> Seq(S)]]
  BY <1>3
<1>5. <<>> \in Seq(S)
  OBVIOUS
<1>6. PICK f \in [0..N -> Seq(S)] : f[0] = <<>> /\ \A k \in 1..N : f[k] = step[k][f[k - 1]]
  <2>. HIDE DEF step
  <2>1. PICK f \in [0..N -> Seq(S)] : Recursive(f, N, <<>>, step)
    BY <1>1, <1>4, <1>5, RecursionExists
  <2>. QED  BY <2>1 DEF Recursive
<1>7. f = [n \in 0..N |-> IF n = 0 THEN <<>> ELSE f[n - 1] \o more(n)]
  <2>1. ASSUME NEW n \in 0..N PROVE f[n] = IF n = 0 THEN <<>> ELSE f[n - 1] \o more(n)
    <3>1. CASE n = 0
      BY <1>6, <3>1
    <3>2. CASE n # 0
      <4>1. n \in 1..N /\ n - 1 \in 0..N
        BY <1>1, <3>2
      <4>2. f[n] = step[n][f[n - 1]] /\ f[n - 1] \in Seq(S)
        BY <1>6, <4>1
      <4>. QED  BY <3>2, <4>1, <4>2
    <3>. QED  BY <3>1, <3>2
  <2>. QED  BY <1>6, <2>1
<1>8. ops = [n \in 0..N |-> IF n = 0 THEN <<>> ELSE ops[n - 1] \o more(n)]
  BY <1>7, Zenon DEF ops
<1>9. LinkOps = ops[N]
  BY Zenon DEF LinkOps, ops, N, more
<1>. HIDE DEF ops
<1>. DEFINE T == { n \in 0..N : ops[n] \in Seq(S) }
<1>10. 0 \in T
  BY <1>1, <1>5, <1>8
<1>11. ASSUME NEW n \in 0..(N - 1), n \in T PROVE n + 1 \in T
  <2>1. n + 1 \in 0..N /\ n + 1 \in 1..N /\ n + 1 # 0 /\ (n + 1) - 1 = n
    BY <1>1
  <2>2. ops[n + 1] = ops[n] \o more(n + 1)
    BY <1>8, <2>1
  <2>3. ops[n] \in Seq(S) /\ more(n + 1) \in Seq(S)
    BY <1>2, <1>11, <2>1
  <2>4. ops[n] \o more(n + 1) \in Seq(S)
    BY <2>3
  <2>. QED  BY <2>1, <2>2, <2>4
<1>12. \A n \in 0..N : n \in T
  <2>. HIDE DEF T
  <2>. QED  BY <1>1, <1>10, <1>11, CountingUp
<1>13. N \in 0..N
  BY <1>1
<1>. QED  BY <1>9, <1>12, <1>13 DEF S

LEMMA ValidateKeeps ==
  ASSUME Inv, Validate, UNCHANGED <<members, task, policy, cancelled>>
  PROVE  Inv'
<1>1. todo # <<>> /\ Head(todo).op = "Validate" /\ UNCHANGED <<diskVars, rootVars>>
  BY DEF Validate, Doing
<1>2. TypeInv /\ DiskInv /\ TaskInv /\ RowInv /\ WriteInv /\ LinkInv /\ AllowedInv /\ OwnInv
  BY DEF Inv
<1>3. /\ members \in Seq(Members) /\ task.files = <<>> /\ task.stage = "start"
      /\ Justified(Head(todo), {}) /\ NoLinks
      /\ phase = "running" => result = "Pending" /\ task.error = "None"
  BY <1>1, Now DEF Closing
<1>4. phase = "running"
  BY <1>1, OnlyRunning DEF BlockingOps
<1>5. CASE FailWith("Filesystem")
  BY <1>1, <1>3, <1>4, <1>5, FailsKeeps
<1>6. CASE FailWith(Verdict(First(Rejected)))
  <2>1. Verdict(First(Rejected)) # "Pending"
    BY DEF Verdict
  <2>. QED  BY <1>1, <1>3, <1>4, <1>6, <2>1, FailsKeeps
<1>7. CASE Then(LinkOps \o << Op("Return", <<>>) >>)
  <2>. DEFINE return == Op("Return", <<>>)
              ops == LinkOps \o <<return>>
              S == { o \in OpType : Made(o) }
  <2>1. return \in OpType /\ return.op = "Return"
    BY OnDiskRoot DEF Op, OpType, OpNames
  <2>. HIDE DEF return
  <2>2. LinkOps \in Seq(S)
    BY <1>2, LinkOpsAre
  <2>3. ops \in Seq(OpType) /\ Elems(ops) \subseteq S \cup {return} /\ return \in Elems(ops)
    <3>1. LinkOps \in Seq(OpType) /\ Elems(LinkOps) \subseteq S /\ <<return>> \in Seq(OpType)
      BY <2>1, <2>2 DEF Elems
    <3>2. \A s, t \in Seq(OpType) : Elems(s \o t) = Elems(s) \cup Elems(t)
      BY ElemsConcat
    <3>3. Elems(ops) = Elems(LinkOps) \cup {return}
      BY <3>1, <3>2, ElemsOne, Zenon
    <3>. HIDE DEF S
    <3>. QED  BY <3>1, <3>3
  <2>4. todo \in Seq(OpType)
    BY <1>2 DEF TypeInv
  <2>5. Tail(todo) = <<>>
    <3>. SUFFICES ASSUME Tail(todo) # <<>> PROVE FALSE
      OBVIOUS
    <3>1. Tail(todo) \in Seq(OpType)
      BY <1>1, <2>4
    <3>2. PICK l \in Left(Tail(todo)) : l.do = Head(Tail(todo)) /\ l.after = {}
      BY <3>1, HeadLeft
    <3>3. PICK m \in Left(todo) : m.do = l.do /\ m.after = {Head(todo)} \cup l.after
      BY <1>1, <2>4, LeftTail
    <3>4. Orderly(m.do, m.after)
      BY <1>2 DEF RowInv, Justified
    <3>. QED  BY <1>1, <3>3, <3>4 DEF Orderly
  <2>6. todo' = ops /\ UNCHANGED <<phase, result>>
    <3>1. ops \o <<>> = ops
      BY <2>3, ConcatEmptySeq
    <3>. QED  BY <1>4, <1>7, <2>5, <3>1 DEF Then, return
  <2>. HIDE DEF ops
  <2>7. buffered = <<>>
    BY <1>1, <1>3 DEF Justified, Emptied
  <2>8. ASSUME NEW l \in Left(ops) PROVE Justified(l.do, l.after)'
    <3>1. PICK k \in 1..Len(ops) : l.do = ops[k] /\ l.after = { ops[j] : j \in 1..(k - 1) }
      BY LeftOf
    <3>2. l.do \in Elems(ops)
      BY <3>1 DEF Elems
    <3>3. l.after \subseteq Elems(ops)
      BY <2>3, <3>1 DEF Elems
    <3>4. CASE l.do.op = "Return"
      <4>1. \A e \in l.after : e.op # "Validate"
        BY <2>1, <2>3, <3>3 DEF Made
      <4>. QED  BY <3>4, <4>1
                DEF Justified, Placed, Orderly, Rooted, Emptied, Sourced, Truncable, MemberOps, Settled
    <3>5. CASE l.do.op = "MakeLink"
      <4>1. \A e \in l.after : e.op = "MakeLink"
        <5>1. ASSUME NEW j \in 1..(k - 1) PROVE ops[j].op = "MakeLink"
          <6>1. /\ Len(LinkOps) \in Nat /\ Len(ops) = Len(LinkOps) + 1 /\ ops[Len(LinkOps) + 1] = return
                /\ \A i \in 1..Len(LinkOps) : ops[i] = LinkOps[i]
            BY <2>1, <2>2 DEF ops
          <6>2. j \in 1..Len(LinkOps)
            BY <3>1, <6>1
          <6>3. LinkOps[j] \in S
            BY <2>2, <6>2
          <6>. QED  BY <6>1, <6>2, <6>3 DEF Made
        <5>. QED  BY <3>1, <5>1
      <4>. QED  BY <1>1, <2>7, <3>5, <4>1
                DEF Justified, Placed, Orderly, Rooted, Emptied, Sourced, Truncable, MemberOps, Settled,
                    Closing, rootVars
    <3>. QED  BY <2>1, <2>3, <3>2, <3>4, <3>5 DEF Made
  <2>9. RowInv'
    BY <2>6, <2>8 DEF RowInv
  <2>10. \A e \in Elems(todo') : e.op \in {"MakeLink", "Return"}
    BY <2>1, <2>3, <2>6 DEF Made
  <2>11. WriteInv'
    <3>1. \A k \in 1..Len(todo') : todo'[k] \in Elems(todo')
      BY DEF Elems
    <3>2. \A k \in 2..Len(todo') : todo'[k].op # "Write"
      <4>1. \A k \in 2..Len(todo') : k \in 1..Len(todo')
        BY <2>3, <2>6
      <4>. QED  BY <2>10, <3>1, <4>1
    <3>3. ~(Doing("Write"))'
      <4>1. todo' # <<>> => Head(todo') \in Elems(todo')
        BY <2>3, <2>6, TailElems
      <4>. QED  BY <2>10, <4>1 DEF Doing
    <3>. QED  BY <3>2, <3>3 DEF WriteInv
  <2>12. Linking'
    BY <1>1, <1>3, <2>3, <2>6, <2>7, <2>1, <2>10 DEF Linking, Closing, rootVars
  <2>13. LinkInv'
    BY <2>12 DEF LinkInv
  <2>14. DiskInv' /\ NoNewOld /\ NoNewLinks
    BY <1>1, <1>2, SameGentle DEF diskVars
  <2>15. TypeInv'
    BY <1>1, <1>2, <2>3, <2>6 DEF TypeInv, diskVars, rootVars
  <2>16. AllowedInv' /\ OwnInv'
    BY <1>1, <1>2, <2>6, <2>14, <2>15, WorldKept DEF TypeInv, rootVars
  <2>17. TaskInv'
    BY <1>2, <1>3, <1>4, <2>6 DEF TaskInv
  <2>. QED  BY <2>9, <2>11, <2>13, <2>14, <2>15, <2>16, <2>17 DEF Inv
<1>. QED  BY <1>5, <1>6, <1>7 DEF Validate

LEMMA ReturnKeeps ==
  ASSUME Inv, Return, UNCHANGED <<members, task, policy, cancelled>>
  PROVE  Inv'
<1>1. /\ todo # <<>> /\ Head(todo).op = "Return" /\ UNCHANGED <<diskVars, rootVars>>
      /\ phase' = "returned" /\ todo' = <<>> /\ result' # "Pending"
  BY DEF Return, Doing
<1>2. TypeInv /\ DiskInv /\ TaskInv /\ RowInv /\ WriteInv /\ LinkInv /\ AllowedInv /\ OwnInv
  BY DEF Inv
<1>3. phase = "running" /\ task.files = <<>> /\ task.stage = "start"
  BY <1>1, <1>2, OnlyRunning DEF BlockingOps, TaskInv, Doing
<1>4. Elems(todo') = {} /\ Left(todo') = {} /\ todo' \in Seq(OpType) /\ 2..Len(todo') = {}
  BY <1>1, NoOps
<1>5. RowInv' /\ WriteInv'
  BY <1>1, <1>4 DEF RowInv, WriteInv, Doing
<1>6. DiskInv' /\ NoNewOld /\ NoNewLinks
  BY <1>1, <1>2, SameGentle DEF diskVars
<1>7. TypeInv'
  BY <1>1, <1>2, <1>4 DEF TypeInv, diskVars, rootVars
<1>8. (NoLinks /\ NoNewLinks => NoLinks') /\ AllowedInv' /\ OwnInv'
  BY <1>1, <1>2, <1>6, <1>7, WorldKept DEF TypeInv, rootVars
<1>9. Linking => Linking'
  BY <1>1, <1>4 DEF Linking, rootVars
<1>10. LinkInv'
  BY <1>2, <1>4, <1>6, <1>8, <1>9 DEF LinkInv
<1>11. TaskInv'
  BY <1>1, <1>2, <1>3 DEF TaskInv
<1>. QED  BY <1>5, <1>6, <1>7, <1>8, <1>10, <1>11 DEF Inv

LEMMA DropKeeps ==
  ASSUME Inv, DropFuture
  PROVE  Inv'
<1>1. /\ phase = "running" /\ phase' = "dropped" /\ cancelled' = TRUE
      /\ todo' = (IF todo # <<>> /\ Head(todo).op \in BlockingOps THEN <<Head(todo)>> ELSE <<>>)
      /\ UNCHANGED <<diskVars, policy, members, rootVars, task, result>>
  BY DEF DropFuture
<1>2. TypeInv /\ DiskInv /\ TaskInv /\ RowInv /\ WriteInv /\ LinkInv /\ AllowedInv /\ OwnInv
  BY DEF Inv
<1>3. DiskInv' /\ NoNewOld /\ NoNewLinks
  BY <1>1, <1>2, SameGentle DEF diskVars
<1>4. CASE todo # <<>> /\ Head(todo).op \in BlockingOps
  <2>0. Head(todo) \in OpType /\ Head(todo) \in Elems(todo)
    BY <1>2, <1>4, TailElems DEF TypeInv
  <2>. PICK o \in OpType : o = Head(todo)
    BY <2>0
  <2>1. o \in OpType /\ o \in Elems(todo)
    BY <2>0
  <2>2. Justified(o, {})
    <3>1. todo \in Seq(OpType)
      BY <1>2 DEF TypeInv
    <3>. QED  BY <1>2, <1>4, <3>1, HeadLeft DEF RowInv
  <2>3. todo' = <<o>>
    BY <1>1, <1>4
  <2>4. todo' \in Seq(OpType) /\ Head(todo') = o /\ Len(todo') = 1 /\ Elems(todo') = {o} /\ todo' # <<>>
    BY <2>1, <2>3, ElemsOne
  <2>5. ASSUME NEW l \in Left(todo') PROVE Justified(l.do, l.after)'
    <3>1. l.do = o /\ l.after = {}
      BY <2>3, LeftOne
    <3>2. Old(o.path)' = Old(o.path)
      BY <1>1 DEF Old, NodeAt, diskVars
    <3>3. \A q : IsDirectory(q)' = IsDirectory(q)
      BY <1>1 DEF IsDirectory, StateOf, rootVars
    <3>4. Linkable(Member)' = Linkable(Member) /\ Current' = Current /\ Member' = Member
      BY <1>1 DEF Linkable, StateOf, rootVars, Member, Current
    <3>. QED  BY <1>1, <2>2, <3>1, <3>2, <3>3, <3>4
              DEF Justified, Placed, Orderly, Rooted, Emptied, Sourced, Truncable, rootVars
  <2>6. RowInv'
    BY <2>5 DEF RowInv
  <2>7. WriteInv'
    <3>1. 2..Len(todo') = {}
      BY <2>4
    <3>2. (Doing("Write"))' => Ready'
      <4>. SUFFICES ASSUME (Doing("Write"))' PROVE Ready'
        OBVIOUS
      <4>1. Doing("Write")
        BY <1>4, <2>4 DEF Doing
      <4>2. Ready
        BY <1>2, <4>1 DEF WriteInv, Ready
      <4>3. Path' = Path /\ handle' = handle
        BY <1>1, <2>4 DEF Path, rootVars
      <4>4. Spot' = Spot
        BY <1>1, <4>1, <4>3, SpotKept DEF Doing, Settled, diskVars
      <4>5. \A q : NodeAt(q)' = NodeAt(q)
        BY <1>1, SameNode DEF diskVars
      <4>. QED  BY <4>2, <4>3, <4>4, <4>5 DEF Ready, Old
    <3>. QED  BY <3>1, <3>2 DEF WriteInv, Ready
  <2>8. TypeInv'
    BY <1>1, <1>2, <2>4 DEF TypeInv, diskVars, rootVars
  <2>9. (NoLinks /\ NoNewLinks => NoLinks') /\ AllowedInv' /\ OwnInv'
    BY <1>1, <1>2, <1>3, <2>8, WorldKept DEF TypeInv, rootVars
  <2>10. Linking => Linking'
    BY <1>1, <2>1, <2>4 DEF Linking, rootVars
  <2>11. LinkInv'
    BY <1>2, <1>3, <2>1, <2>4, <2>9, <2>10 DEF LinkInv
  <2>12. task.files = <<>>
    BY <1>1, <1>2, <1>4 DEF TaskInv, Doing, BlockingOps
  <2>13. TaskInv'
    BY <1>1, <1>2, <1>4, <2>4, <2>12 DEF TaskInv
  <2>. QED  BY <1>3, <2>6, <2>7, <2>8, <2>9, <2>11, <2>13 DEF Inv
<1>5. CASE ~(todo # <<>> /\ Head(todo).op \in BlockingOps)
  <2>1. todo' = <<>>
    BY <1>1, <1>5
  <2>2. Elems(todo') = {} /\ Left(todo') = {} /\ todo' \in Seq(OpType) /\ 2..Len(todo') = {}
    BY <2>1, NoOps
  <2>3. RowInv' /\ WriteInv'
    BY <2>1, <2>2 DEF RowInv, WriteInv, Doing
  <2>4. TypeInv'
    BY <1>1, <1>2, <2>2 DEF TypeInv, diskVars, rootVars
  <2>5. (NoLinks /\ NoNewLinks => NoLinks') /\ AllowedInv' /\ OwnInv'
    BY <1>1, <1>2, <1>3, <2>4, WorldKept DEF TypeInv, rootVars
  <2>6. Linking => Linking'
    BY <1>1, <2>2 DEF Linking, rootVars
  <2>7. LinkInv'
    BY <1>2, <1>3, <2>2, <2>5, <2>6 DEF LinkInv
  <2>8. TaskInv'
    BY <1>1, <1>2, <2>1 DEF TaskInv
  <2>. QED  BY <1>3, <2>3, <2>4, <2>5, <2>7, <2>8 DEF Inv
<1>. QED  BY <1>4, <1>5

-----------------------------------------------------------------------------
(* The steps on one path of the destination.                               *)

(* An operation that is done: what it may have changed is the path's state *)
(* and its leaf.                                                           *)
LEMMA DoneKeeps ==
  ASSUME Inv, todo # <<>>, Head(todo).op \in Settled \ {"Enqueue"}, Then(<<>>),
         UNCHANGED <<members, task, policy, cancelled, buffered>>,
         DiskInv', NoNewOld, NoNewLinks, 0 \in DOMAIN data',
         symlinks' \in Seq(LinkType), handle' \in HandleType,
         \A q : q # Path => StateOf(q)' = StateOf(q),
         \A q \in DOMAIN entries' : q # Path => q \in DOMAIN entries /\ entries'[q] = entries[q],
         Path \in DOMAIN entries' =>
           \/ Path \in DOMAIN entries /\ entries'[Path] = entries[Path]
           \/ /\ entries'[Path].kind \in Kinds
              /\ entries'[Path].kind \in DirectoryKinds => \A p : p = Path => NoLink(p)'
              /\ entries'[Path].kind = "File" => \A p : p = Path => ~Old(p)',
         Head(todo).op = "Parent" => \A p : p = Path => IsDirectory(p)',
         Head(todo).op = "Link" => \A p : p = Path => ~Old(p)',
         Head(todo).op \in {"Create", "Truncate"} => ((Doing("Write"))' => Ready')
  PROVE  Inv'
<1>1. TypeInv /\ DiskInv /\ TaskInv /\ RowInv /\ WriteInv /\ LinkInv /\ AllowedInv /\ OwnInv
  BY DEF Inv
<1>2. PICK p \in Paths \ {<<>>} : p = Path
  BY Here
<1>3. /\ Current \in Nat \ {0} /\ Member.path \in Paths \ {<<>>}
      /\ p = Member.path \/ (Head(todo).op = "Parent" /\ p \in Prefixes(Member.path))
      /\ \A q \in Prefixes(p) : NoLink(q)
  BY <1>2, Here
<1>4. Head(todo).op \notin Closing \cup {"Return", "Target", "Flush", "Enqueue"}
  BY DEF Settled, Closing
<1>5. Current' = Current /\ Member' = Member
  BY DEF Current, Member
<1>6. \A q : q # p /\ IsDirectory(q) => IsDirectory(q)'
  BY <1>2 DEF IsDirectory
<1>7. Keeps({})
  <2>1. ASSUME NEW q, Head(todo) = Op("Parent", q) PROVE IsDirectory(q)'
    BY <1>2, <2>1 DEF Op, Path
  <2>2. ASSUME NEW q \in Prefixes(Member.path), IsDirectory(q) PROVE IsDirectory(q)'
    <3>1. q = p => Head(todo).op = "Parent"
      BY <1>3, PathParts
    <3>. QED  BY <1>2, <1>6, <2>2, <3>1
  <2>3. ASSUME Linkable(Member) PROVE Linkable(Member)'
    <3>1. Member.target # p
      BY <1>3, <2>3 DEF Linkable
    <3>. QED  BY <1>2, <1>5, <2>3, <3>1 DEF Linkable
  <2>4. ~Old(Member.path) => ~Old(Member.path)'
    BY <1>5 DEF NoNewOld, Old
  <2>5. Head(todo).op = "Link" => ~Old(Member.path)'
    BY <1>2, <1>3, <1>5 DEF Old
  <2>. QED  BY <1>4, <2>1, <2>2, <2>3, <2>4, <2>5 DEF Keeps, Closing
<1>8. /\ todo' \in Seq(OpType) /\ RowInv' /\ TaskInv' /\ WriteInv' /\ (NoLinks' => LinkInv')
      /\ UNCHANGED <<phase, result>>
  <2>1. Keeps(Elems(<<>>))
    BY <1>7, NoOps
  <2>. QED  BY <1>1, <1>4, <2>1, NoOps, ThenKeeps
<1>9. DOMAIN entries' \subseteq Paths \ {<<>>} /\ \A q \in DOMAIN entries' : entries'[q].kind \in Kinds
  BY <1>1, <1>2 DEF TypeInv
<1>10. TypeInv'
  BY <1>1, <1>8, <1>9 DEF TypeInv
<1>11. (NoLinks /\ NoNewLinks => NoLinks') /\ AllowedInv' /\ OwnInv'
  <2>1. ASSUME NEW q \in DOMAIN entries'
        PROVE  \/ q \in DOMAIN entries /\ entries'[q] = entries[q]
               \/ /\ \A r \in Prefixes(q) : NoLink(r)
                  /\ entries'[q].kind \in DirectoryKinds => NoLink(q)'
                  /\ entries'[q].kind = "File" => ~Old(q)'
    BY <1>2, <1>3
  <2>. QED  BY <1>1, <1>8, <1>9, <2>1, WorldKept
<1>12. NoLinks
  BY <1>1, <1>4, NotLinking
<1>. QED  BY <1>8, <1>10, <1>11, <1>12 DEF Inv

(* An operation that fails before it changed anything.                     *)
LEMMA NoneDone ==
  ASSUME Inv, todo # <<>>, Head(todo).op \notin Closing \cup {"Return"}, NEW error, Fails(error),
         error # "Pending", UNCHANGED <<members, task, policy, cancelled>>
  PROVE  Inv'
<1>1. members \in Seq(Members) /\ task.files = <<>> /\ phase \in {"running", "dropped"}
  BY Now
<1>. QED  BY <1>1, FailsKeeps DEF Fails

(* Contents follow at once into the file that is there.                    *)
LEMMA ReadyNext ==
  ASSUME Inv, todo # <<>>, Head(todo).op \in {"Create", "Truncate"}, Then(<<>>), Spot = OnDisk(Path),
         UNCHANGED <<members, handle>>,
         \A p : p = Path => (NodeAt(OnDisk(p)).type = "File" /\ ~Old(p))',
         \A q : q # OnDisk(Path) => NodeAt(q)' = NodeAt(q)
  PROVE  (Doing("Write"))' => Ready'
<1>. SUFFICES ASSUME (Doing("Write"))' PROVE Ready'
  OBVIOUS
<1>1. TypeInv /\ RowInv
  BY DEF Inv
<1>2. PICK p \in Paths \ {<<>>} : p = Path
  BY Here DEF Settled
<1>3. PICK h \in HandleType : h = handle
  BY <1>1 DEF TypeInv
<1>4. /\ p = Member.path /\ \A q \in Prefixes(p) : NoLink(q)
      /\ h.at = OnDisk(h.entry)
  BY <1>2, <1>3, Here DEF Settled
<1>5. Path' = p
  <2>1. todo' = Tail(todo) /\ Tail(todo) # <<>> /\ Head(Tail(todo)).op = "Write"
        /\ todo \in Seq(OpType) /\ Tail(todo) \in Seq(OpType)
    <3>1. todo \in Seq(OpType) /\ Tail(todo) \in Seq(OpType)
      BY <1>1, TailElems DEF TypeInv
    <3>2. <<>> \o Tail(todo) = Tail(todo)
      BY <3>1, ConcatEmptySeq
    <3>. QED  BY <3>1, <3>2 DEF Then, Doing
  <2>2. PICK l \in Left(Tail(todo)) : l.do = Head(Tail(todo))
    BY <2>1, HeadLeft
  <2>3. PICK m \in Left(todo) : m.do = l.do
    BY <2>1, LeftTail
  <2>4. Placed(m.do)
    BY <1>1 DEF RowInv, Justified
  <2>. QED  BY <1>4, <2>1, <2>2, <2>3, <2>4 DEF Placed, MemberOps, Path
<1>6. Location(p, h)' = Location(p, h)
  <2>1. \A q \in Prefixes(p) : NodeAt(OnDisk(q))' = NodeAt(OnDisk(q))
    <3>1. \A q \in Prefixes(p) : OnDisk(q) # OnDisk(p)
      BY PlaceIs
    <3>. QED  BY <1>2, <3>1
  <2>. QED  BY <1>4, <2>1, LocationKept
<1>7. Spot = Location(p, h) /\ Spot' = Location(p, h)'
  BY <1>2, <1>3, <1>5 DEF Spot, Location
<1>8. Spot' = OnDisk(p)
  BY <1>2, <1>6, <1>7
<1>. QED  BY <1>2, <1>5, <1>8 DEF Ready, Old, NodeAt

LEMMA WriteKeeps ==
  ASSUME Inv, Write, UNCHANGED <<members, task, policy, cancelled>>
  PROVE  Inv'
<1>1. todo # <<>> /\ Head(todo).op = "Write"
  BY DEF Write, Doing
<1>2. CASE Fails("Archive") \/ Fails("Filesystem")
  BY <1>1, <1>2, NoneDone DEF Closing
<1>3. CASE Written(SpotNode.inode, Current, TRUE) /\ Then(<<>>) /\ UNCHANGED <<fs, rootVars>>
  <2>1. TypeInv /\ DiskInv
    BY DEF Inv
  <2>2. DiskInv' /\ NoNewOld /\ NoNewLinks
    BY <1>3, <2>1, SameGentle
  <2>3. 0 \in DOMAIN data'
    BY <1>3, <2>1 DEF Written, TypeInv
  <2>4. \A q : StateOf(q)' = StateOf(q)
    BY <1>3, SameState DEF rootVars
  <2>5. Head(todo).op \in Settled \ {"Enqueue", "Parent", "Link", "Create", "Truncate"}
    BY <1>1 DEF Settled
  <2>6. symlinks' \in Seq(LinkType) /\ handle' \in HandleType /\ entries' = entries /\ buffered' = buffered
    BY <1>3, <2>1 DEF TypeInv, rootVars
  <2>. QED  BY <1>1, <1>3, <2>2, <2>3, <2>4, <2>5, <2>6, DoneKeeps
<1>. QED  BY <1>2, <1>3 DEF Write

LEMMA TruncateKeeps ==
  ASSUME Inv, Truncate, UNCHANGED <<members, task, policy, cancelled>>
  PROVE  Inv'
<1>1. todo # <<>> /\ Head(todo).op = "Truncate"
  BY DEF Truncate, Doing
<1>2. CASE Fails("Filesystem")
  BY <1>1, <1>2, NoneDone DEF Closing
<1>3. CASE /\ SpotNode.type = "File"
           /\ Written(SpotNode.inode, Current, FALSE)
           /\ Then(<<>>) /\ UNCHANGED <<fs, rootVars>>
  <2>1. TypeInv /\ DiskInv
    BY DEF Inv
  <2>2. DiskInv' /\ NoNewOld /\ NoNewLinks
    BY <1>3, <2>1, SameGentle
  <2>3. 0 \in DOMAIN data'
    BY <1>3, <2>1 DEF Written, TypeInv
  <2>4. \A q : StateOf(q)' = StateOf(q)
    BY <1>3, SameState DEF rootVars
  <2>5. Head(todo).op \in Settled \ {"Enqueue", "Parent", "Link"}
    BY <1>1 DEF Settled
  <2>6. symlinks' \in Seq(LinkType) /\ handle' \in HandleType /\ entries' = entries /\ buffered' = buffered
    BY <1>3, <2>1 DEF TypeInv, rootVars
  <2>7. Spot = OnDisk(Path) /\ NodeAt(OnDisk(Path)).type = "File"
    <3>1. Spot # Nowhere
      BY <1>3 DEF SpotNode, Nothing
    <3>2. Spot = OnDisk(Path)
      BY <1>1, <2>5, <3>1, Here
    <3>. QED  BY <1>3, <3>1, <3>2 DEF SpotNode
  <2>8. ~Old(Path)
    <3>1. Justified(Head(todo), {})
      BY <1>1, Now DEF Closing
    <3>. QED  BY <1>1, <3>1 DEF Justified, Truncable, Path
  <2>9. \A q : NodeAt(q)' = NodeAt(q)
    BY <1>3, SameNode
  <2>10. \A p : p = Path => (NodeAt(OnDisk(p)).type = "File" /\ ~Old(p))'
    BY <2>7, <2>8, <2>9 DEF Old
  <2>11. (Doing("Write"))' => Ready'
    <3>1. UNCHANGED handle
      BY <1>3 DEF rootVars
    <3>. QED  BY <1>1, <1>3, <2>7, <2>9, <2>10, <3>1, ReadyNext
  <2>. QED  BY <1>1, <1>3, <2>2, <2>3, <2>4, <2>5, <2>6, <2>11, DoneKeeps
<1>. QED  BY <1>2, <1>3 DEF Truncate

LEMMA ReserveKeeps ==
  ASSUME Inv, Reserve, UNCHANGED <<members, task, policy, cancelled>>
  PROVE  Inv'
<1>. DEFINE state == [kind |-> "Symlink", index |-> Len(symlinks) + 1]
<1>1. /\ todo # <<>> /\ Head(todo).op = "Reserve" /\ SetState(Path, state)
      /\ symlinks' = Append(symlinks, [path |-> Path, target |-> Member.target, by |-> Current,
                                       requires_directory |-> Member.requires_directory])
      /\ Then(<<>>) /\ UNCHANGED <<diskVars, handle, buffered>>
  BY DEF Reserve, Doing
<1>2. TypeInv /\ DiskInv
  BY DEF Inv
<1>3. Head(todo).op \in Settled \ {"Enqueue", "Parent", "Link", "Create", "Truncate"}
  BY <1>1 DEF Settled
<1>4. Path \in Paths \ {<<>>} /\ Current \in Nat \ {0} /\ Member \in MemberType
  BY <1>1, <1>3, Here
<1>5. state.kind = "Symlink"
  OBVIOUS
<1>. HIDE DEF state
<1>6. DiskInv' /\ NoNewOld /\ NoNewLinks
  BY <1>1, <1>2, SameGentle DEF diskVars
<1>7. symlinks' \in Seq(LinkType)
  <2>1. [path |-> Path, target |-> Member.target, by |-> Current,
         requires_directory |-> Member.requires_directory] \in LinkType
    BY <1>4 DEF LinkType, MemberType, Paths
  <2>2. symlinks \in Seq(LinkType)
    BY <1>2 DEF TypeInv
  <2>. QED  BY <1>1, <2>1, <2>2
<1>8. /\ \A q : StateOf(q)' = IF q = Path THEN state ELSE StateOf(q)
      /\ DOMAIN entries' = DOMAIN entries \cup {Path} /\ entries'[Path] = state
      /\ \A q \in DOMAIN entries' : q # Path => q \in DOMAIN entries /\ entries'[q] = entries[q]
  BY <1>1, <1>4, SetStateIs
<1>9. entries'[Path].kind \in Kinds \ (DirectoryKinds \cup {"File"})
  BY <1>5, <1>8 DEF Kinds, DirectoryKinds
<1>10. 0 \in DOMAIN data' /\ handle' \in HandleType
  BY <1>1, <1>2 DEF TypeInv, diskVars
<1>. QED  BY <1>1, <1>3, <1>6, <1>7, <1>8, <1>9, <1>10, DoneKeeps

LEMMA NoHandleType == NoHandle \in HandleType /\ NoHandle.at = OnDisk(NoHandle.entry)
BY OnDiskRoot DEF NoHandle, HandleType

LEMMA HandleWithoutType ==
  ASSUME TypeInv, NEW p
  PROVE  HandleWithout(p) \in HandleType
BY NoHandleType DEF HandleWithout, TypeInv

LEMMA ReplaceKeeps ==
  ASSUME Inv, Replace, UNCHANGED <<members, task, policy, cancelled>>
  PROVE  Inv'
<1>1. todo # <<>> /\ Head(todo).op = "Replace"
  BY DEF Replace, Doing
<1>2. CASE Fails("Filesystem") \/ Fails("PathCollision")
  BY <1>1, <1>2, NoneDone DEF Closing
<1>3. CASE Then(<<>>) /\ UNCHANGED <<diskVars, rootVars>>
  <2>1. \A q : Head(todo) # Op("Parent", q)
    BY <1>1 DEF Op
  <2>2. Head(todo).op \notin Closing \cup {"Return", "Link", "Target", "Create", "Truncate"}
    BY <1>1 DEF Closing
  <2>. QED  BY <1>1, <1>3, <2>1, <2>2, NoOps, PassKeeps
<1>4. CASE /\ IF SpotNode = Nothing THEN UNCHANGED fs ELSE Remove(Spot)
           /\ ClearState(Path)
           /\ handle' = IF SpotNode.type = "Directory" THEN HandleWithout(Path) ELSE handle
           /\ Then(<<>>)
           /\ UNCHANGED <<data, symlinks, buffered>>
  <2>1. TypeInv /\ DiskInv
    BY DEF Inv
  <2>2. Head(todo).op \in Settled \ {"Enqueue", "Parent", "Link", "Create", "Truncate"}
    BY <1>1 DEF Settled
  <2>3. Path \in Paths \ {<<>>}
    BY <1>1, <2>2, Here
  <2>4. DiskInv' /\ NoNewOld /\ NoNewLinks
    <3>1. CASE SpotNode = Nothing
      BY <1>4, <2>1, <3>1, SameGentle
    <3>2. CASE SpotNode # Nothing
      <4>1. Spot # <<>>
        BY <3>2 DEF SpotNode, Nowhere
      <4>. QED  BY <1>4, <2>1, <3>2, <4>1, RemoveGentle
    <3>. QED  BY <3>1, <3>2
  <2>5. /\ \A q : q # Path => StateOf(q)' = StateOf(q)
        /\ DOMAIN entries' = DOMAIN entries \ {Path}
        /\ \A q \in DOMAIN entries' : q \in DOMAIN entries /\ entries'[q] = entries[q]
    BY <1>4, <2>3, ClearStateIs
  <2>6. handle' \in HandleType
    BY <1>4, <2>1, HandleWithoutType DEF TypeInv
  <2>7. 0 \in DOMAIN data' /\ symlinks' \in Seq(LinkType)
    BY <1>4, <2>1 DEF TypeInv
  <2>. QED  BY <1>1, <1>4, <2>2, <2>4, <2>5, <2>6, <2>7, DoneKeeps
<1>. QED  BY <1>2, <1>3, <1>4 DEF Replace

LEMMA HardLinkKeeps ==
  ASSUME Inv, HardLink, UNCHANGED <<members, task, policy, cancelled>>
  PROVE  Inv'
<1>1. todo # <<>> /\ Head(todo).op = "Link"
  BY DEF HardLink, Doing
<1>2. CASE Fails("Filesystem")
  BY <1>1, <1>2, NoneDone DEF Closing
<1>3. CASE ~Fails("Filesystem")
  <2>. DEFINE source == Location(Member.target, NoHandle)
              spot   == Location(Path, NoHandle)
  <2>1. /\ Nowhere \notin {source, spot}
        /\ NodeAt(source).type = "File" /\ NodeAt(spot) = Nothing
        /\ Put(spot, File(NodeAt(source).inode, Current))
        /\ SetState(Path, Plain("File"))
        /\ Then(<<>>)
        /\ UNCHANGED <<data, symlinks, handle, buffered>>
    BY <1>3 DEF HardLink
  <2>2. TypeInv /\ DiskInv /\ TaskInv /\ RowInv /\ WriteInv /\ LinkInv /\ AllowedInv /\ OwnInv
    BY DEF Inv
  <2>3. Head(todo).op \in Settled \ {"Enqueue", "Parent", "Create", "Truncate"}
    BY <1>1 DEF Settled
  <2>4. Path \in Paths \ {<<>>} /\ Member \in MemberType /\ \A q \in Prefixes(Path) : NoLink(q)
    BY <1>1, <2>3, Here
  <2>5. spot = OnDisk(Path) /\ spot # <<>>
    <3>1. spot \in {OnDisk(Path), Nowhere}
      BY <2>4, NoHandleType, LocationIs
    <3>. QED  BY <2>1, <3>1 DEF Nowhere
  <2>6. /\ Justified(Head(todo), {}) /\ NoLinks /\ task.files = <<>> /\ task.stage = "start"
        /\ phase \in {"running", "dropped"}
        /\ phase = "running" => result = "Pending" /\ task.error = "None"
    BY <1>1, <2>3, Now DEF Closing
  <2>7. buffered = <<>> /\ Linkable(Member)
    BY <1>1, <2>6 DEF Justified, Emptied, Sourced
  <2>. DEFINE node == File(NodeAt(source).inode, Current)
  <2>8. node.type = "File" /\ node.inode = NodeAt(source).inode
    BY DEF File
  <2>. HIDE DEF node
  <2>9. /\ DOMAIN entries' = DOMAIN entries \cup {Path} /\ entries'[Path].kind = "File"
        /\ \A q \in DOMAIN entries' : q # Path => q \in DOMAIN entries /\ entries'[q] = entries[q]
        /\ \A q : q # Path => StateOf(q)' = StateOf(q)
    <3>. HIDE DEF source, spot
    <3>1. PICK state : state = Plain("File")
      OBVIOUS
    <3>2. SetState(Path, state) /\ state.kind = "File" /\ Path # <<>>
      BY <2>1, <2>4, <3>1 DEF Plain
    <3>3. /\ \A q : StateOf(q)' = IF q = Path THEN state ELSE StateOf(q)
          /\ DOMAIN entries' = DOMAIN entries \cup {Path} /\ entries'[Path] = state
          /\ \A q \in DOMAIN entries' : q # Path => q \in DOMAIN entries /\ entries'[q] = entries[q]
      BY <3>2, SetStateIs
    <3>. QED  BY <3>2, <3>3
  <2>10. CASE phase = "running"
    <3>1. /\ Member.target \in Paths \ {<<>>} /\ Member.target \in DOMAIN entries
          /\ entries[Member.target].kind = "File"
      BY <2>2, <2>4, <2>7 DEF Linkable, StateOf, Plain, MemberType, Paths, TypeInv
    <3>2. ~Old(Member.target)
      <4>1. Queued = {}
        BY <2>6, <2>7, NoOps DEF Queued
      <4>. QED  BY <2>2, <2>6, <2>10, <3>1, <4>1 DEF OwnInv
    <3>3. source = OnDisk(Member.target)
      <4>1. \A q \in Prefixes(Member.target) : NoLink(q)
        BY <2>6, <3>1 DEF NoLinks
      <4>2. source \in {OnDisk(Member.target), Nowhere}
        BY <3>1, <4>1, NoHandleType, LocationIs
      <4>. QED  BY <2>1, <4>2
    <3>4. node.inode # 0
      BY <2>1, <2>8, <3>2, <3>3 DEF Old
    <3>. HIDE DEF source, spot
    <3>5. Put(spot, node)
      BY <2>1 DEF node
    <3>6. DiskInv' /\ NoNewOld /\ NoNewLinks
      BY <2>2, <2>5, <2>8, <3>4, <3>5, PutGentle
    <3>7. \A p : p = Path => ~Old(p)'
      <4>1. \A q : NodeAt(q)' = IF q = spot THEN node ELSE NodeAt(q)
        BY <2>5, <3>5, PutNode
      <4>. QED  BY <2>5, <2>8, <3>4, <4>1 DEF Old
    <3>8. 0 \in DOMAIN data' /\ symlinks' \in Seq(LinkType) /\ handle' \in HandleType
      BY <2>1, <2>2 DEF TypeInv
    <3>9. "File" \in Kinds \ DirectoryKinds
      BY DEF Kinds, DirectoryKinds
    <3>. QED  BY <1>1, <2>1, <2>3, <2>9, <3>6, <3>7, <3>8, <3>9, DoneKeeps
  <2>11. CASE phase = "dropped"
    <3>. HIDE DEF source, spot
    <3>1. todo' = <<>> /\ UNCHANGED <<phase, result>>
      BY <2>1, <2>11 DEF Then
    <3>2. Elems(todo') = {} /\ Left(todo') = {} /\ todo' \in Seq(OpType) /\ 2..Len(todo') = {}
      BY <3>1, NoOps
    <3>3. DiskInv'
      BY <2>1, <2>2, <2>5 DEF DiskInv, Put, File
    <3>4. TypeInv'
      BY <2>1, <2>2, <2>4, <2>9, <3>1, <3>2 DEF TypeInv, Kinds
    <3>5. RowInv' /\ WriteInv' /\ OwnInv'
      BY <2>11, <3>1, <3>2 DEF RowInv, WriteInv, Doing, OwnInv
    <3>6. LinkInv'
      BY <2>1, <2>6, <2>7, <2>11, <3>1, <3>2 DEF LinkInv, Linking
    <3>7. AllowedInv'
      BY <2>1, <2>2 DEF AllowedInv, Queued
    <3>8. TaskInv'
      BY <2>2, <2>6, <2>11, <3>1 DEF TaskInv
    <3>. QED  BY <3>3, <3>4, <3>5, <3>6, <3>7, <3>8 DEF Inv
  <2>. QED  BY <2>6, <2>10, <2>11
<1>. QED  BY <1>2, <1>3

(* More operations on the path under way, whose parents are there.         *)
LEMMA RowHere ==
  ASSUME Inv, todo # <<>>, Head(todo).op \in Settled \ {"Parent"}, NEW ops \in Seq(OpType),
         \A e \in Elems(ops) : /\ e.path = Path
                               /\ e.op \in {"Flush", "Replace", "Enqueue", "Directory", "Create"}
                               /\ e.op \in {"Enqueue", "Create"} => Member.kind = "File"
  PROVE  /\ \A l \in Left(ops) : Justified(l.do, l.after)
         /\ \A e \in Elems(ops) : e.op \notin {"Validate", "MakeLink"}
         /\ Leads(ops) /\ (ops # <<>> => Head(ops).op # "Write")
<1>1. /\ Path = Member.path /\ Path # <<>> /\ Current > 0
      /\ \A q \in Prefixes(Path) : IsDirectory(q)
  BY Here
<1>2. \A k \in 1..Len(ops) : ops[k] \in Elems(ops)
  BY DEF Elems
<1>3. ASSUME NEW l \in Left(ops) PROVE Justified(l.do, l.after)
  <2>1. PICK k \in 1..Len(ops) : l.do = ops[k] /\ l.after = { ops[j] : j \in 1..(k - 1) }
    BY LeftOf
  <2>2. l.do \in Elems(ops)
    BY <1>2, <2>1
  <2>3. l.after \subseteq Elems(ops)
    <3>1. \A j \in 1..(k - 1) : j \in 1..Len(ops)
      BY <2>1
    <3>. QED  BY <1>2, <2>1, <3>1
  <2>4. /\ l.do.path = Path /\ l.do.op \in {"Flush", "Replace", "Enqueue", "Directory", "Create"}
        /\ l.do.op \in {"Enqueue", "Create"} => Member.kind = "File"
        /\ \A e \in l.after : e.op # "Validate"
    BY <2>2, <2>3
  <2>. QED  BY <1>1, <2>4 DEF Justified, Placed, Orderly, Rooted, Emptied, Sourced, Truncable
<1>4. Leads(ops)
  <2>1. \A k \in 2..Len(ops) : k \in 1..Len(ops)
    OBVIOUS
  <2>. QED  BY <1>2, <2>1 DEF Leads
<1>5. ops # <<>> => Head(ops).op # "Write"
  BY TailElems
<1>. QED  BY <1>3, <1>4, <1>5

LEMMA CreateKeeps ==
  ASSUME Inv, Create, UNCHANGED <<members, task, policy, cancelled>>
  PROVE  Inv'
<1>1. todo # <<>> /\ Head(todo).op = "Create"
  BY DEF Create, Doing
<1>2. CASE Fails("Filesystem")
  BY <1>1, <1>2, NoneDone DEF Closing
<1>3. Head(todo).op \in Settled \ {"Enqueue", "Parent", "Link"}
  BY <1>1 DEF Settled
<1>4. Path \in Paths \ {<<>>} /\ Current \in Nat \ {0} /\ Spot \in {OnDisk(Path), Nowhere}
  BY <1>1, <1>3, Here
<1>5. CASE Then(<< Op("Replace", Path), Op("Create", Path) >>) /\ UNCHANGED <<diskVars, rootVars>>
  <2>1. PICK a \in OpType, b \in OpType : a = Op("Replace", Path) /\ b = Op("Create", Path)
    BY <1>4 DEF Op, OpType, OpNames
  <2>2. a.op = "Replace" /\ a.path = Path /\ b.op = "Create" /\ b.path = Path /\ Then(<<a, b>>)
    BY <1>5, <2>1 DEF Op
  <2>3. <<a, b>> \in Seq(OpType) /\ Elems(<<a, b>>) = {a, b}
    BY DEF Elems
  <2>4. Member.kind = "File"
    BY <1>1, Now DEF Placed, Closing
  <2>5. /\ \A l \in Left(<<a, b>>) : Justified(l.do, l.after)
        /\ \A e \in Elems(<<a, b>>) : e.op \notin {"Validate", "MakeLink"}
        /\ Leads(<<a, b>>) /\ Head(<<a, b>>).op # "Write"
    BY <1>1, <1>3, <2>2, <2>3, <2>4, RowHere
  <2>6. <<a, b>> # <<>> /\ <<a, b>>[Len(<<a, b>>)] = b
    OBVIOUS
  <2>7. \A q : Head(todo) # Op("Parent", q)
    BY <1>1 DEF Op
  <2>8. Head(todo).op \notin Closing \cup {"Return", "Link", "Target"}
    BY <1>1 DEF Closing
  <2>. QED  BY <1>1, <1>5, <2>2, <2>3, <2>5, <2>6, <2>7, <2>8, PassKeeps
<1>6. CASE /\ Spot # Nowhere /\ SpotNode = Nothing
           /\ Put(Spot, File(Current, Current))
           /\ Written(Current, Current, FALSE)
           /\ SetState(Path, Plain("File"))
           /\ Then(<<>>)
           /\ UNCHANGED <<symlinks, handle, buffered>>
  <2>1. TypeInv /\ DiskInv
    BY DEF Inv
  <2>2. Spot = OnDisk(Path) /\ Spot # <<>>
    BY <1>4, <1>6 DEF Nowhere
  <2>. DEFINE node == File(Current, Current)
  <2>3. node.type = "File" /\ node.inode # 0
    BY <1>4 DEF File
  <2>4. Put(Spot, node)
    BY <1>6
  <2>. HIDE DEF node
  <2>5. DiskInv' /\ NoNewOld /\ NoNewLinks
    BY <2>1, <2>2, <2>3, <2>4, PutGentle
  <2>6. \A q : NodeAt(q)' = IF q = OnDisk(Path) THEN node ELSE NodeAt(q)
    BY <2>2, <2>4, PutNode
  <2>7. \A p : p = Path => (NodeAt(OnDisk(p)).type = "File" /\ ~Old(p))'
    BY <2>3, <2>6 DEF Old
  <2>8. /\ DOMAIN entries' = DOMAIN entries \cup {Path} /\ entries'[Path].kind = "File"
        /\ \A q \in DOMAIN entries' : q # Path => q \in DOMAIN entries /\ entries'[q] = entries[q]
        /\ \A q : q # Path => StateOf(q)' = StateOf(q)
    <3>1. PICK state : state = Plain("File")
      OBVIOUS
    <3>2. SetState(Path, state) /\ state.kind = "File" /\ Path # <<>>
      BY <1>4, <1>6, <3>1 DEF Plain
    <3>3. /\ \A q : StateOf(q)' = IF q = Path THEN state ELSE StateOf(q)
          /\ DOMAIN entries' = DOMAIN entries \cup {Path} /\ entries'[Path] = state
          /\ \A q \in DOMAIN entries' : q # Path => q \in DOMAIN entries /\ entries'[q] = entries[q]
      BY <3>2, SetStateIs
    <3>. QED  BY <3>2, <3>3
  <2>9. 0 \in DOMAIN data' /\ symlinks' \in Seq(LinkType) /\ handle' \in HandleType
    BY <1>6, <2>1 DEF TypeInv, Written
  <2>10. "File" \in Kinds \ DirectoryKinds
    BY DEF Kinds, DirectoryKinds
  <2>11. (Doing("Write"))' => Ready'
    BY <1>1, <1>6, <2>2, <2>6, <2>7, ReadyNext
  <2>. QED  BY <1>1, <1>3, <1>6, <2>5, <2>7, <2>8, <2>9, <2>10, <2>11, DoneKeeps
<1>. QED  BY <1>2, <1>5, <1>6 DEF Create

LEMMA EnsureDirectoryKeeps ==
  ASSUME Inv, EnsureDirectory, UNCHANGED <<members, task, policy, cancelled>>
  PROVE  Inv'
<1>1. todo # <<>> /\ Head(todo).op \in {"Parent", "Directory"}
  BY DEF EnsureDirectory, Doing
<1>2. /\ TypeInv /\ DiskInv /\ TaskInv /\ RowInv /\ WriteInv /\ LinkInv /\ AllowedInv /\ OwnInv
  BY DEF Inv
<1>3. Head(todo).op \in Settled \ {"Enqueue", "Link", "Create", "Truncate"}
  BY <1>1 DEF Settled
<1>4. PICK p \in Paths \ {<<>>} : p = Path
  BY <1>1, <1>3, Here
<1>5. /\ Current \in Nat \ {0} /\ Spot \in {OnDisk(p), Nowhere} /\ members \in Seq(Members)
      /\ \A q \in Prefixes(p) : NoLink(q)
      /\ NoLinks /\ task.files = <<>> /\ phase \in {"running", "dropped"}
  BY <1>1, <1>3, <1>4, Here, Now DEF Closing
<1>6. CASE Fails("Filesystem")
  BY <1>1, <1>6, NoneDone DEF Closing
<1>7. CASE FailWith("PathCollision") /\ UNCHANGED <<diskVars, rootVars>>
  BY <1>5, <1>7, FailsKeeps
<1>8. CASE IsDirectory(Path) /\ Then(<<>>) /\ UNCHANGED <<diskVars, rootVars>>
  <2>1. \A q : Head(todo) = Op("Parent", q) => IsDirectory(q)
    BY <1>8 DEF Op, Path
  <2>2. Head(todo).op \notin Closing \cup {"Return", "Link", "Target", "Create", "Truncate"}
    BY <1>1 DEF Closing
  <2>. QED  BY <1>1, <1>8, <2>1, <2>2, NoOps, PassKeeps
<1>9. CASE /\ Head(todo).op = "Directory"
           /\ Then(<< Op("Replace", Path), Op("Directory", Path) >>) /\ UNCHANGED <<diskVars, rootVars>>
  <2>1. PICK a \in OpType, b \in OpType : a = Op("Replace", Path) /\ b = Op("Directory", Path)
    BY <1>4 DEF Op, OpType, OpNames
  <2>2. a.op = "Replace" /\ a.path = Path /\ b.op = "Directory" /\ b.path = Path /\ Then(<<a, b>>)
    BY <1>9, <2>1 DEF Op
  <2>3. <<a, b>> \in Seq(OpType) /\ Elems(<<a, b>>) = {a, b} /\ <<a, b>> # <<>>
    BY DEF Elems
  <2>4. /\ \A l \in Left(<<a, b>>) : Justified(l.do, l.after)
        /\ \A e \in Elems(<<a, b>>) : e.op \notin {"Validate", "MakeLink"}
        /\ Leads(<<a, b>>) /\ Head(<<a, b>>).op # "Write"
    BY <1>1, <1>3, <1>9, <2>2, <2>3, RowHere
  <2>5. \A q : Head(todo) # Op("Parent", q)
    BY <1>9 DEF Op
  <2>6. Head(todo).op \notin Closing \cup {"Return", "Link", "Target", "Create", "Truncate"}
    BY <1>1 DEF Closing
  <2>. QED  BY <1>1, <1>9, <2>2, <2>3, <2>4, <2>5, <2>6, PassKeeps
<1>10. ASSUME NEW by \in Nat, NEW kind \in DirectoryKinds, Spot # Nowhere, Follow(Spot) = OnDisk(p),
              handle' = [entry |-> Path, at |-> Follow(Spot), by |-> by], SetState(Path, Plain(kind)),
              Then(<<>>), UNCHANGED <<data, symlinks, buffered>>,
              DiskInv', NoNewOld, NoNewLinks, NoLink(p)'
       PROVE  Inv'
  <2>1. handle' \in HandleType
    BY <1>4, <1>10 DEF HandleType
  <2>2. PICK state : state = Plain(kind)
    OBVIOUS
  <2>3. SetState(Path, state) /\ state.kind = kind /\ Path # <<>>
    BY <1>4, <1>10, <2>2 DEF Plain
  <2>4. /\ \A q : StateOf(q)' = IF q = Path THEN state ELSE StateOf(q)
        /\ DOMAIN entries' = DOMAIN entries \cup {Path} /\ entries'[Path] = state
        /\ \A q \in DOMAIN entries' : q # Path => q \in DOMAIN entries /\ entries'[q] = entries[q]
    BY <2>3, SetStateIs
  <2>5. IsDirectory(p)'
    BY <1>4, <2>3, <2>4 DEF IsDirectory, DirectoryKinds
  <2>6. kind \in Kinds /\ kind # "File"
    BY DEF Kinds, DirectoryKinds
  <2>7. 0 \in DOMAIN data' /\ symlinks' \in Seq(LinkType)
    BY <1>2, <1>10 DEF TypeInv
  <2>. QED  BY <1>1, <1>3, <1>4, <1>10, <2>1, <2>3, <2>4, <2>5, <2>6, <2>7, DoneKeeps
<1>11. ASSUME NoLink(p), Spot # Nowhere PROVE Spot = OnDisk(p) /\ Follow(Spot) = OnDisk(p)
  <2>1. LinksOn(OnDisk(p)) = {}
    BY <1>5, <1>11, NoLinksOn
  <2>. QED  BY <1>5, <1>11, <2>1, FollowPlain
<1>12. CASE /\ Spot # Nowhere /\ SpotNode = Nothing /\ Put(Spot, Directory(Current))
            /\ \/ /\ handle' = [entry |-> Path, at |-> Follow(Spot), by |-> Current]
                  /\ SetState(Path, Plain("CreatedDirectory")) \/ SetState(Path, Plain("AmbientDirectory"))
                  /\ Then(<<>>)
                  /\ UNCHANGED <<data, symlinks, buffered>>
               \/ FailWith("Filesystem") /\ UNCHANGED <<data, rootVars>>
  <2>1. Spot = OnDisk(p) /\ NodeAt(OnDisk(p)) = Nothing
    BY <1>5, <1>12 DEF SpotNode
  <2>2. Follow(Spot) = OnDisk(p) /\ Spot # <<>>
    BY <1>11, <1>12, <2>1 DEF NoLink, Nothing, Nowhere
  <2>3. PICK node : node = Directory(Current)
    OBVIOUS
  <2>4. Put(Spot, node) /\ node.type = "Directory" /\ node.by \in Nat
    BY <1>5, <1>12, <2>3 DEF Directory
  <2>5. DiskInv' /\ NoNewOld /\ NoNewLinks
    BY <1>2, <2>2, <2>4, PutGentle
  <2>6. NoLink(p)'
    BY <2>1, <2>2, <2>4, PutNode DEF NoLink
  <2>7. CASE /\ handle' = [entry |-> Path, at |-> Follow(Spot), by |-> Current]
             /\ SetState(Path, Plain("CreatedDirectory")) \/ SetState(Path, Plain("AmbientDirectory"))
             /\ Then(<<>>)
             /\ UNCHANGED <<data, symlinks, buffered>>
    BY <1>5, <1>10, <1>12, <2>2, <2>5, <2>6, <2>7 DEF DirectoryKinds
  <2>8. CASE FailWith("Filesystem") /\ UNCHANGED <<data, rootVars>>
    <3>1. /\ todo' \in Seq(OpType) /\ RowInv' /\ TaskInv' /\ WriteInv'
          /\ phase' = phase /\ result' # "Pending"
          /\ \A e \in Elems(todo') : e.op # "MakeLink"
      BY <1>2, <1>5, <2>8, FailKeeps
    <3>2. TypeInv'
      BY <1>2, <2>8, <3>1 DEF TypeInv, rootVars
    <3>3. NoLinks' /\ AllowedInv' /\ OwnInv'
      BY <1>2, <1>5, <2>5, <2>8, <3>1, <3>2, WorldKept DEF TypeInv, rootVars
    <3>4. LinkInv'
      BY <3>1, <3>3 DEF LinkInv
    <3>. QED  BY <2>5, <3>1, <3>2, <3>3, <3>4 DEF Inv
  <2>. QED  BY <1>12, <2>7, <2>8
<1>13. CASE /\ SpotNode # Nothing /\ IsRealDirectory(Spot)
            /\ handle' = [entry |-> Path, at |-> Follow(Spot), by |-> NodeAt(Follow(Spot)).by]
            /\ SetState(Path, Plain("AmbientDirectory"))
            /\ Then(<<>>)
            /\ UNCHANGED <<data, symlinks, buffered>>
            /\ UNCHANGED fs
  <2>1. Spot # Nowhere /\ Spot = OnDisk(p) /\ NodeAt(OnDisk(p)).type = "Directory"
    BY <1>5, <1>13 DEF SpotNode, IsRealDirectory
  <2>2. Follow(Spot) = OnDisk(p) /\ NoLink(p)
    BY <1>11, <2>1 DEF NoLink
  <2>3. NodeAt(Follow(Spot)).by \in Nat
    BY <1>2, <2>1, <2>2, NodeThere
  <2>4. DiskInv' /\ NoNewOld /\ NoNewLinks
    BY <1>2, <1>13, SameGentle
  <2>5. NoLink(p)'
    BY <2>2, <2>4 DEF NoNewLinks
  <2>. QED  BY <1>10, <1>13, <2>1, <2>2, <2>3, <2>4, <2>5 DEF DirectoryKinds
<1>. QED  BY <1>1, <1>6, <1>7, <1>8, <1>9, <1>12, <1>13 DEF EnsureDirectory

LEMMA ElemsAppend ==
  ASSUME NEW T, NEW s \in Seq(T), NEW e \in T
  PROVE  Elems(Append(s, e)) = Elems(s) \cup {e}
<1>1. /\ Len(s) \in Nat /\ Len(Append(s, e)) = Len(s) + 1
      /\ \A k \in 1..(Len(s) + 1) : Append(s, e)[k] = IF k = Len(s) + 1 THEN e ELSE s[k]
  BY AppendProperties
<1>2. 1..(Len(s) + 1) = 1..Len(s) \cup {Len(s) + 1} /\ ~(Len(s) + 1 \in 1..Len(s))
  BY <1>1
<1>. QED  BY <1>1, <1>2 DEF Elems

LEMMA EnqueueKeeps ==
  ASSUME Inv, Enqueue, UNCHANGED <<members, task, policy, cancelled>>
  PROVE  Inv'
<1>1. todo # <<>> /\ Head(todo).op = "Enqueue" /\ UNCHANGED diskVars
  BY DEF Enqueue, Doing
<1>2. TypeInv /\ DiskInv /\ TaskInv /\ RowInv /\ WriteInv /\ LinkInv /\ AllowedInv /\ OwnInv
  BY DEF Inv
<1>3. Head(todo).op \in Settled \ {"Parent"} /\ Head(todo).op \notin Closing \cup {"Return", "Link", "Target", "Create", "Truncate"}
  BY <1>1 DEF Settled, Closing
<1>4. PICK p \in Paths \ {<<>>} : p = Path
  BY <1>1, <1>3, Here
<1>5. /\ Current \in Nat \ {0} /\ members \in Seq(Members) /\ Member \in MemberType /\ p = Member.path
      /\ Member.path \in Paths \ {<<>>} /\ \A q \in Prefixes(p) : NoLink(q)
      /\ NoLinks /\ task.files = <<>> /\ task.stage = "start" /\ Member.kind = "File"
  BY <1>1, <1>3, <1>4, Here, Now DEF Closing, Placed
<1>6. phase = "running" /\ result = "Pending" /\ task.error = "None"
  BY <1>1, <1>3, OnlyRunning, Now DEF BlockingOps
<1>7. PICK a \in OpType, b \in OpType, c \in OpType :
        a = Op("Flush", Path) /\ b = Op("Replace", Path) /\ c = Op("Enqueue", Path)
  BY <1>4 DEF Op, OpType, OpNames
<1>8. /\ a.op = "Flush" /\ a.path = Path /\ b.op = "Replace" /\ b.path = Path
      /\ c.op = "Enqueue" /\ c.path = Path
  BY <1>7 DEF Op
<1>9. \A q : Head(todo) # Op("Parent", q)
  BY <1>1 DEF Op
<1>10. CASE Then(<< Op("Flush", Path), Op("Replace", Path), Op("Enqueue", Path) >>) /\ UNCHANGED rootVars
  <2>1. Then(<<a, b, c>>) /\ <<a, b, c>> \in Seq(OpType) /\ Elems(<<a, b, c>>) = {a, b, c} /\ <<a, b, c>> # <<>>
    BY <1>7, <1>10 DEF Elems
  <2>2. /\ \A l \in Left(<<a, b, c>>) : Justified(l.do, l.after)
        /\ \A e \in Elems(<<a, b, c>>) : e.op \notin {"Validate", "MakeLink"}
        /\ Leads(<<a, b, c>>) /\ Head(<<a, b, c>>).op # "Write"
    BY <1>1, <1>3, <1>5, <1>8, <2>1, RowHere
  <2>. QED  BY <1>1, <1>3, <1>9, <1>10, <2>1, <2>2, PassKeeps
<1>11. CASE Then(<< Op("Flush", Path), Op("Enqueue", Path) >>) /\ UNCHANGED rootVars
  <2>1. Then(<<a, c>>) /\ <<a, c>> \in Seq(OpType) /\ Elems(<<a, c>>) = {a, c} /\ <<a, c>> # <<>>
    BY <1>7, <1>11 DEF Elems
  <2>2. /\ \A l \in Left(<<a, c>>) : Justified(l.do, l.after)
        /\ \A e \in Elems(<<a, c>>) : e.op \notin {"Validate", "MakeLink"}
        /\ Leads(<<a, c>>) /\ Head(<<a, c>>).op # "Write"
    BY <1>1, <1>3, <1>5, <1>8, <2>1, RowHere
  <2>. QED  BY <1>1, <1>3, <1>9, <1>11, <2>1, <2>2, PassKeeps
<1>12. ASSUME NEW file, NEW ops \in {<<>>, <<a>>},
              file = [path |-> Path, size |-> Member.size, by |-> Current,
                      handle |-> IF handle.entry = Parent(Path) THEN handle ELSE NoHandle,
                      replacement |-> Replacement(Path)],
              buffered' = Append(buffered, file), SetState(Path, Plain("File")),
              handle' = HandleWithout(Path), Then(ops), UNCHANGED symlinks
       PROVE  Inv'
  <2>1. file \in FileType /\ file.path = p
    <3>1. (IF handle.entry = Parent(Path) THEN handle ELSE NoHandle) \in HandleType
      BY <1>2, NoHandleType DEF TypeInv
    <3>2. Replacement(Path) \in {"Disallowed", "ExpectedFile", "Allowed"}
      BY DEF Replacement
    <3>3. Member.size \in Nat
      BY <1>5 DEF MemberType
    <3>. QED  BY <1>4, <1>5, <1>12, <3>1, <3>2, <3>3 DEF FileType
  <2>2. ~policy.allow_overwrites => file.replacement = "Disallowed"
    BY <1>12 DEF Replacement, CanReplace
  <2>3. buffered \in Seq(FileType) /\ buffered' \in Seq(FileType) /\ buffered' # <<>>
        /\ Elems(buffered') = Elems(buffered) \cup {file}
    BY <1>2, <1>12, <2>1, ElemsAppend DEF TypeInv
  <2>4. Queued' = Queued \cup {file}
    BY <2>3 DEF Queued
  <2>5. PICK state : state = Plain("File")
    OBVIOUS
  <2>6. SetState(p, state) /\ state.kind = "File" /\ p # <<>>
    BY <1>4, <1>12, <2>5 DEF Plain
  <2>7. /\ \A q : StateOf(q)' = IF q = p THEN state ELSE StateOf(q)
        /\ DOMAIN entries' = DOMAIN entries \cup {p} /\ entries'[p] = state
        /\ \A q \in DOMAIN entries' : q # p => q \in DOMAIN entries /\ entries'[q] = entries[q]
    BY <2>6, SetStateIs
  <2>8. Current' = Current /\ Member' = Member
    BY DEF Current, Member
  <2>9. \A q : q # p /\ IsDirectory(q) => IsDirectory(q)'
    BY <2>7 DEF IsDirectory
  <2>10. DiskInv' /\ NoNewOld /\ NoNewLinks
    BY <1>1, <1>2, SameGentle DEF diskVars
  <2>11. Elems(ops) \subseteq {a} /\ ops \in Seq(OpType)
    <3>1. CASE ops = <<>>
      BY <3>1, NoOps
    <3>2. CASE ops = <<a>>
      <4>1. Elems(<<a>>) = {a} /\ <<a>> \in Seq(OpType)
        BY ElemsOne
      <4>. QED  BY <3>2, <4>1
    <3>. QED  BY <3>1, <3>2
  <2>12. Keeps(Elems(ops))
    <3>1. \A q \in Prefixes(Member.path) : IsDirectory(q) => IsDirectory(q)'
      BY <1>5, <2>9, PathParts
    <3>2. Linkable(Member) => Linkable(Member)'
      BY <1>5, <2>7, <2>8 DEF Linkable
    <3>3. ~Old(Member.path) => ~Old(Member.path)'
      BY <2>8, <2>10 DEF NoNewOld, Old
    <3>4. \A e \in Elems(ops) : e.op = "Flush"
      BY <1>8, <2>11
    <3>. QED  BY <1>1, <1>3, <1>9, <3>1, <3>2, <3>3, <3>4 DEF Keeps, Closing
  <2>13. ASSUME NEW l \in Left(ops) PROVE Justified(l.do, l.after)'
    <3>1. ops = <<a>>
      BY <2>13, NoOps
    <3>2. l.do = a /\ l.after = {}
      BY <3>1, LeftOne
    <3>. QED  BY <1>8, <3>2
              DEF Justified, Placed, Orderly, Rooted, Emptied, Sourced, Truncable, MemberOps, Settled
  <2>14. Leads(ops) /\ (ops # <<>> => Head(ops).op # "Write") /\ \A e \in Elems(ops) : e.op # "MakeLink"
    BY <1>8, <2>11 DEF Leads
  <2>15. /\ todo' \in Seq(OpType) /\ RowInv' /\ TaskInv' /\ WriteInv' /\ (NoLinks' => LinkInv')
         /\ UNCHANGED <<phase, result>>
    BY <1>1, <1>2, <1>3, <1>12, <2>11, <2>12, <2>13, <2>14, ThenKeeps
  <2>16. TypeInv'
    <3>1. handle' \in HandleType
      BY <1>2, <1>12, HandleWithoutType
    <3>2. DOMAIN entries' \subseteq Paths \ {<<>>} /\ \A q \in DOMAIN entries' : entries'[q].kind \in Kinds
      BY <1>2, <2>6, <2>7 DEF TypeInv, Kinds
    <3>. QED  BY <1>1, <1>2, <1>12, <2>3, <2>15, <3>1, <3>2 DEF TypeInv, diskVars
  <2>17. NoLinks'
    <3>1. \A q : NoLink(q) => NoLink(q)'
      BY <2>10 DEF NoNewLinks
    <3>2. ASSUME NEW q \in DOMAIN entries' PROVE (\A r \in Prefixes(q) : NoLink(r)') /\ (IsDirectory(q)' => NoLink(q)')
      <4>1. CASE q = p
        <5>1. ~IsDirectory(q)'
          BY <2>6, <2>7, <4>1 DEF IsDirectory
        <5>. QED  BY <1>5, <3>1, <4>1, <5>1
      <4>2. CASE q # p
        <5>1. q \in DOMAIN entries /\ (IsDirectory(q)' => IsDirectory(q))
          BY <2>7, <4>2 DEF IsDirectory
        <5>. QED  BY <1>5, <3>1, <5>1 DEF NoLinks
      <4>. QED  BY <4>1, <4>2
    <3>3. ASSUME NEW f \in Queued', NEW r \in Prefixes(f.path) PROVE NoLink(r)'
      <4>1. f \in Queued \/ f = file
        BY <2>4
      <4>. QED  BY <1>5, <2>1, <3>1, <4>1 DEF NoLinks
    <3>. QED  BY <3>2, <3>3 DEF NoLinks
  <2>18. AllowedInv'
    BY <1>2, <2>2, <2>4 DEF AllowedInv
  <2>19. OwnInv'
    <3>1. \A q : ~Old(q) => ~Old(q)'
      BY <2>10 DEF NoNewOld
    <3>2. ASSUME NEW q \in DOMAIN entries', entries'[q].kind = "File"
          PROVE  ~Old(q)' \/ \E f \in Queued' : f.path = q
      <4>1. CASE q = p
        BY <2>1, <2>4, <4>1
      <4>2. CASE q # p
        <5>1. ~Old(q) \/ \E f \in Queued : f.path = q
          BY <1>2, <1>6, <2>7, <3>2, <4>2 DEF OwnInv
        <5>. QED  BY <2>4, <3>1, <5>1
      <4>. QED  BY <4>1, <4>2
    <3>. QED  BY <1>5, <3>2 DEF OwnInv
  <2>. QED  BY <2>10, <2>15, <2>16, <2>17, <2>18, <2>19 DEF Inv
<1>. DEFINE file == [path |-> Path, size |-> Member.size, by |-> Current,
                     handle |-> IF handle.entry = Parent(Path) THEN handle ELSE NoHandle,
                     replacement |-> Replacement(Path)]
<1>13. CASE /\ buffered' = Append(buffered, file)
            /\ SetState(Path, Plain("File"))
            /\ handle' = HandleWithout(Path)
            /\ Then(IF IsFull(Append(buffered, file)) THEN << Op("Flush", Path) >> ELSE <<>>)
            /\ UNCHANGED symlinks
  <2>1. PICK new : new = file
    OBVIOUS
  <2>2. PICK ops \in {<<>>, <<a>>} : Then(ops)
    <3>1. CASE IsFull(Append(buffered, file))
      BY <1>7, <1>13, <3>1
    <3>2. CASE ~IsFull(Append(buffered, file))
      BY <1>13, <3>2
    <3>. QED  BY <3>1, <3>2
  <2>. QED  BY <1>12, <1>13, <2>1, <2>2
<1>. QED  BY <1>10, <1>11, <1>13, Zenon DEF Enqueue

LEMMA MakeLinkKeeps ==
  ASSUME Inv, MakeLink, UNCHANGED <<members, task, policy, cancelled>>
  PROVE  Inv'
<1>1. todo # <<>> /\ Head(todo).op = "MakeLink"
  BY DEF MakeLink, Doing
<1>2. TypeInv /\ DiskInv /\ TaskInv /\ RowInv /\ WriteInv /\ LinkInv /\ AllowedInv /\ OwnInv
  BY DEF Inv
<1>3. todo \in Seq(OpType) /\ Head(todo) \in OpType /\ Head(todo) \in Elems(todo) /\ members \in Seq(Members)
  BY <1>1, <1>2, TailElems DEF TypeInv
<1>4. Linking /\ task.files = <<>> /\ task.stage = "start" /\ buffered = <<>>
  BY <1>1, <1>2, <1>3 DEF LinkInv, Linking, TaskInv
<1>5. phase \in {"running", "dropped"} /\ ~Doing("Await")
  BY <1>1, <1>2 DEF TaskInv, TypeInv, Doing
<1>6. CASE Fails("Filesystem") \/ Fails("PathCollision")
  BY <1>3, <1>4, <1>5, <1>6, FailsKeeps DEF Fails
<1>7. ASSUME NEW ops \in { <<>> } \cup { <<o>> : o \in OpType }, ops # <<>> => ops = <<Op("MakeLink", Path)>>,
             Then(ops), UNCHANGED <<data, rootVars>>, DiskInv', NoNewOld
      PROVE  Inv'
  <2>1. UNCHANGED <<entries, symlinks, handle, buffered>>
    BY <1>7 DEF rootVars
  <2>2. Current' = Current /\ Member' = Member /\ \A q : StateOf(q)' = StateOf(q)
    BY <2>1, SameState DEF Current, Member
  <2>3. ASSUME ops # <<>>
        PROVE  /\ Head(ops).op = "MakeLink" /\ Elems(ops) = {Head(ops)}
               /\ \A l \in Left(ops) : l.do = Head(ops) /\ l.after = {}
    <3>1. PICK o : o = Op("MakeLink", Path) /\ ops = <<o>> /\ o.op = "MakeLink"
      BY <1>7, <2>3 DEF Op
    <3>2. Head(<<o>>) = o
      OBVIOUS
    <3>. QED  BY <3>1, <3>2, ElemsOne, LeftOne
  <2>4. \A e \in Elems(ops) : e.op = "MakeLink"
    BY <2>3, NoOps
  <2>5. Keeps(Elems(ops))
    <3>1. \A q : Head(todo) # Op("Parent", q)
      BY <1>1 DEF Op
    <3>2. ~Old(Member.path) => ~Old(Member.path)'
      BY <1>7, <2>2 DEF NoNewOld, Old
    <3>. QED  BY <1>1, <2>1, <2>2, <2>4, <3>1, <3>2 DEF Keeps, Closing, IsDirectory, Linkable
  <2>6. ASSUME NEW l \in Left(ops) PROVE Justified(l.do, l.after)'
    <3>1. l.do.op = "MakeLink" /\ l.after = {}
      BY <2>3, <2>6, NoOps
    <3>. QED  BY <1>4, <2>1, <3>1
              DEF Justified, Placed, Orderly, Rooted, Emptied, Sourced, Truncable, MemberOps, Settled
  <2>7. /\ todo' \in Seq(OpType) /\ RowInv' /\ WriteInv' /\ UNCHANGED <<phase, result>>
        /\ Linking /\ buffered' = <<>> /\ task'.files = <<>> => Linking'
        /\ phase = "running" /\ result # "Pending" =>
             /\ \A e \in Elems(todo') : e.op \in {"Flush", "Await", "Return"}
             /\ \E e \in Elems(todo') : e.op = "Return"
        /\ phase = "dropped" => todo' = <<>>
    <3>1. Head(todo).op \in Closing
      BY <1>1 DEF Closing
    <3>2. \A l \in Left(ops) : Justified(l.do, l.after)'
      BY <2>6
    <3>3. ops # <<>> => Head(ops).op = "MakeLink"
      BY <2>3
    <3>. QED  BY <1>1, <1>7, <2>5, <3>1, <3>2, <3>3, ClosingThen
  <2>8. Linking' /\ LinkInv'
    BY <1>4, <2>1, <2>7 DEF LinkInv
  <2>9. TypeInv'
    BY <1>2, <1>7, <2>1, <2>7 DEF TypeInv
  <2>10. AllowedInv' /\ OwnInv'
    BY <1>2, <1>7, <2>1, <2>7, <2>9, WorldKept DEF TypeInv
  <2>11. TaskInv'
    BY <1>2, <1>4, <1>5, <2>7 DEF TaskInv
  <2>. QED  BY <1>7, <2>7, <2>8, <2>9, <2>10, <2>11 DEF Inv
<1>8. CASE Then(<<>>) /\ UNCHANGED <<diskVars, rootVars>>
  <2>1. DiskInv' /\ NoNewOld
    BY <1>2, <1>8, SameGentle DEF diskVars
  <2>. QED  BY <1>7, <1>8, <2>1 DEF diskVars
<1>9. ASSUME NEW to, NEW by, Spot # Nowhere, Put(Spot, Link(to, by)), Then(<<>>), UNCHANGED <<data, rootVars>>
       PROVE  Inv'
  <2>1. PICK node : node = Link(to, by)
    OBVIOUS
  <2>2. Put(Spot, node) /\ node.type = "Link" /\ Spot # <<>>
    BY <1>9, <2>1 DEF Link, Nowhere
  <2>3. DiskInv' /\ NoNewOld
    BY <1>2, <2>2, PutGentle
  <2>. QED  BY <1>7, <1>9, <2>3
<1>10. CASE SpotNode # Nothing /\ Remove(Spot) /\ Then(<< Op("MakeLink", Path) >>) /\ UNCHANGED <<data, rootVars>>
  <2>1. Spot # <<>>
    BY <1>10 DEF SpotNode, Nowhere
  <2>2. DiskInv' /\ NoNewOld
    BY <1>2, <1>10, <2>1, RemoveGentle
  <2>3. Op("MakeLink", Path) \in OpType
    BY <1>3 DEF Op, OpType, OpNames, Path
  <2>. QED  BY <1>7, <1>10, <2>2, <2>3
<1>. QED  BY <1>6, <1>8, <1>9, <1>10 DEF MakeLink

-----------------------------------------------------------------------------
(* The steps of the task that writes a batch.                              *)

TaskType ==
  [files : Seq(FileType), stage : {"start", "checked", "removed", "created"},
   error : {"None", "Filesystem", "PathCollision"}]

(* While a task has files, the call awaits it or is gone.                  *)
LEMMA Writing ==
  ASSUME Inv, task.files # <<>>
  PROVE  /\ task \in TaskType /\ Batched \in FileType /\ Batched \in Queued
         /\ Tail(task.files) \in Seq(FileType)
         /\ Elems(task.files) = {Batched} \cup Elems(Tail(task.files))
         /\ NoLinks /\ ~Linking
         /\ (phase = "running" /\ Doing("Await")) \/ (phase = "dropped" /\ todo = <<>>)
         /\ BatchedSpot \in {OnDisk(Batched.path), Nowhere}
         /\ \A e \in Elems(todo) : e.op # "MakeLink"
<1>1. TypeInv /\ TaskInv /\ LinkInv
  BY DEF Inv
<1>2. task \in TaskType /\ task.files \in Seq(FileType)
  BY <1>1 DEF TypeInv, TaskType
<1>3. /\ Batched \in FileType /\ Batched \in Elems(task.files) /\ Tail(task.files) \in Seq(FileType)
      /\ Elems(task.files) = {Batched} \cup Elems(Tail(task.files))
  BY <1>2, TailElems DEF Batched
<1>4. ~Linking
  BY DEF Linking
<1>5. NoLinks /\ \A e \in Elems(todo) : e.op # "MakeLink"
  BY <1>1, <1>4 DEF LinkInv
<1>6. /\ Batched.path \in Paths \ {<<>>} /\ Batched.handle.at = OnDisk(Batched.handle.entry)
      /\ \A q \in Prefixes(Batched.path) : NoLink(q)
  BY <1>3, <1>5 DEF FileType, HandleType, NoLinks, Queued
<1>7. BatchedSpot \in {OnDisk(Batched.path), Nowhere}
  BY <1>6, LocationIs DEF BatchedSpot
<1>. QED  BY <1>1, <1>2, <1>3, <1>4, <1>5, <1>7 DEF TaskInv, Queued

LEMMA TaskKeeps ==
  ASSUME Inv, task.files # <<>>, UNCHANGED <<policy, members, rootVars, cancelled, callVars>>,
         DiskInv', NoNewOld, NoNewLinks, 0 \in DOMAIN data', task' \in TaskType,
         Elems((task').files) \subseteq Elems(task.files),
         (task').files = <<>> => (task').stage = "start", OwnInv'
  PROVE  Inv'
<1>1. TypeInv /\ DiskInv /\ TaskInv /\ RowInv /\ WriteInv /\ LinkInv /\ AllowedInv /\ OwnInv
  BY DEF Inv
<1>2. UNCHANGED <<entries, symlinks, handle, buffered, todo, phase, result, cancelled, policy, members>>
  BY DEF rootVars, callVars
<1>3. /\ NoLinks /\ \A e \in Elems(todo) : e.op # "MakeLink"
      /\ (phase = "running" /\ Doing("Await")) \/ (phase = "dropped" /\ todo = <<>>)
  BY Writing
<1>4. TypeInv'
  BY <1>1, <1>2 DEF TypeInv, TaskType
<1>5. Queued' \subseteq Queued
  BY <1>2 DEF Queued
<1>6. \A q : (NoLink(q) => NoLink(q)') /\ (~Old(q) => ~Old(q)') /\ IsDirectory(q)' = IsDirectory(q)
  BY <1>2 DEF NoNewLinks, NoNewOld, IsDirectory, StateOf
<1>7. AllowedInv'
  BY <1>1, <1>2, <1>5 DEF AllowedInv
<1>8. LinkInv'
  <2>1. NoLinks'
    BY <1>2, <1>3, <1>5, <1>6 DEF NoLinks
  <2>. QED  BY <1>2, <1>3, <2>1 DEF LinkInv
<1>9. RowInv'
  <2>. SUFFICES ASSUME NEW l \in Left(todo) PROVE Justified(l.do, l.after)'
    BY <1>2 DEF RowInv
  <2>1. Justified(l.do, l.after)
    BY <1>1 DEF RowInv
  <2>2. Current' = Current /\ Member' = Member /\ Linkable(Member)' = Linkable(Member)
    BY <1>2 DEF Current, Member, Linkable, StateOf
  <2>. QED  BY <1>2, <1>6, <2>1, <2>2
            DEF Justified, Placed, Orderly, Rooted, Emptied, Sourced, Truncable
<1>10. WriteInv'
  BY <1>1, <1>2, <1>3 DEF WriteInv, Doing
<1>11. TaskInv'
  BY <1>1, <1>2, <1>3 DEF TaskInv, Doing
<1>. QED  BY <1>4, <1>7, <1>8, <1>9, <1>10, <1>11 DEF Inv

LEMMA BatchFailsKeeps ==
  ASSUME Inv, task.files # <<>>, UNCHANGED <<policy, members, rootVars, cancelled, callVars>>,
         NEW error \in {"Filesystem", "PathCollision"}, BatchFails(error)
  PROVE  Inv'
<1>1. task' = [files |-> <<>>, stage |-> "start", error |-> error] /\ UNCHANGED diskVars
  BY DEF BatchFails, NoTask
<1>2. task' \in TaskType /\ (task').files = <<>> /\ (task').stage = "start" /\ (task').error # "None"
  BY <1>1 DEF TaskType
<1>3. DiskInv' /\ NoNewOld /\ NoNewLinks
  BY <1>1, SameGentle DEF diskVars, Inv
<1>4. 0 \in DOMAIN data'
  BY <1>1 DEF diskVars, Inv, TypeInv
<1>5. OwnInv'
  BY <1>2 DEF OwnInv
<1>6. Elems((task').files) = {}
  BY <1>2, NoOps
<1>. QED  BY <1>2, <1>3, <1>4, <1>5, <1>6, TaskKeeps

LEMMA TaskStepKeeps ==
  ASSUME Inv, TaskStep
  PROVE  Inv'
<1>1. UNCHANGED <<policy, members, rootVars, cancelled, callVars>>
  BY DEF TaskStep
<1>2. TypeInv /\ DiskInv /\ TaskInv /\ OwnInv
  BY DEF Inv
<1>3. task.files # <<>>
  BY <1>2 DEF TaskStep, CheckCancellation, GoesOn, ClearLeaf, CreateFile, FillFile, SkipFiles, TaskInv
<1>4. /\ task \in TaskType /\ Batched \in FileType /\ Batched \in Queued
      /\ Tail(task.files) \in Seq(FileType)
      /\ Elems(task.files) = {Batched} \cup Elems(Tail(task.files))
      /\ BatchedSpot \in {OnDisk(Batched.path), Nowhere}
  BY <1>3, Writing
<1>5. PICK p \in Paths \ {<<>>} : p = Batched.path
  BY <1>4 DEF FileType
<1>6. UNCHANGED <<entries, buffered, phase, result>>
  BY <1>1 DEF rootVars, callVars
<1>7. ASSUME NEW stage \in {"checked", "removed", "created"}, task' = [task EXCEPT !.stage = stage],
             DiskInv', NoNewOld, NoNewLinks, 0 \in DOMAIN data', stage = "created" => ~Old(p)'
      PROVE  Inv'
  <2>1. task' \in TaskType /\ (task').files = task.files /\ (task').stage = stage /\ (task').error = task.error
    BY <1>4, <1>7 DEF TaskType
  <2>2. Queued' = Queued /\ Batched' = Batched
    BY <1>6, <2>1 DEF Queued, Batched
  <2>3. \A q : ~Old(q) => ~Old(q)'
    BY <1>7 DEF NoNewOld
  <2>4. OwnInv'
    <3>1. ~Old(p)' /\ Batched' = Batched /\ p = Batched.path => ~Old(Batched.path)'
      BY DEF Old
    <3>. QED  BY <1>2, <1>5, <1>6, <1>7, <2>1, <2>2, <2>3, <3>1 DEF OwnInv
  <2>. QED  BY <1>1, <1>3, <1>7, <2>1, <2>4, TaskKeeps
<1>8. CASE CheckCancellation
  <2>1. task' = [task EXCEPT !.stage = "checked"] /\ UNCHANGED diskVars
    BY <1>8 DEF CheckCancellation
  <2>2. DiskInv' /\ NoNewOld /\ NoNewLinks /\ 0 \in DOMAIN data'
    BY <1>2, <2>1, SameGentle DEF diskVars, TypeInv
  <2>. QED  BY <1>7, <2>1, <2>2
<1>9. CASE BatchFails("Filesystem") \/ BatchFails("PathCollision")
  BY <1>1, <1>3, <1>9, BatchFailsKeeps
<1>10. CASE BatchedNode # Nothing /\ Remove(BatchedSpot) /\ task' = [task EXCEPT !.stage = "removed"] /\ UNCHANGED data
  <2>1. BatchedSpot # <<>>
    BY <1>10 DEF BatchedNode, Nowhere
  <2>2. DiskInv' /\ NoNewOld /\ NoNewLinks
    BY <1>2, <1>10, <2>1, RemoveGentle
  <2>3. 0 \in DOMAIN data'
    BY <1>2, <1>10 DEF TypeInv
  <2>. QED  BY <1>7, <1>10, <2>2, <2>3
<1>11. CASE /\ BatchedSpot # Nowhere
            /\ Put(BatchedSpot, File(Batched.by, Batched.by))
            /\ Written(Batched.by, Batched.by, FALSE)
            /\ task' = [task EXCEPT !.stage = "created"]
  <2>1. BatchedSpot = OnDisk(p) /\ BatchedSpot # <<>>
    BY <1>4, <1>5, <1>11 DEF Nowhere
  <2>2. PICK node : node = File(Batched.by, Batched.by)
    OBVIOUS
  <2>3. Put(BatchedSpot, node) /\ node.type = "File" /\ node.inode # 0
    BY <1>4, <1>11, <2>2 DEF File, FileType
  <2>4. DiskInv' /\ NoNewOld /\ NoNewLinks
    BY <1>2, <2>1, <2>3, PutGentle
  <2>5. ~Old(p)'
    <3>1. \A q : NodeAt(q)' = IF q = OnDisk(p) THEN node ELSE NodeAt(q)
      BY <2>1, <2>3, PutNode
    <3>. QED  BY <2>3, <3>1 DEF Old
  <2>6. 0 \in DOMAIN data'
    BY <1>2, <1>11 DEF TypeInv, Written
  <2>. QED  BY <1>7, <1>11, <2>4, <2>5, <2>6
<1>12. CASE /\ task.stage = "created"
            /\ Written(Batched.by, Batched.by, TRUE)
            /\ task' = [task EXCEPT !.files = Tail(@), !.stage = "start"]
            /\ UNCHANGED fs
  <2>1. /\ task' \in TaskType /\ (task').files = Tail(task.files) /\ (task').stage = "start"
        /\ (task').error = task.error
    BY <1>4, <1>12 DEF TaskType
  <2>2. DiskInv' /\ NoNewOld /\ NoNewLinks
    BY <1>2, <1>12, SameGentle
  <2>3. 0 \in DOMAIN data'
    BY <1>2, <1>12 DEF TypeInv, Written
  <2>4. Queued \subseteq Queued' \cup {Batched} /\ Elems((task').files) \subseteq Elems(task.files)
    BY <1>4, <1>6, <2>1 DEF Queued
  <2>5. OwnInv'
    <3>. SUFFICES ASSUME phase = "running", result = "Pending", task.error = "None",
                         NEW q \in DOMAIN entries, entries[q].kind = "File"
                  PROVE  ~Old(q)' \/ \E f \in Queued' : f.path = q
      BY <1>6, <2>1 DEF OwnInv
    <3>1. ~Old(q) \/ \E f \in Queued : f.path = q
      BY <1>2 DEF OwnInv
    <3>2. ~Old(p)
      BY <1>2, <1>5, <1>12 DEF OwnInv
    <3>3. ~Old(q) => ~Old(q)'
      BY <2>2 DEF NoNewOld
    <3>. QED  BY <1>5, <2>4, <3>1, <3>2, <3>3
  <2>. QED  BY <1>1, <1>3, <2>1, <2>2, <2>3, <2>4, <2>5, TaskKeeps
<1>13. CASE SkipFiles
  <2>1. task' = [files |-> <<>>, stage |-> "start", error |-> "None"] /\ UNCHANGED diskVars /\ cancelled
    BY <1>13 DEF SkipFiles, NoTask
  <2>2. task' \in TaskType /\ (task').files = <<>> /\ (task').stage = "start"
    BY <2>1 DEF TaskType
  <2>3. DiskInv' /\ NoNewOld /\ NoNewLinks /\ 0 \in DOMAIN data'
    BY <1>2, <2>1, SameGentle DEF diskVars, TypeInv
  <2>4. OwnInv'
    BY <1>2, <1>6, <2>1 DEF TaskInv, OwnInv
  <2>5. Elems((task').files) = {}
    BY <2>2, NoOps
  <2>. QED  BY <1>1, <1>3, <2>2, <2>3, <2>4, <2>5, TaskKeeps
<1>14. CASE ClearLeaf
  BY <1>9, <1>10, <1>14 DEF ClearLeaf
<1>15. CASE CreateFile
  BY <1>9, <1>11, <1>15 DEF CreateFile
<1>16. CASE FillFile
  BY <1>9, <1>12, <1>16 DEF FillFile
<1>. QED  BY <1>8, <1>13, <1>14, <1>15, <1>16 DEF TaskStep

-----------------------------------------------------------------------------
(* The invariant holds of every extraction.                                *)

LEMMA InvInit ==
  ASSUME ExtractionInit
  PROVE  Inv
<1>1. /\ policy \in Policies /\ fs \in Destinations /\ data = [i \in {0} |-> [by |-> 0, done |-> TRUE]]
      /\ members = <<>> /\ entries = <<>> /\ symlinks = <<>> /\ handle = NoHandle
      /\ buffered = <<>> /\ task = [files |-> <<>>, stage |-> "start", error |-> "None"]
      /\ cancelled = FALSE /\ todo = <<>> /\ phase = "running" /\ result = "Pending"
  BY DEF ExtractionInit, NoTask
<1>2. /\ Elems(todo) = {} /\ Left(todo) = {} /\ Elems(buffered) = {} /\ Elems(task.files) = {}
      /\ DOMAIN entries = {} /\ 2..Len(todo) = {}
  BY <1>1, NoOps
<1>3. TypeInv
  BY <1>1, <1>2, NoHandleType, NoOps DEF TypeInv
<1>4. DiskInv
  BY <1>1, ExtractionAssumption DEF DiskInv, WasThere, Directory, File, Link
<1>5. TaskInv /\ RowInv /\ WriteInv
  BY <1>1, <1>2 DEF TaskInv, RowInv, WriteInv, Doing
<1>6. NoLinks /\ AllowedInv /\ OwnInv
  BY <1>1, <1>2 DEF NoLinks, AllowedInv, OwnInv, Queued
<1>7. LinkInv
  BY <1>2, <1>6 DEF LinkInv
<1>. QED  BY <1>3, <1>4, <1>5, <1>6, <1>7 DEF Inv

LEMMA InvKept ==
  ASSUME Inv, UNCHANGED extractionVars
  PROVE  Inv'
<1>1. TypeInv /\ DiskInv /\ TaskInv /\ RowInv /\ WriteInv /\ LinkInv /\ AllowedInv /\ OwnInv
  BY DEF Inv
<1>2. UNCHANGED <<fs, data, policy, members, entries, symlinks, handle, buffered, task, cancelled,
                  todo, phase, result>>
  BY DEF extractionVars, diskVars, rootVars, callVars
<1>3. TypeInv' /\ DiskInv' /\ TaskInv'
  BY <1>1, <1>2 DEF TypeInv, DiskInv, TaskInv, Doing
<1>4. \A q : NodeAt(q)' = NodeAt(q) /\ StateOf(q)' = StateOf(q)
  BY <1>2, SameNode, SameState
<1>5. \A q : Old(q)' = Old(q) /\ NoLink(q)' = NoLink(q) /\ IsDirectory(q)' = IsDirectory(q)
  BY <1>4 DEF Old, NoLink, IsDirectory
<1>6. Queued' = Queued
  BY <1>2 DEF Queued
<1>7. LinkInv' /\ AllowedInv' /\ OwnInv'
  BY <1>1, <1>2, <1>5, <1>6 DEF LinkInv, Linking, NoLinks, AllowedInv, OwnInv, Batched
<1>8. RowInv'
  BY <1>1, <1>2, <1>4, <1>5
     DEF RowInv, Justified, Placed, Orderly, Rooted, Emptied, Sourced, Truncable, Current, Member, Linkable
<1>9. WriteInv'
  <2>1. Path' = Path /\ (Doing("Write"))' = Doing("Write")
    BY <1>2 DEF Path, Doing
  <2>2. Doing("Write") => Spot' = Spot
    BY <1>2, <2>1, SpotKept DEF Doing, Settled
  <2>. QED  BY <1>1, <1>2, <1>4, <1>5, <2>1, <2>2 DEF WriteInv, Old
<1>. QED  BY <1>3, <1>7, <1>8, <1>9 DEF Inv

LEMMA InvNext ==
  ASSUME Inv, ExtractionNext
  PROVE  Inv'
<1>1. CASE NextMember /\ UNCHANGED <<task, policy, cancelled>>
  BY <1>1, NextMemberKeeps
<1>2. CASE Flush /\ UNCHANGED <<members, policy, cancelled>>
  BY <1>2, FlushKeeps
<1>3. CASE Operation /\ UNCHANGED <<members, task, policy, cancelled>>
  BY <1>3, PayloadKeeps, QueueKeeps, EnqueueKeeps, AwaitKeeps, ReplaceKeeps, EnsureDirectoryKeeps,
     CreateKeeps, WriteKeeps, TargetKeeps, HardLinkKeeps, TruncateKeeps, ReserveKeeps, ValidateKeeps,
     MakeLinkKeeps, ReturnKeeps DEF Operation
<1>. QED  BY <1>1, <1>2, <1>3, TaskStepKeeps, DropKeeps DEF ExtractionNext, Step

LEMMA ClientInv == ClientSpec => []Inv
<1>1. ClientInit => Inv
  BY InvInit DEF ClientInit
<1>2. Inv /\ [ClientNext]_clientVars => Inv'
  BY InvNext, InvKept DEF ClientNext, clientVars
<1>. QED  BY <1>1, <1>2, PTL DEF ClientSpec

-----------------------------------------------------------------------------
(* After the future was dropped.                                           *)

LateInv ==
  /\ phase # "dropped" => late = {}
  /\ phase = "dropped" =>
       \/ late = {}
       \/ \E p : /\ late = {p} /\ todo = <<>>
                 /\ task.files = <<>> \/ task.stage = "start" \/ Batched.path = p

(* Only the operation in flight is left, and nothing comes after it.       *)
LEMMA LastStep ==
  ASSUME Inv, Step, phase = "dropped"
  PROVE  todo' = <<>> /\ phase' = phase /\ todo # <<>> /\ UNCHANGED task /\ task.files = <<>>
<1>1. todo # <<>>
  BY DEF Step, NextMember, Flush, Operation, Doing, Payload, Queue, Enqueue, Await, Replace,
         EnsureDirectory, Create, Write, Target, HardLink, Truncate, Reserve, Validate, MakeLink, Return
<1>2. Head(todo).op \in BlockingOps /\ task.files = <<>>
  BY <1>1 DEF Inv, TaskInv
<1>3. Operation /\ UNCHANGED task
  BY <1>2 DEF Step, NextMember, Flush, Doing, BlockingOps
<1>4. Replace \/ EnsureDirectory \/ Create \/ Write \/ Truncate \/ HardLink \/ MakeLink
  BY <1>2, <1>3 DEF Operation, BlockingOps, Doing, Payload, Queue, Enqueue, Await, Target, Reserve,
                    Validate, Return
<1>5. CASE Replace
  BY <1>1, <1>2, <1>3, <1>5 DEF Replace, Then, Fails, FailWith
<1>6. CASE EnsureDirectory
  BY <1>1, <1>2, <1>3, <1>6 DEF EnsureDirectory, Then, Fails, FailWith
<1>7. CASE Create
  BY <1>1, <1>2, <1>3, <1>7 DEF Create, Then, Fails, FailWith
<1>8. CASE Write
  BY <1>1, <1>2, <1>3, <1>8 DEF Write, Then, Fails, FailWith
<1>9. CASE Truncate
  BY <1>1, <1>2, <1>3, <1>9 DEF Truncate, Then, Fails, FailWith
<1>10. CASE HardLink
  BY <1>1, <1>2, <1>3, <1>10 DEF HardLink, Then, Fails, FailWith
<1>11. CASE MakeLink
  BY <1>1, <1>2, <1>3, <1>11 DEF MakeLink, Then, Fails, FailWith
<1>. QED  BY <1>4, <1>5, <1>6, <1>7, <1>8, <1>9, <1>10, <1>11

LEMMA LateNext ==
  ASSUME Inv, LateInv, [ClientNext]_clientVars
  PROVE  LateInv'
<1>1. CASE UNCHANGED clientVars
  BY <1>1 DEF LateInv, clientVars, extractionVars, callVars, Batched
<1>2. CASE ClientNext /\ phase # "dropped"
  BY <1>2 DEF ClientNext, Remembers, LateInv
<1>3. CASE ClientNext /\ phase = "dropped"
  <2>1. ExtractionNext /\ late' \in {late, late \cup {Operand}}
    BY <1>3 DEF ClientNext, Remembers
  <2>2. CASE Step
    <3>1. todo' = <<>> /\ phase' = phase /\ todo # <<>> /\ (task').files = <<>>
      BY <1>3, <2>2, LastStep
    <3>2. late = {}
      BY <1>3, <3>1 DEF LateInv
    <3>. QED  BY <1>3, <2>1, <3>1, <3>2 DEF LateInv
  <2>3. CASE TaskStep
    <3>1. TypeInv /\ TaskInv
      BY DEF Inv
    <3>2. UNCHANGED <<todo, phase>> /\ cancelled
      BY <1>3, <2>3, <3>1 DEF TaskStep, callVars, TaskInv
    <3>3. task.files # <<>> /\ (task.stage = "start" => SkipFiles)
      BY <2>3, <3>1, <3>2
         DEF TaskStep, CheckCancellation, GoesOn, ClearLeaf, CreateFile, FillFile, SkipFiles, TaskInv
    <3>4. todo = <<>> /\ Operand = Batched.path /\ task \in TaskType
      BY <1>3, <3>1, <3>3, Writing DEF Operand, TaskInv, Doing
    <3>5. CASE SkipFiles
      <4>1. (task').files = <<>> /\ UNCHANGED diskVars
        BY <3>5 DEF SkipFiles, NoTask
      <4>2. late' = late
        BY <1>3, <4>1 DEF ClientNext, Remembers
      <4>. QED  BY <1>3, <3>2, <3>4, <4>1, <4>2 DEF LateInv
    <3>6. CASE ~SkipFiles
      <4>1. late \in {{}, {Batched.path}}
        BY <1>3, <3>3, <3>6 DEF LateInv
      <4>2. \/ (task').files = <<>>
            \/ (task').stage = "start"
            \/ (task').files = task.files
        BY <2>3, <3>4, <3>6
           DEF TaskStep, CheckCancellation, ClearLeaf, CreateFile, FillFile, BatchFails, NoTask, TaskType
      <4>3. (task').files = task.files => Batched' = Batched
        BY DEF Batched
      <4>4. late' \in {{}, {Batched.path}}
        BY <2>1, <3>4, <4>1
      <4>. QED  BY <1>3, <3>2, <3>4, <4>2, <4>3, <4>4 DEF LateInv
    <3>. QED  BY <3>5, <3>6
  <2>4. CASE DropFuture
    BY <1>3, <2>4 DEF DropFuture
  <2>. QED  BY <2>1, <2>2, <2>3, <2>4 DEF ExtractionNext
<1>. QED  BY <1>1, <1>2, <1>3

(* Whatever the archive, the policy and the destination: once the future   *)
(* was dropped, at most one leaf of the destination is still changed, that *)
(* of the call in flight or of the file the batch task is at.              *)
THEOREM DroppedStaysQuiet == ClientSpec => []QuietAfterDrop
<1>1. ClientInit => LateInv
  BY DEF ClientInit, ExtractionInit, LateInv
<1>2. LateInv => QuietAfterDrop
  <2>. SUFFICES ASSUME LateInv PROVE Cardinality(late) <= 1
    BY DEF QuietAfterDrop
  <2>1. late = {} \/ \E p : late = {p}
    BY DEF LateInv
  <2>2. CASE late = {}
    <3>1. Cardinality(late) = 0
      BY <2>2, FS_EmptySet, Zenon
    <3>. QED  BY <3>1
  <2>3. ASSUME NEW p, late = {p} PROVE Cardinality(late) <= 1
    <3>1. Cardinality(late) = 1
      BY <2>3, FS_Singleton, Zenon
    <3>. QED  BY <3>1
  <2>. QED  BY <2>1, <2>2, <2>3
<1>3. Inv /\ LateInv /\ [ClientNext]_clientVars => LateInv'
  BY LateNext
<1>. QED  BY <1>1, <1>2, <1>3, ClientInv, PTL DEF ClientSpec

-----------------------------------------------------------------------------
(* What was there before.                                                  *)

NothingLost == \A p \in DOMAIN fs : p \in DOMAIN fs' /\ fs'[p] = fs[p]
Untouched   == data'[0] = data[0]

LEMMA PutNew ==
  ASSUME DiskInv, NEW p, p # <<>>, NodeAt(p) = Nothing, NEW node, Put(p, node)
  PROVE  NothingLost
BY NodeThere DEF Put, NothingLost

LEMMA WrittenElsewhere ==
  ASSUME TypeInv, NEW inode, inode # 0, NEW by, NEW done, Written(inode, by, done)
  PROVE  Untouched
BY DEF Written, TypeInv, Untouched

LEMMA StepOverwritesNothing ==
  ASSUME Inv, Step
  PROVE  (~policy.allow_overwrites => NothingLost) /\ Untouched
<1>1. /\ TypeInv /\ DiskInv /\ WriteInv
  BY DEF Inv
<1>2. CASE UNCHANGED diskVars
  BY <1>2 DEF diskVars, NothingLost, Untouched
<1>3. CASE Replace
  <2>1. UNCHANGED data
    BY <1>3 DEF Replace, Fails, diskVars
  <2>2. UNCHANGED fs \/ policy.allow_overwrites
    BY <1>3 DEF Replace, Fails, diskVars, CanReplace
  <2>. QED  BY <2>1, <2>2 DEF NothingLost, Untouched
<1>4. CASE EnsureDirectory
  <2>1. UNCHANGED data
    BY <1>4 DEF EnsureDirectory, Fails, diskVars
  <2>2. UNCHANGED fs \/ \E node : Spot # Nowhere /\ SpotNode = Nothing /\ Put(Spot, node)
    BY <1>4 DEF EnsureDirectory, Fails, diskVars
  <2>3. NothingLost
    BY <1>1, <2>2, PutNew DEF SpotNode, Nowhere, NothingLost
  <2>. QED  BY <2>1, <2>3 DEF Untouched
<1>5. CASE Create
  <2>1. \/ UNCHANGED diskVars
        \/ /\ Spot # Nowhere /\ SpotNode = Nothing /\ Put(Spot, File(Current, Current))
           /\ Written(Current, Current, FALSE)
    BY <1>5 DEF Create, Fails
  <2>2. Current # 0
    BY <1>5, Here DEF Create, Doing, Settled
  <2>3. CASE ~UNCHANGED diskVars
    BY <1>1, <2>1, <2>2, <2>3, PutNew, WrittenElsewhere DEF SpotNode, Nowhere
  <2>. QED  BY <1>2, <2>3
<1>6. CASE Write
  <2>1. UNCHANGED diskVars \/ (Written(SpotNode.inode, Current, TRUE) /\ UNCHANGED fs)
    BY <1>6 DEF Write, Fails
  <2>2. Spot = OnDisk(Path) /\ NodeAt(Spot).type = "File" /\ ~Old(Path)
    BY <1>1, <1>6 DEF Write, WriteInv
  <2>3. Path \in Paths \ {<<>>}
    BY <1>6, Here DEF Write, Doing, Settled
  <2>4. SpotNode.inode # 0
    BY <2>2, <2>3, PlaceIs DEF SpotNode, Old
  <2>5. CASE Written(SpotNode.inode, Current, TRUE) /\ UNCHANGED fs
    BY <1>1, <2>4, <2>5, WrittenElsewhere DEF NothingLost
  <2>. QED  BY <1>2, <2>1, <2>5
<1>7. CASE Truncate
  <2>1. \/ UNCHANGED diskVars
        \/ SpotNode.type = "File" /\ Written(SpotNode.inode, Current, FALSE) /\ UNCHANGED fs
    BY <1>7 DEF Truncate, Fails
  <2>2. todo # <<>> /\ Head(todo).op = "Truncate"
    BY <1>7 DEF Truncate, Doing
  <2>3. ~Old(Path)
    <3>1. Justified(Head(todo), {})
      BY <2>2, Now DEF Closing
    <3>. QED  BY <2>2, <3>1 DEF Justified, Truncable, Path
  <2>4. Spot \in {OnDisk(Path), Nowhere}
    BY <2>2, Here DEF Settled
  <2>5. CASE SpotNode.type = "File" /\ Written(SpotNode.inode, Current, FALSE) /\ UNCHANGED fs
    <3>1. SpotNode.inode # 0
      BY <2>3, <2>4, <2>5 DEF SpotNode, Nothing, Old
    <3>. QED  BY <1>1, <2>5, <3>1, WrittenElsewhere DEF NothingLost
  <2>. QED  BY <1>2, <2>1, <2>5
<1>8. CASE HardLink
  <2>1. UNCHANGED data
    BY <1>8 DEF HardLink, Fails, diskVars
  <2>2. UNCHANGED fs \/ \E spot, node : spot # Nowhere /\ NodeAt(spot) = Nothing /\ Put(spot, node)
    BY <1>8 DEF HardLink, Fails, diskVars
  <2>3. NothingLost
    BY <1>1, <2>2, PutNew DEF Nowhere, NothingLost
  <2>. QED  BY <2>1, <2>3 DEF Untouched
<1>9. CASE MakeLink
  <2>1. UNCHANGED data
    BY <1>9 DEF MakeLink, Fails, diskVars
  <2>2. \/ UNCHANGED fs \/ policy.allow_overwrites
        \/ \E node : Spot # Nowhere /\ SpotNode = Nothing /\ Put(Spot, node)
    BY <1>9 DEF MakeLink, Fails, diskVars, CanReplace
  <2>3. ~policy.allow_overwrites => NothingLost
    BY <1>1, <2>2, PutNew DEF SpotNode, Nowhere, NothingLost
  <2>. QED  BY <2>1, <2>3 DEF Untouched
<1>10. \/ UNCHANGED diskVars
       \/ Replace \/ EnsureDirectory \/ Create \/ Write \/ Truncate \/ HardLink \/ MakeLink
  BY DEF Step, NextMember, Flush, Operation, Payload, Queue, Enqueue, Await, Target, Reserve,
         Validate, Return, Fails
<1>. QED  BY <1>2, <1>3, <1>4, <1>5, <1>6, <1>7, <1>8, <1>9, <1>10

LEMMA TaskOverwritesNothing ==
  ASSUME Inv, TaskStep
  PROVE  (~policy.allow_overwrites => NothingLost) /\ Untouched
<1>1. TypeInv /\ DiskInv /\ TaskInv /\ AllowedInv
  BY DEF Inv
<1>2. CASE UNCHANGED diskVars
  BY <1>2 DEF diskVars, NothingLost, Untouched
<1>3. CASE ~UNCHANGED diskVars
  <2>1. task.files # <<>>
    BY <1>1, <1>3 DEF TaskStep, CheckCancellation, ClearLeaf, CreateFile, FillFile, SkipFiles, TaskInv
  <2>2. Batched \in Queued /\ Batched.by # 0
    BY <2>1, Writing DEF FileType
  <2>3. \/ Batched.replacement # "Disallowed" /\ UNCHANGED data
        \/ /\ BatchedSpot # Nowhere /\ BatchedNode = Nothing
           /\ Put(BatchedSpot, File(Batched.by, Batched.by))
           /\ Written(Batched.by, Batched.by, FALSE)
        \/ Written(Batched.by, Batched.by, TRUE) /\ UNCHANGED fs
    BY <1>3 DEF TaskStep, CheckCancellation, ClearLeaf, CreateFile, FillFile, SkipFiles, BatchFails
  <2>4. CASE Batched.replacement # "Disallowed" /\ UNCHANGED data
    BY <1>1, <2>2, <2>4 DEF AllowedInv, Untouched
  <2>5. CASE /\ BatchedSpot # Nowhere /\ BatchedNode = Nothing
             /\ Put(BatchedSpot, File(Batched.by, Batched.by))
             /\ Written(Batched.by, Batched.by, FALSE)
    BY <1>1, <2>2, <2>5, PutNew, WrittenElsewhere DEF BatchedNode, Nowhere
  <2>6. CASE Written(Batched.by, Batched.by, TRUE) /\ UNCHANGED fs
    BY <1>1, <2>2, <2>6, WrittenElsewhere DEF NothingLost
  <2>. QED  BY <2>3, <2>4, <2>5, <2>6
<1>. QED  BY <1>2, <1>3

(* Whatever the archive and the destination: without allow_overwrites the  *)
(* extraction removes and replaces nothing, and under no policy does it    *)
(* write into a file that was there before.                                *)
THEOREM ExtractionOverwritesNothing == ClientSpec => NothingOverwritten
<1>1. Inv /\ [ClientNext]_clientVars =>
        [ /\ ~policy.allow_overwrites => \A p \in DOMAIN fs : p \in DOMAIN fs' /\ fs'[p] = fs[p]
          /\ data'[0] = data[0] ]_clientVars
  <2>. SUFFICES ASSUME Inv, ClientNext
                PROVE  /\ ~policy.allow_overwrites => \A p \in DOMAIN fs : p \in DOMAIN fs' /\ fs'[p] = fs[p]
                       /\ data'[0] = data[0]
    OBVIOUS
  <2>1. CASE DropFuture
    BY <2>1 DEF DropFuture, diskVars
  <2>2. CASE Step
    BY <2>2, StepOverwritesNothing DEF NothingLost, Untouched
  <2>3. CASE TaskStep
    BY <2>3, TaskOverwritesNothing DEF NothingLost, Untouched
  <2>. QED  BY <2>1, <2>2, <2>3 DEF ClientNext, ExtractionNext
<1>. QED  BY <1>1, ClientInv, PTL DEF ClientSpec, NothingOverwritten

-----------------------------------------------------------------------------
(* Where a step takes effect.                                              *)

LEMMA PutChanges ==
  ASSUME NEW p, NEW node, Put(p, node)
  PROVE  Changed \subseteq {p}
BY DEF Put, Changed

LEMMA RemoveChanges ==
  ASSUME NEW p, Remove(p)
  PROVE  Changed \subseteq {p}
BY DEF Remove, Changed

LEMMA StepChanges ==
  ASSUME Inv, Step, ~Doing("MakeLink")
  PROVE  Changed \subseteq {OnDisk(Operand)}
<1>1. CASE UNCHANGED fs
  BY <1>1 DEF Changed
<1>2. ASSUME ~UNCHANGED fs, NEW spot, spot = OnDisk(Path), todo # <<>>, Head(todo).op \in Settled,
             Changed \subseteq {spot}
      PROVE  Changed \subseteq {OnDisk(Operand)}
  <2>1. task.files = <<>>
    BY <1>2, Now DEF Settled, Closing
  <2>. QED  BY <1>2, <2>1 DEF Operand
<1>3. CASE Replace /\ ~UNCHANGED fs
  <2>1. SpotNode # Nothing /\ Remove(Spot) /\ todo # <<>> /\ Head(todo).op \in Settled
    BY <1>3 DEF Replace, Fails, diskVars, Doing, Settled
  <2>2. Spot = OnDisk(Path)
    BY <2>1, Here DEF SpotNode
  <2>. QED  BY <1>2, <1>3, <2>1, <2>2, RemoveChanges
<1>4. CASE EnsureDirectory /\ ~UNCHANGED fs
  <2>1. Spot # Nowhere /\ (\E node : Put(Spot, node)) /\ todo # <<>> /\ Head(todo).op \in Settled
    BY <1>4 DEF EnsureDirectory, Fails, diskVars, Doing, Settled
  <2>2. Spot = OnDisk(Path)
    BY <2>1, Here
  <2>. QED  BY <1>2, <1>4, <2>1, <2>2, PutChanges
<1>5. CASE Create /\ ~UNCHANGED fs
  <2>1. Spot # Nowhere /\ (\E node : Put(Spot, node)) /\ todo # <<>> /\ Head(todo).op \in Settled
    BY <1>5 DEF Create, Fails, diskVars, Doing, Settled
  <2>2. Spot = OnDisk(Path)
    BY <2>1, Here
  <2>. QED  BY <1>2, <1>5, <2>1, <2>2, PutChanges
<1>6. CASE HardLink /\ ~UNCHANGED fs
  <2>. DEFINE spot == Location(Path, NoHandle)
  <2>1. spot # Nowhere /\ (\E node : Put(spot, node)) /\ todo # <<>> /\ Head(todo).op \in Settled
    BY <1>6 DEF HardLink, Fails, diskVars, Doing, Settled
  <2>2. spot = OnDisk(Path)
    BY <2>1, Here, NoHandleType, LocationIs
  <2>. HIDE DEF spot
  <2>. QED  BY <1>2, <1>6, <2>1, <2>2, PutChanges
<1>7. UNCHANGED fs \/ Replace \/ EnsureDirectory \/ Create \/ HardLink
  BY DEF Step, NextMember, Flush, Operation, Payload, Queue, Enqueue, Await, Target, Reserve,
         Validate, Return, Write, Truncate, MakeLink, Fails, diskVars
<1>. QED  BY <1>1, <1>3, <1>4, <1>5, <1>6, <1>7

LEMMA TaskChanges ==
  ASSUME Inv, TaskStep
  PROVE  Changed \subseteq {OnDisk(Operand)}
<1>1. CASE UNCHANGED fs
  BY <1>1 DEF Changed
<1>2. CASE ~UNCHANGED fs
  <2>1. task.files # <<>>
    BY <1>2 DEF Inv, TaskInv, TaskStep, CheckCancellation, ClearLeaf, CreateFile, FillFile, SkipFiles,
                diskVars
  <2>2. BatchedSpot # Nowhere /\ (Remove(BatchedSpot) \/ \E node : Put(BatchedSpot, node))
    BY <1>2 DEF TaskStep, CheckCancellation, ClearLeaf, CreateFile, FillFile, SkipFiles, BatchFails,
                diskVars, BatchedNode
  <2>3. BatchedSpot = OnDisk(Batched.path) /\ Operand = Batched.path
    BY <2>1, <2>2, Writing DEF Operand
  <2>. QED  BY <2>2, <2>3, PutChanges, RemoveChanges
<1>. QED  BY <1>1, <1>2

(* Whatever the destination holds and however its names fold: until the    *)
(* symbolic links are made, a step on a path changes no leaf but the       *)
(* path's own; no link is followed on the way to it.  Where two names fold *)
(* together, a deferred link may be made through an earlier one.           *)
THEOREM DescendsThroughNoLink ==
  ClientSpec => [][~Doing("MakeLink") => Changed \subseteq {OnDisk(Operand)}]_clientVars
<1>1. Inv /\ [ClientNext]_clientVars =>
        [~Doing("MakeLink") => Changed \subseteq {OnDisk(Operand)}]_clientVars
  <2>. SUFFICES ASSUME Inv, ClientNext, ~Doing("MakeLink")
                PROVE  Changed \subseteq {OnDisk(Operand)}
    OBVIOUS
  <2>1. CASE DropFuture
    BY <2>1 DEF DropFuture, diskVars, Changed
  <2>. QED  BY <2>1, StepChanges, TaskChanges DEF ClientNext, ExtractionNext
<1>. QED  BY <1>1, ClientInv, PTL DEF ClientSpec

-----------------------------------------------------------------------------
(* The state of the paths and the tree.                                    *)

(* The disk keeps different names apart.                                   *)
NamesApart == \A m, n \in DOMAIN Fold : Fold[m] = Fold[n] => m = n

NodeOf(p) == NodeAt(OnDisk(p))

(* Nothing is left to do after a small file was put off, and a link is     *)
(* reserved right after its place was cleared.                             *)
PutOffLast(s) == \A k \in 1..Len(s) : s[k].op \in {"Queue", "Enqueue"} => k = Len(s)
ClearedFirst(s) ==
  \A k \in 2..Len(s) : s[k].op = "Reserve" => s[k - 1] = Op("Replace", s[k].path)

(* While small files wait, only what can be put off with them, or writes   *)
(* them, is done.                                                          *)
WaitInv ==
  phase = "running" /\ buffered # <<>> =>
    \/ todo = <<>> \/ Head(todo).op \in {"Flush", "Queue", "Enqueue"}
    \/ Head(todo).op = "Payload" /\ Len(todo) = 2 /\ todo[2].op = "Queue"

OrderInv == PutOffLast(todo) /\ ClearedFirst(todo) /\ WaitInv

(* What is left after an operation, one by one.                            *)
LEMMA ThenParts ==
  ASSUME NEW ops \in Seq(OpType), NEW s \in Seq(OpType), s # <<>>, NEW t, t = ops \o Tail(s)
  PROVE  /\ t \in Seq(OpType) /\ Len(ops) \in Nat /\ Len(s) \in Nat \ {0}
         /\ Len(t) = Len(ops) + Len(s) - 1
         /\ \A k \in 1..Len(t) :
              IF k <= Len(ops) THEN k \in 1..Len(ops) /\ t[k] = ops[k]
              ELSE k - Len(ops) + 1 \in 2..Len(s) /\ t[k] = s[k - Len(ops) + 1]
         /\ ops # <<>> => t # <<>> /\ Head(t) = Head(ops)
         /\ ops = <<>> => t = Tail(s)
<1>. DEFINE u == Tail(s)
<1>1. /\ u \in Seq(OpType) /\ Len(s) \in Nat \ {0} /\ Len(u) = Len(s) - 1 /\ Len(ops) \in Nat
      /\ \A k \in 1..Len(u) : u[k] = s[k + 1]
  BY EmptySeq
<1>. HIDE DEF u
<1>2. /\ t = ops \o u /\ t \in Seq(OpType) /\ Len(t) = Len(ops) + Len(u)
      /\ \A k \in 1..Len(ops) : t[k] = ops[k]
      /\ \A k \in 1..Len(u) : t[Len(ops) + k] = u[k]
  <2>1. t = ops \o u
    BY DEF u
  <2>2. /\ ops \o u \in Seq(OpType) /\ Len(ops \o u) = Len(ops) + Len(u)
        /\ \A k \in 1..Len(ops) : (ops \o u)[k] = ops[k]
        /\ \A k \in 1..Len(u) : (ops \o u)[Len(ops) + k] = u[k]
    <3>1. \A x, y \in Seq(OpType) :
            /\ x \o y \in Seq(OpType) /\ Len(x \o y) = Len(x) + Len(y)
            /\ Len(x) \in Nat /\ Len(y) \in Nat
            /\ \A k \in 1..(Len(x) + Len(y)) : (x \o y)[k] = IF k <= Len(x) THEN x[k] ELSE y[k - Len(x)]
      BY ConcatProperties
    <3>2. /\ ops \o u \in Seq(OpType) /\ Len(ops \o u) = Len(ops) + Len(u)
           /\ \A k \in 1..(Len(ops) + Len(u)) :
                (ops \o u)[k] = IF k <= Len(ops) THEN ops[k] ELSE u[k - Len(ops)]
      BY <1>1, <3>1, Zenon
    <3>3. PICK v : v = ops \o u
      OBVIOUS
    <3>4. /\ \A k \in 1..(Len(ops) + Len(u)) : v[k] = IF k <= Len(ops) THEN ops[k] ELSE u[k - Len(ops)]
          /\ Len(u) \in Nat
      BY <1>1, <3>2, <3>3
    <3>5. ASSUME NEW k \in 1..Len(ops) PROVE v[k] = ops[k]
      BY <1>1, <3>4
    <3>6. ASSUME NEW k \in 1..Len(u) PROVE v[Len(ops) + k] = u[k]
      <4>1. /\ Len(ops) + k \in 1..(Len(ops) + Len(u)) /\ ~(Len(ops) + k <= Len(ops))
            /\ (Len(ops) + k) - Len(ops) = k
        BY <1>1
      <4>. QED  BY <3>4, <4>1, Zenon
    <3>. QED  BY <3>2, <3>3, <3>5, <3>6, Zenon
  <2>. QED  BY <2>1, <2>2, Zenon
<1>3. ASSUME NEW k \in 1..Len(t), ~(k <= Len(ops))
      PROVE  k - Len(ops) + 1 \in 2..Len(s) /\ t[k] = s[k - Len(ops) + 1]
  <2>1. PICK i \in 1..Len(u) : k = Len(ops) + i /\ k - Len(ops) + 1 = i + 1 /\ i + 1 \in 2..Len(s)
    <3>. DEFINE i == k - Len(ops)
    <3>1. i \in 1..Len(u) /\ k = Len(ops) + i /\ k - Len(ops) + 1 = i + 1 /\ i + 1 \in 2..Len(s)
      BY <1>1, <1>2, <1>3
    <3>. QED  BY <3>1
  <2>2. t[k] = u[i] /\ u[i] = s[i + 1]
    BY <1>1, <1>2, <2>1
  <2>. QED  BY <2>1, <2>2
<1>4. ASSUME NEW k \in 1..Len(t), k <= Len(ops) PROVE k \in 1..Len(ops) /\ t[k] = ops[k]
  BY <1>1, <1>2, <1>4
<1>5. ASSUME ops # <<>> PROVE t # <<>> /\ Head(t) = Head(ops)
  <2>1. Len(ops) > 0 /\ 1 \in 1..Len(ops) /\ Len(t) > 0
    BY <1>1, <1>2, <1>5, EmptySeq
  <2>2. t[1] = ops[1] /\ t # <<>> /\ Head(t) = t[1] /\ Head(ops) = ops[1]
    BY <1>2, <2>1
  <2>. QED  BY <2>2
<1>6. ASSUME ops = <<>> PROVE t = Tail(s)
  BY <1>1, <1>2, <1>6 DEF u
<1>7. Len(t) = Len(ops) + Len(s) - 1
  BY <1>1, <1>2
<1>. QED  BY <1>1, <1>2, <1>3, <1>4, <1>5, <1>6, <1>7

(* The rows of an operation that reserves nothing.                         *)
LEMMA OrderThen ==
  ASSUME todo \in Seq(OpType), todo # <<>>, PutOffLast(todo), ClearedFirst(todo),
         NEW ops \in Seq(OpType), todo' = IF phase = "dropped" THEN <<>> ELSE ops \o Tail(todo),
         PutOffLast(ops), \A e \in Elems(ops) : e.op # "Reserve",
         \A e \in Elems(ops) : e.op \in {"Queue", "Enqueue"} => Head(todo).op \in {"Queue", "Enqueue"},
         Head(todo).op = "Replace" => ops = <<>>
  PROVE  /\ PutOffLast(todo') /\ ClearedFirst(todo')
         /\ todo' # <<>> /\ Head(todo').op = "Reserve" =>
              phase # "dropped" /\ Head(todo) = Op("Replace", Head(todo').path)
         /\ phase # "dropped" /\ ops # <<>> => todo' # <<>> /\ Head(todo') = Head(ops)
<1>1. CASE phase = "dropped"
  <2>1. todo' = <<>> /\ Len(todo') = 0
    BY <1>1
  <2>. QED  BY <1>1, <2>1 DEF PutOffLast, ClearedFirst
<1>2. CASE phase # "dropped"
  <2>1. PICK t : t = ops \o Tail(todo) /\ todo' = t
    BY <1>2
  <2>2. /\ t \in Seq(OpType) /\ Len(ops) \in Nat /\ Len(todo) \in Nat \ {0}
        /\ Len(t) = Len(ops) + Len(todo) - 1
        /\ \A k \in 1..Len(t) :
             IF k <= Len(ops) THEN k \in 1..Len(ops) /\ t[k] = ops[k]
             ELSE k - Len(ops) + 1 \in 2..Len(todo) /\ t[k] = todo[k - Len(ops) + 1]
        /\ ops # <<>> => t # <<>> /\ Head(t) = Head(ops)
    BY <2>1, ThenParts
  <2>3. Head(todo) = todo[1] /\ (ops = <<>> <=> Len(ops) = 0) /\ Len(t) \in Nat
    BY <2>2, EmptySeq
  <2>4. ASSUME NEW k \in 1..Len(t), t[k].op \in {"Queue", "Enqueue"} PROVE k = Len(t)
    <3>1. CASE k <= Len(ops)
      <4>1. k \in 1..Len(ops) /\ t[k] = ops[k]
        BY <2>2, <3>1
      <4>2. k = Len(ops) /\ ops[k] \in Elems(ops)
        BY <2>4, <4>1 DEF PutOffLast, Elems
      <4>3. Head(todo).op \in {"Queue", "Enqueue"}
        BY <2>4, <4>1, <4>2
      <4>4. 1 \in 1..Len(todo) /\ todo[1].op \in {"Queue", "Enqueue"}
        BY <2>2, <2>3, <4>3
      <4>5. 1 = Len(todo)
        BY <4>4 DEF PutOffLast
      <4>6. Len(t) = Len(ops)
        <5>1. Len(ops) + 1 - 1 = Len(ops)
          BY <2>2
        <5>. QED  BY <2>2, <4>5, <5>1, Zenon
      <4>. QED  BY <4>2, <4>6
    <3>2. CASE ~(k <= Len(ops))
      <4>1. k - Len(ops) + 1 \in 1..Len(todo) /\ t[k] = todo[k - Len(ops) + 1]
        BY <2>2, <3>2
      <4>2. k - Len(ops) + 1 = Len(todo)
        BY <2>4, <4>1 DEF PutOffLast
      <4>. QED  BY <2>2, <4>2
    <3>. QED  BY <3>1, <3>2
  <2>5. ASSUME NEW k \in 1..Len(t), t[k].op = "Reserve"
        PROVE  /\ k > Len(ops) /\ k - Len(ops) + 1 \in 2..Len(todo) /\ t[k] = todo[k - Len(ops) + 1]
               /\ todo[(k - Len(ops) + 1) - 1] = Op("Replace", t[k].path)
    <3>1. CASE k <= Len(ops)
      <4>1. k \in 1..Len(ops) /\ t[k] = ops[k] /\ ops[k] \in Elems(ops)
        BY <2>2, <3>1 DEF Elems
      <4>. QED  BY <2>5, <4>1
    <3>2. CASE ~(k <= Len(ops))
      <4>1. k - Len(ops) + 1 \in 2..Len(todo) /\ t[k] = todo[k - Len(ops) + 1]
        BY <2>2, <3>2
      <4>. QED  BY <2>2, <2>5, <3>2, <4>1 DEF ClearedFirst
    <3>. QED  BY <3>1, <3>2
  <2>6. ASSUME NEW k \in 1..Len(t), t[k].op = "Reserve", k = Len(ops) + 1
        PROVE  Head(todo) = Op("Replace", t[k].path) /\ k = 1
    <3>1. (k - Len(ops) + 1) - 1 = 1
      BY <2>2, <2>6
    <3>2. Head(todo) = Op("Replace", t[k].path)
      BY <2>3, <2>5, <2>6, <3>1
    <3>3. Head(todo).op = "Replace"
      BY <3>2 DEF Op
    <3>. QED  BY <2>3, <2>6, <3>2, <3>3
  <2>7. ASSUME NEW k \in 2..Len(t), t[k].op = "Reserve" PROVE t[k - 1] = Op("Replace", t[k].path)
    <3>1. k \in 1..Len(t) /\ k - 1 \in 1..Len(t)
      BY <2>3
    <3>2. k > Len(ops) /\ k # Len(ops) + 1
      BY <2>5, <2>6, <2>7, <3>1
    <3>3. ~(k - 1 <= Len(ops)) /\ (k - 1) - Len(ops) + 1 = (k - Len(ops) + 1) - 1
      BY <2>2, <3>1, <3>2
    <3>4. t[k - 1] = todo[(k - 1) - Len(ops) + 1]
      BY <2>2, <3>1, <3>3
    <3>. QED  BY <2>5, <2>7, <3>1, <3>3, <3>4
  <2>8. ASSUME t # <<>>, Head(t).op = "Reserve" PROVE Head(todo) = Op("Replace", Head(t).path)
    <3>1. 1 \in 1..Len(t) /\ Head(t) = t[1]
      BY <2>2, <2>8, EmptySeq
    <3>2. 1 > Len(ops)
      BY <2>5, <2>8, <3>1
    <3>3. 1 = Len(ops) + 1
      BY <2>2, <3>2
    <3>. QED  BY <2>6, <2>8, <3>1, <3>3
  <2>. QED  BY <1>2, <2>1, <2>2, <2>4, <2>7, <2>8 DEF PutOffLast, ClearedFirst
<1>. QED  BY <1>1, <1>2

LEMMA OrderNone == PutOffLast(<<>>) /\ ClearedFirst(<<>>)
BY DEF PutOffLast, ClearedFirst

LEMMA OrderOne ==
  ASSUME NEW o
  PROVE  PutOffLast(<<o>>) /\ ClearedFirst(<<o>>)
BY DEF PutOffLast, ClearedFirst

(* A row that begins with the batch, puts off nothing and reserves nothing. *)
Steady(s) ==
  /\ s \in Seq(OpType) /\ s # <<>> /\ Head(s).op = "Flush"
  /\ \A e \in Elems(s) : e.op \notin {"Queue", "Enqueue", "Reserve", "MakeLink"}

LEMMA SteadyMore ==
  ASSUME NEW s, Steady(s), NEW t \in Seq(OpType),
         \A e \in Elems(t) : e.op \notin {"Queue", "Enqueue", "Reserve", "MakeLink"}
  PROVE  Steady(s \o t)
<1>1. s \in Seq(OpType) /\ s # <<>>
  BY DEF Steady
<1>2. Elems(s \o t) = Elems(s) \cup Elems(t)
  <2>1. \A x, y \in Seq(OpType) : Elems(x \o y) = Elems(x) \cup Elems(y)
    BY ElemsConcat
  <2>. QED  BY <1>1, <2>1, Zenon
<1>3. s \o t \in Seq(OpType) /\ s \o t # <<>> /\ Head(s \o t) = Head(s)
  <2>1. /\ s \o t \in Seq(OpType) /\ Len(s \o t) = Len(s) + Len(t)
        /\ \A k \in 1..(Len(s) + Len(t)) : (s \o t)[k] = IF k <= Len(s) THEN s[k] ELSE t[k - Len(s)]
    <3>1. \A x, y \in Seq(OpType) :
            /\ x \o y \in Seq(OpType) /\ Len(x \o y) = Len(x) + Len(y)
            /\ \A k \in 1..(Len(x) + Len(y)) : (x \o y)[k] = IF k <= Len(x) THEN x[k] ELSE y[k - Len(x)]
      BY ConcatProperties
    <3>. QED  BY <1>1, <3>1, Zenon
  <2>2. PICK v : v = s \o t
    OBVIOUS
  <2>3. /\ v \in Seq(OpType) /\ Len(v) = Len(s) + Len(t) /\ Len(s) \in Nat /\ Len(t) \in Nat /\ Len(s) # 0
        /\ \A k \in 1..(Len(s) + Len(t)) : v[k] = IF k <= Len(s) THEN s[k] ELSE t[k - Len(s)]
    BY <1>1, <2>1, <2>2, EmptySeq
  <2>4. v[1] = s[1]
    <3>1. 1 \in 1..(Len(s) + Len(t)) /\ 1 <= Len(s)
      BY <2>3
    <3>. QED  BY <2>3, <3>1, Zenon
  <2>5. v # <<>> /\ Head(v) = v[1] /\ Head(s) = s[1]
    BY <1>1, <2>3, EmptySeq
  <2>. QED  BY <2>2, <2>3, <2>4, <2>5, Zenon
<1>. QED  BY <1>2, <1>3 DEF Steady

LEMMA SteadyOrder ==
  ASSUME NEW s, Steady(s)
  PROVE  PutOffLast(s) /\ ClearedFirst(s)
<1>1. \A k \in 1..Len(s) : s[k] \in Elems(s)
  BY DEF Elems
<1>2. \A k \in 2..Len(s) : k \in 1..Len(s)
  BY DEF Steady
<1>. QED  BY <1>1, <1>2 DEF Steady, PutOffLast, ClearedFirst

(* The one row that reserves a link clears its place first.                *)
LEMMA SteadyReserve ==
  ASSUME NEW s, Steady(s), NEW p \in Paths,
         NEW t, t = (s \o << Op("Replace", p) >>) \o << Op("Reserve", p) >>
  PROVE  PutOffLast(t) /\ ClearedFirst(t) /\ t # <<>> /\ Head(t).op = "Flush"
<1>. DEFINE r == Op("Replace", p)
            v == Op("Reserve", p)
            u == s \o <<r>>
<1>1. r \in OpType /\ v \in OpType /\ r.op = "Replace" /\ v.op = "Reserve" /\ v.path = p
  BY DEF Op, OpType, OpNames
<1>. HIDE DEF r, v
<1>2. Steady(u)
  <2>1. <<r>> \in Seq(OpType) /\ Elems(<<r>>) = {r}
    BY <1>1, ElemsOne
  <2>. QED  BY <1>1, <2>1, SteadyMore
<1>3. s \in Seq(OpType) /\ u \in Seq(OpType) /\ <<v>> \in Seq(OpType) /\ <<r>> \in Seq(OpType)
  BY <1>1, <1>2 DEF Steady
<1>4. \A x \in Seq(OpType) : \A o \in OpType :
        /\ x \o <<o>> \in Seq(OpType) /\ Len(x \o <<o>>) = Len(x) + 1 /\ Len(x) \in Nat
        /\ (x \o <<o>>)[Len(x) + 1] = o
        /\ \A k \in 1..Len(x) : (x \o <<o>>)[k] = x[k]
  OBVIOUS
<1>5. /\ Len(u) = Len(s) + 1 /\ Len(s) \in Nat /\ u[Len(s) + 1] = r
  BY <1>1, <1>3, <1>4, Zenon
<1>6. t = u \o <<v>>
  BY DEF r, v
<1>. HIDE DEF u
<1>7. /\ t \in Seq(OpType) /\ Len(t) = Len(u) + 1 /\ t[Len(u) + 1] = v
      /\ \A k \in 1..Len(u) : t[k] = u[k]
  <2>1. /\ u \o <<v>> \in Seq(OpType) /\ Len(u \o <<v>>) = Len(u) + 1 /\ (u \o <<v>>)[Len(u) + 1] = v
        /\ \A k \in 1..Len(u) : (u \o <<v>>)[k] = u[k]
    BY <1>1, <1>3, <1>4
  <2>. QED  BY <1>6, <2>1
<1>8. Len(u) \in Nat \ {0} /\ Head(u) = u[1] /\ u # <<>>
  BY <1>3, <1>5, EmptySeq
<1>9. ASSUME NEW k \in 1..Len(t), k # Len(u) + 1 PROVE k \in 1..Len(u) /\ t[k] = u[k] /\ u[k] \in Elems(u)
  <2>1. k \in 1..Len(u)
    BY <1>7, <1>8, <1>9
  <2>. QED  BY <1>7, <2>1 DEF Elems
<1>10. \A e \in Elems(u) : e.op \notin {"Queue", "Enqueue", "Reserve", "MakeLink"}
  BY <1>2 DEF Steady
<1>11. PutOffLast(t)
  BY <1>1, <1>7, <1>9, <1>10 DEF PutOffLast
<1>12. ClearedFirst(t)
  <2>. SUFFICES ASSUME NEW k \in 2..Len(t), t[k].op = "Reserve" PROVE t[k - 1] = Op("Replace", t[k].path)
    BY DEF ClearedFirst
  <2>1. k \in 1..Len(t)
    BY <1>7, <1>8
  <2>2. k = Len(u) + 1
    BY <1>9, <1>10, <2>1
  <2>3. k - 1 \in 1..Len(u) /\ k - 1 = Len(s) + 1
    BY <1>5, <1>8, <2>2
  <2>4. t[k - 1] = r
    BY <1>5, <1>7, <2>3, Zenon
  <2>5. t[k] = v
    BY <1>7, <2>2, Zenon
  <2>. QED  BY <1>1, <2>4, <2>5 DEF r
<1>13. t # <<>> /\ Head(t).op = "Flush"
  <2>1. 1 \in 1..Len(t) /\ 1 # Len(u) + 1
    BY <1>7, <1>8
  <2>2. t # <<>> /\ Head(t) = t[1] /\ t[1] = u[1]
    BY <1>7, <1>9, <2>1, EmptySeq
  <2>. QED  BY <1>2, <1>8, <2>2 DEF Steady
<1>. QED  BY <1>11, <1>12, <1>13

(* How the row of a member begins and ends.                                *)
LEMMA ProgramOrder ==
  ASSUME NEW m \in Members
  PROVE  /\ PutOffLast(Program(m)) /\ ClearedFirst(Program(m))
         /\ \/ Program(m) = <<>> \/ Head(Program(m)).op = "Flush"
            \/ /\ Program(m) # <<>> /\ Head(Program(m)).op = "Payload"
               /\ Len(Program(m)) = 2 /\ Program(m)[2].op = "Queue"
<1>. DEFINE p == m.path
            op(n) == Op(n, p)
            flush == <<op("Flush")>>
<1>1. m \in MemberType /\ p \in Paths /\ (p = <<>> => m.kind = "Directory")
  BY ExtractionAssumption DEF MemberType, Paths
<1>2. \A n \in OpNames : op(n) \in OpType /\ op(n).op = n
  BY <1>1 DEF Op, OpType
<1>3. /\ m.kind \in {"File", "Directory", "SymbolicLink", "HardLink"} /\ m.size \in Nat
      /\ BUFFERED_PAYLOAD_MAX_BYTES \in Nat
  BY <1>1, ExtractionAssumption DEF MemberType
<1>4. p # <<>> => Parents(p) \in Seq(OpType) /\ \A e \in Elems(Parents(p)) : e.op = "Parent"
  <2>1. ASSUME p # <<>>
        PROVE  Parents(p) \in Seq(OpType) /\ Elems(Parents(p)) = { Op("Parent", q) : q \in Prefixes(p) }
    BY <1>1, <2>1, ParentsRow
  <2>2. \A q : Op("Parent", q).op = "Parent"
    BY DEF Op
  <2>. QED  BY <2>1, <2>2
<1>. HIDE DEF op
<1>5. Steady(flush)
  BY <1>2, ElemsOne DEF Steady, OpNames
<1>6. \A n \in OpNames : <<op(n)>> \in Seq(OpType) /\ Elems(<<op(n)>>) = {op(n)}
  BY <1>2, ElemsOne
<1>7. \A n, k \in OpNames :
        <<op(n), op(k)>> \in Seq(OpType) /\ \A e \in Elems(<<op(n), op(k)>>) : e.op \in {n, k}
  BY <1>2 DEF Elems
<1>8. \A s : Steady(s) =>
        \A n \in OpNames \ {"Queue", "Enqueue", "Reserve", "MakeLink"} : Steady(s \o <<op(n)>>)
  BY <1>2, <1>6, SteadyMore
<1>9. \A s : Steady(s) /\ p # <<>> => Steady(s \o Parents(p))
  BY <1>4, SteadyMore
<1>10. \A s : Steady(s) =>
         \A n, k \in OpNames \ {"Queue", "Enqueue", "Reserve", "MakeLink"} : Steady(s \o <<op(n), op(k)>>)
  BY <1>7, SteadyMore
<1>11. {"Flush", "Target", "Replace", "Link", "Payload", "Truncate", "Write", "Create", "Directory"}
         \subseteq OpNames \ {"Queue", "Enqueue", "Reserve", "MakeLink"}
  BY DEF OpNames
<1>12. CASE m.kind = "File" /\ m.size <= BUFFERED_PAYLOAD_MAX_BYTES
  <2>1. Program(m) = <<op("Payload"), op("Queue")>>
    <3>1. ~(m.size > BUFFERED_PAYLOAD_MAX_BYTES)
      BY <1>3, <1>12
    <3>. QED  BY <1>12, <3>1 DEF Program, op, p
  <2>2. op("Payload").op = "Payload" /\ op("Queue").op = "Queue"
    BY <1>2 DEF OpNames
  <2>3. /\ Len(Program(m)) = 2 /\ Program(m)[1].op = "Payload" /\ Program(m)[2].op = "Queue"
        /\ Head(Program(m)).op = "Payload" /\ Program(m) # <<>>
    BY <2>1, <2>2
  <2>. QED  BY <2>3 DEF PutOffLast, ClearedFirst
<1>13. ASSUME Steady(Program(m))
       PROVE  PutOffLast(Program(m)) /\ ClearedFirst(Program(m)) /\ Head(Program(m)).op = "Flush"
  BY <1>13, SteadyOrder DEF Steady
<1>14. CASE m.kind = "File" /\ m.size > BUFFERED_PAYLOAD_MAX_BYTES
  <2>1. Program(m) = flush \o Parents(p) \o <<op("Create"), op("Write")>>
    <3>1. ~(m.size <= BUFFERED_PAYLOAD_MAX_BYTES)
      BY <1>3, <1>14
    <3>. QED  BY <1>14, <3>1 DEF Program, op, p, InOrder
  <2>2. Steady(Program(m))
    BY <1>1, <1>5, <1>9, <1>10, <1>11, <1>14, <2>1
  <2>. QED  BY <1>13, <2>2
<1>15. CASE m.kind = "Directory"
  <2>1. Program(m) = flush \o IF p = <<>> THEN <<>> ELSE Parents(p) \o <<op("Directory")>>
    BY <1>15 DEF Program, op, p
  <2>2. CASE p = <<>>
    <3>1. Program(m) = flush
      BY <1>2, <2>1, <2>2, Rows DEF OpNames
    <3>. QED  BY <1>5, <1>13, <3>1
  <2>3. CASE p # <<>>
    <3>1. Program(m) = (flush \o Parents(p)) \o <<op("Directory")>>
      <4>1. PICK s \in Seq(OpType) : s = flush
        BY <1>2, <1>5 DEF Steady, OpNames
      <4>2. PICK t \in Seq(OpType) : t = Parents(p)
        BY <1>4, <2>3
      <4>3. PICK x \in OpType : x = op("Directory")
        BY <1>2 DEF OpNames
      <4>4. Program(m) = s \o (t \o <<x>>)
        <5>. HIDE DEF flush, op
        <5>. QED  BY <2>1, <2>3, <4>1, <4>2, <4>3
      <4>5. s \o (t \o <<x>>) = (s \o t) \o <<x>>
        BY Rows
      <4>. HIDE DEF flush, op
      <4>. QED  BY <4>1, <4>2, <4>3, <4>4, <4>5
    <3>2. Steady(Program(m))
      BY <1>5, <1>8, <1>9, <1>11, <2>3, <3>1
    <3>. QED  BY <1>13, <3>2
  <2>. QED  BY <2>2, <2>3
<1>16. CASE m.kind = "SymbolicLink"
  <2>1. CASE policy.symlinks = "Skip"
    <3>1. Program(m) = <<>>
      BY <1>16, <2>1 DEF Program
    <3>. QED  BY <3>1, OrderNone
  <2>2. CASE policy.symlinks # "Skip"
    <3>. DEFINE s == flush \o <<op("Target")>> \o Parents(p)
    <3>1. Program(m) = (s \o <<Op("Replace", p)>>) \o <<Op("Reserve", p)>>
      BY <1>16, <2>2 DEF Program, op, p, Cleared
    <3>2. Steady(s)
      BY <1>1, <1>5, <1>8, <1>9, <1>11, <1>16
    <3>. HIDE DEF s
    <3>. QED  BY <1>1, <3>1, <3>2, SteadyReserve
  <2>. QED  BY <2>1, <2>2
<1>17. CASE m.kind = "HardLink"
  <2>. DEFINE s == flush \o <<op("Target")>> \o Parents(p) \o <<op("Replace")>> \o <<op("Link")>>
  <2>1. Program(m) = s \o IF m.size = 0 THEN <<op("Payload")>> ELSE <<op("Truncate"), op("Write")>>
    BY <1>17 DEF Program, op, p, Cleared
  <2>2. Steady(s)
    BY <1>1, <1>5, <1>8, <1>9, <1>11, <1>17
  <2>. HIDE DEF s
  <2>3. Steady(Program(m))
    BY <1>8, <1>10, <1>11, <2>1, <2>2
  <2>. QED  BY <1>13, <2>3
<1>. QED  BY <1>3, <1>12, <1>14, <1>15, <1>16, <1>17
-----------------------------------------------------------------------------
(* What is left to do, step by step.                                       *)

(* An operation succeeds, and others take its place.                       *)
Goes(ops) ==
  /\ todo # <<>> /\ Then(ops) /\ ops \in Seq(OpType) /\ PutOffLast(ops)
  /\ \A e \in Elems(ops) :
       /\ e.op # "Reserve"
       /\ e.op \in {"Queue", "Enqueue"} => Head(todo).op \in {"Queue", "Enqueue"}
       /\ e.op = "MakeLink" => Head(todo).op \in {"Validate", "MakeLink"}
  /\ Head(todo).op \in {"Replace", "Payload"} => ops = <<>>
  /\ Head(todo).op = "Queue" => ops # <<>> /\ Head(ops).op \in {"Flush", "Enqueue"}
  /\ Head(todo).op = "Enqueue" => ops = <<>> \/ Head(ops).op = "Flush"

Succeeds == \E ops : Goes(ops)
Fell     == \E error : error # "Pending" /\ FailWith(error)

LEMMA GoesNone ==
  ASSUME todo # <<>>, Then(<<>>), Head(todo).op # "Queue"
  PROVE  Succeeds
<1>1. Goes(<<>>)
  BY NoOps, OrderNone DEF Goes
<1>. QED  BY <1>1 DEF Succeeds

LEMMA FailsFell ==
  ASSUME NEW error, error # "Pending", FailWith(error)
  PROVE  Fell
BY DEF Fell

LEMMA QueueGoes ==
  ASSUME Inv, Queue
  PROVE  Succeeds
<1>1. todo # <<>> /\ Head(todo).op = "Queue"
  BY DEF Queue, Doing
<1>2. Path \in Paths \ {<<>>}
  BY <1>1, Now DEF Closing, Placed, MemberOps, Path
<1>. DEFINE e == Op("Enqueue", Path)
            f == Op("Flush", Path)
            s == <<f>> \o Parents(Path)
<1>3. e \in OpType /\ f \in OpType /\ e.op = "Enqueue" /\ f.op = "Flush"
  BY <1>2 DEF Op, OpType, OpNames
<1>4. Parents(Path) \in Seq(OpType) /\ \A o \in Elems(Parents(Path)) : o.op = "Parent"
  <2>1. PICK p \in Paths \ {<<>>} : p = Path
    BY <1>2
  <2>2. Parents(p) \in Seq(OpType) /\ Elems(Parents(p)) = { Op("Parent", q) : q \in Prefixes(p) }
    BY ParentsRow
  <2>3. \A q : Op("Parent", q).op = "Parent"
    BY DEF Op
  <2>. QED  BY <2>1, <2>2, <2>3
<1>. HIDE DEF e, f
<1>5. ASSUME Then(<<e>>) PROVE Succeeds
  <2>1. Goes(<<e>>)
    <3>1. /\ Elems(<<e>>) = {e} /\ PutOffLast(<<e>>)
          /\ <<e>> \in Seq(OpType) /\ <<e>> # <<>> /\ Head(<<e>>) = e
      BY <1>3, ElemsOne, OrderOne
    <3>. QED  BY <1>1, <1>3, <1>5, <3>1 DEF Goes
  <2>. QED  BY <2>1 DEF Succeeds
<1>6. ASSUME Then(s \o <<e>>) PROVE Succeeds
  <2>1. Steady(<<f>>)
    BY <1>3, ElemsOne DEF Steady
  <2>2. Steady(s)
    BY <1>4, <2>1, SteadyMore
  <2>. HIDE DEF s
  <2>3. /\ s \in Seq(OpType) /\ s # <<>>
        /\ \A o \in Elems(s) : o.op \notin {"Queue", "Enqueue", "Reserve", "MakeLink"}
    BY <2>2 DEF Steady
  <2>4. /\ s \o <<e>> \in Seq(OpType) /\ Len(s \o <<e>>) = Len(s) + 1 /\ Len(s) \in Nat
        /\ (s \o <<e>>)[Len(s) + 1] = e
        /\ \A k \in 1..Len(s) : (s \o <<e>>)[k] = s[k]
    BY <1>3, <2>3
  <2>5. PICK t : t = s \o <<e>>
    OBVIOUS
  <2>6. /\ t \in Seq(OpType) /\ Len(t) = Len(s) + 1 /\ Len(s) \in Nat /\ t[Len(s) + 1] = e
        /\ \A k \in 1..Len(s) : t[k] = s[k]
    BY <2>4, <2>5
  <2>7. ASSUME NEW k \in 1..Len(t)
        PROVE  (k = Len(t) /\ t[k] = e) \/ t[k].op \notin {"Queue", "Enqueue", "Reserve", "MakeLink"}
    <3>1. CASE k = Len(s) + 1
      BY <2>6, <3>1
    <3>2. CASE k # Len(s) + 1
      <4>1. k \in 1..Len(s)
        BY <2>6, <3>2
      <4>2. t[k] = s[k] /\ s[k] \in Elems(s)
        BY <2>6, <4>1 DEF Elems
      <4>. QED  BY <2>3, <4>2
    <3>. QED  BY <3>1, <3>2
  <2>8. PutOffLast(t) /\ \A o \in Elems(t) : o.op \notin {"Reserve", "MakeLink"}
    BY <1>3, <2>7 DEF PutOffLast, Elems
  <2>9. t # <<>> /\ Head(t).op = "Flush"
    <3>1. Len(s) # 0 /\ Head(s) = s[1] /\ Head(t) = t[1] /\ t # <<>>
      BY <2>3, <2>6, EmptySeq
    <3>2. 1 \in 1..Len(s)
      BY <2>6, <3>1
    <3>. QED  BY <2>2, <2>6, <3>1, <3>2 DEF Steady
  <2>10. Goes(t)
    BY <1>1, <1>6, <2>5, <2>6, <2>8, <2>9 DEF Goes
  <2>. QED  BY <2>10 DEF Succeeds
<1>. QED  BY <1>5, <1>6 DEF Queue, e, f

LEMMA EnqueueGoes ==
  ASSUME Inv, Enqueue
  PROVE  Succeeds
<1>1. todo # <<>> /\ Head(todo).op = "Enqueue" /\ Path \in Paths
  BY Now DEF Enqueue, Doing, Closing
<1>2. PICK p \in Paths : p = Path
  BY <1>1
<1>. DEFINE f == Op("Flush", p)
            r == Op("Replace", p)
            e == Op("Enqueue", p)
<1>3. /\ f \in OpType /\ r \in OpType /\ e \in OpType
      /\ f.op = "Flush" /\ r.op = "Replace" /\ e.op = "Enqueue"
  BY DEF Op, OpType, OpNames
<1>4. Then(<<f, r, e>>) \/ Then(<<f, e>>) \/ Then(<<f>>) \/ Then(<<>>)
  BY <1>2 DEF Enqueue
<1>. HIDE DEF f, r, e
<1>5. ASSUME NEW ops \in { <<f, r, e>>, <<f, e>>, <<f>> }, Then(ops) PROVE Succeeds
  <2>0. /\ ops \in Seq(OpType) /\ ops # <<>> /\ Head(ops).op = "Flush"
        /\ \A k \in 1..Len(ops) : ops[k] \in {f, r, e} /\ (ops[k] = e => k = Len(ops))
    <3>1. CASE ops = <<f, r, e>>
      BY <1>3, <3>1
    <3>2. CASE ops = <<f, e>>
      BY <1>3, <3>2
    <3>3. CASE ops = <<f>>
      BY <1>3, <3>3
    <3>. QED  BY <1>5, <3>1, <3>2, <3>3
  <2>1. \A o \in Elems(ops) : o \in {f, r, e}
    BY <2>0 DEF Elems
  <2>2. PutOffLast(ops)
    BY <1>3, <2>0 DEF PutOffLast
  <2>3. Goes(ops)
    BY <1>1, <1>3, <1>5, <2>0, <2>1, <2>2 DEF Goes
  <2>. QED  BY <2>3 DEF Succeeds
<1>. QED  BY <1>1, <1>4, <1>5, GoesNone

LEMMA ClearsGoes ==
  ASSUME todo # <<>>, Head(todo).op \in {"Directory", "Create"}, NEW name \in {"Directory", "Create"},
         NEW p \in Paths, Then(<< Op("Replace", p), Op(name, p) >>)
  PROVE  Succeeds
<1>. DEFINE r == Op("Replace", p)
            d == Op(name, p)
            ops == <<r, d>>
<1>1. r \in OpType /\ d \in OpType /\ r.op = "Replace" /\ d.op = name /\ Then(<<r, d>>)
  BY DEF Op, OpType, OpNames
<1>. HIDE DEF r, d
<1>2. ops \in Seq(OpType) /\ ops # <<>> /\ \A o \in Elems(ops) : o \in {r, d}
  BY <1>1 DEF Elems
<1>3. PutOffLast(ops)
  BY <1>1 DEF PutOffLast
<1>4. Goes(ops)
  BY <1>1, <1>2, <1>3 DEF Goes
<1>. QED  BY <1>4 DEF Succeeds

LEMMA OneGoes ==
  ASSUME todo # <<>>, NEW o \in OpType, o.op \notin {"Queue", "Enqueue", "Reserve"}, Then(<<o>>),
         o.op = "MakeLink" => Head(todo).op = "MakeLink",
         Head(todo).op \notin {"Replace", "Payload", "Queue", "Enqueue"}
  PROVE  Succeeds
<1>1. /\ <<o>> \in Seq(OpType) /\ Elems(<<o>>) = {o} /\ PutOffLast(<<o>>)
  BY ElemsOne, OrderOne
<1>2. Goes(<<o>>)
  BY <1>1 DEF Goes
<1>. QED  BY <1>2 DEF Succeeds

LEMMA ValidateGoes ==
  ASSUME Inv, todo # <<>>, Head(todo).op = "Validate", Then(LinkOps \o << Op("Return", <<>>) >>)
  PROVE  Succeeds
<1>1. LinkOps \in Seq({ o \in OpType : Made(o) })
  BY LinkOpsAre DEF Inv
<1>2. PICK s : s = LinkOps
  OBVIOUS
<1>3. s \in Seq(OpType) /\ \A k \in 1..Len(s) : s[k].op = "MakeLink"
  BY <1>1, <1>2 DEF Made
<1>. DEFINE r == Op("Return", <<>>)
<1>4. r \in OpType /\ r.op = "Return" /\ Then(s \o <<r>>)
  BY <1>2, OnDiskRoot DEF Op, OpType, OpNames
<1>. HIDE DEF r
<1>5. /\ s \o <<r>> \in Seq(OpType) /\ Len(s \o <<r>>) = Len(s) + 1 /\ Len(s) \in Nat
      /\ (s \o <<r>>)[Len(s) + 1] = r
      /\ \A k \in 1..Len(s) : (s \o <<r>>)[k] = s[k]
  BY <1>3, <1>4
<1>6. PICK t : t = s \o <<r>>
  OBVIOUS
<1>7. /\ t \in Seq(OpType) /\ Len(t) = Len(s) + 1 /\ Len(s) \in Nat /\ t[Len(s) + 1] = r
      /\ \A k \in 1..Len(s) : t[k] = s[k]
  BY <1>5, <1>6
<1>8. ASSUME NEW k \in 1..Len(t) PROVE t[k].op \in {"MakeLink", "Return"}
  <2>1. CASE k = Len(s) + 1
    BY <1>4, <1>7, <2>1
  <2>2. CASE k # Len(s) + 1
    <3>1. k \in 1..Len(s)
      BY <1>7, <2>2
    <3>. QED  BY <1>3, <1>7, <3>1
  <2>. QED  BY <2>1, <2>2
<1>9. PutOffLast(t) /\ \A o \in Elems(t) : o.op \in {"MakeLink", "Return"}
  BY <1>8 DEF PutOffLast, Elems
<1>10. Goes(t)
  BY <1>4, <1>6, <1>7, <1>9 DEF Goes
<1>. QED  BY <1>10 DEF Succeeds

(* Every step on the call's own stack: the next member, an operation that  *)
(* succeeds, one that fails, or the return.                                *)
LEMMA StepGoes ==
  ASSUME Inv, Step
  PROVE  \/ NextMember /\ UNCHANGED task
         \/ todo # <<>> /\ UNCHANGED members /\ (Succeeds \/ Fell)
         \/ Return
<1>1. CASE NextMember /\ UNCHANGED task
  BY <1>1
<1>2. CASE Flush /\ UNCHANGED members
  <2>1. todo # <<>> /\ Head(todo).op = "Flush"
    BY <1>2 DEF Flush, Doing
  <2>2. Head(todo) \in OpType
    BY <2>1, TailElems DEF Inv, TypeInv
  <2>3. PICK p \in Paths : p = Path
    BY <2>2 DEF OpType, Path
  <2>4. Op("Await", p) \in OpType /\ Op("Await", p).op = "Await"
    BY DEF Op, OpType, OpNames
  <2>5. Then(<<>>) \/ Then(<<Op("Await", p)>>)
    BY <1>2, <2>3 DEF Flush
  <2>6. Succeeds
    <3>1. CASE Then(<<>>)
      BY <2>1, <3>1, GoesNone
    <3>2. CASE Then(<<Op("Await", p)>>)
      BY <2>1, <2>4, <3>2, OneGoes
    <3>. QED  BY <2>5, <3>1, <3>2
  <2>. QED  BY <1>2, <2>1, <2>6
<1>3. CASE Operation /\ UNCHANGED <<members, task>> /\ ~Return
  <2>1. CASE Then(<<>>) /\ ~Queue
    <3>1. todo # <<>> /\ Head(todo).op # "Queue"
      BY <1>3, <2>1
         DEF Operation, Doing, Payload, Queue, Enqueue, Await, Replace,
             EnsureDirectory, Create, Write, Target, HardLink, Truncate, Reserve, Validate, MakeLink
    <3>. QED  BY <1>3, <2>1, <3>1, GoesNone
  <2>2. todo # <<>>
    BY <1>3 DEF Operation, Doing, Payload, Queue, Enqueue, Await, Replace,
                EnsureDirectory, Create, Write, Target, HardLink, Truncate, Reserve, Validate, MakeLink
  <2>3. CASE Payload \/ Replace \/ Write \/ Target \/ HardLink \/ Truncate \/ Reserve
    <3>1. Then(<<>>) \/ Fell
      BY <2>3 DEF Payload, Replace, Write, Target, HardLink, Truncate, Reserve, Fails, Fell
    <3>2. ~Queue
      BY <2>3 DEF Payload, Replace, Write, Target, HardLink, Truncate, Reserve, Queue, Doing
    <3>. QED  BY <1>3, <2>1, <2>2, <3>1, <3>2
  <2>4. CASE Queue
    BY <1>3, <2>2, <2>4, QueueGoes
  <2>5. CASE Enqueue
    BY <1>3, <2>2, <2>5, EnqueueGoes
  <2>6. CASE Await
    <3>1. Then(<<>>) \/ Fell
      <4>1. task.error \in {"None", "Filesystem", "PathCollision"}
        BY DEF Inv, TypeInv
      <4>. QED  BY <2>6, <4>1 DEF Await, Fell
    <3>2. ~Queue
      BY <2>6 DEF Await, Queue, Doing
    <3>. QED  BY <1>3, <2>1, <2>2, <3>1, <3>2
  <2>7. CASE EnsureDirectory
    <3>1. Head(todo).op \in {"Parent", "Directory"} /\ Path \in Paths
      BY <2>2, <2>7, Now DEF EnsureDirectory, Doing, Closing
    <3>2. PICK p \in Paths : p = Path
      BY <3>1
    <3>3. Then(<<>>) \/ Fell
            \/ (Head(todo).op = "Directory" /\ Then(<< Op("Replace", p), Op("Directory", p) >>))
      BY <2>7, <3>2 DEF EnsureDirectory, Fails, Fell
    <3>4. ~Queue
      BY <3>1 DEF Queue, Doing
    <3>. QED  BY <1>3, <2>1, <2>2, <3>3, <3>4, ClearsGoes
  <2>8. CASE Create
    <3>1. Head(todo).op = "Create" /\ Path \in Paths
      BY <2>2, <2>8, Now DEF Create, Doing, Closing
    <3>2. PICK p \in Paths : p = Path
      BY <3>1
    <3>3. Then(<<>>) \/ Fell \/ Then(<< Op("Replace", p), Op("Create", p) >>)
      BY <2>8, <3>2 DEF Create, Fails, Fell
    <3>4. ~Queue
      BY <3>1 DEF Queue, Doing
    <3>. QED  BY <1>3, <2>1, <2>2, <3>1, <3>3, <3>4, ClearsGoes
  <2>9. CASE Validate
    <3>1. Head(todo).op = "Validate"
      BY <2>9 DEF Validate, Doing
    <3>2. \/ Fell \/ Then(LinkOps \o << Op("Return", <<>>) >>)
      <4>1. Rejected # {} => Verdict(First(Rejected)) # "Pending"
        BY Zenon DEF Verdict
      <4>. QED  BY <2>9, <4>1 DEF Validate, Fell
    <3>. QED  BY <1>3, <2>2, <3>1, <3>2, ValidateGoes
  <2>10. CASE MakeLink
    <3>1. Head(todo).op = "MakeLink" /\ Path \in Paths
      <4>1. Head(todo) \in OpType
        BY <2>2, TailElems DEF Inv, TypeInv
      <4>. QED  BY <2>10, <4>1 DEF MakeLink, Doing, Path, OpType
    <3>2. PICK p \in Paths : p = Path
      BY <3>1
    <3>3. Op("MakeLink", p) \in OpType /\ Op("MakeLink", p).op = "MakeLink"
      BY DEF Op, OpType, OpNames
    <3>4. Then(<<>>) \/ Fell \/ Then(<< Op("MakeLink", p) >>)
      BY <2>10, <3>2 DEF MakeLink, Fails, Fell
    <3>5. ~Queue
      BY <3>1 DEF Queue, Doing
    <3>. QED  BY <1>3, <2>1, <2>2, <3>1, <3>3, <3>4, <3>5, OneGoes
  <2>. QED  BY <1>3, <2>3, <2>4, <2>5, <2>6, <2>7, <2>8, <2>9, <2>10 DEF Operation
<1>. QED  BY <1>1, <1>2, <1>3 DEF Step, Operation

(* The step is that of the first operation left.                           *)
LEMMA StepIs ==
  ASSUME Step, todo # <<>>
  PROVE  /\ Head(todo).op = "Flush" => Flush /\ UNCHANGED members
         /\ Head(todo).op # "Flush" => Operation /\ UNCHANGED <<members, task>>
         /\ Head(todo).op = "Flush" => buffered' = <<>>
         /\ Head(todo).op = "Payload" => Payload
         /\ Head(todo).op = "Queue" => Queue
         /\ Head(todo).op = "Enqueue" => Enqueue
         /\ Head(todo).op = "Await" => Await
         /\ Head(todo).op = "Replace" => Replace
         /\ Head(todo).op \in {"Parent", "Directory"} => EnsureDirectory
         /\ Head(todo).op = "Create" => Create
         /\ Head(todo).op = "Write" => Write
         /\ Head(todo).op = "Target" => Target
         /\ Head(todo).op = "Link" => HardLink
         /\ Head(todo).op = "Truncate" => Truncate
         /\ Head(todo).op = "Reserve" => Reserve
         /\ Head(todo).op = "Validate" => Validate
         /\ Head(todo).op = "MakeLink" => MakeLink
         /\ Head(todo).op = "Return" => Return
BY DEF Step, NextMember, Flush, Operation, Doing, Payload, Queue, Enqueue, Await, Replace,
         EnsureDirectory, Create, Write, Target, HardLink, Truncate, Reserve, Validate, MakeLink, Return

(* The order of what is left, and what is left when a link is reserved.    *)
LEMMA OrderStep ==
  ASSUME Inv, OrderInv, Step
  PROVE  OrderInv' /\ ((Doing("Reserve"))' => todo # <<>> /\ Head(todo) = Op("Replace", Path') /\ ~Fell)
<1>1. todo \in Seq(OpType) /\ members \in Seq(Members)
  BY DEF Inv, TypeInv
<1>2. PutOffLast(todo) /\ ClearedFirst(todo) /\ WaitInv
  BY DEF OrderInv
<1>3. ASSUME todo' \in {<<>>} \cup { <<o>> : o \in OpType } \cup { <<o, d>> : o \in OpType, d \in OpType },
             todo' = <<>> \/ Head(todo').op = "Flush",
             Len(todo') = 2 => todo'[2].op \in {"Return", "Validate"}
      PROVE  OrderInv' /\ ~(Doing("Reserve"))'
  <2>1. PutOffLast(todo') /\ ClearedFirst(todo')
    <3>1. CASE todo' = <<>>
      BY <3>1, OrderNone
    <3>2. ASSUME NEW o \in OpType, todo' = <<o>> PROVE PutOffLast(todo') /\ ClearedFirst(todo')
      BY <3>2, OrderOne
    <3>3. ASSUME NEW o \in OpType, NEW d \in OpType, todo' = <<o, d>>
          PROVE  PutOffLast(todo') /\ ClearedFirst(todo')
      <4>1. Len(<<o, d>>) = 2 /\ <<o, d>>[2] = d /\ Head(<<o, d>>) = o /\ <<o, d>> # <<>> /\ <<o, d>>[1] = o
        OBVIOUS
      <4>2. o.op = "Flush" /\ d.op \in {"Return", "Validate"}
        BY <1>3, <3>3, <4>1
      <4>. QED  BY <3>3, <4>1, <4>2 DEF PutOffLast, ClearedFirst
    <3>. QED  BY <1>3, <3>1, <3>2, <3>3
  <2>. QED  BY <1>3, <2>1 DEF OrderInv, WaitInv, Doing
<1>4. ASSUME Fell PROVE OrderInv' /\ ~(Doing("Reserve"))'
  <2>. DEFINE f == Op("Flush", <<>>)
              r == Op("Return", <<>>)
  <2>1. f \in OpType /\ r \in OpType /\ f.op = "Flush" /\ r.op = "Return"
    BY OnDiskRoot DEF Op, OpType, OpNames
  <2>2. todo' \in {<<>>, <<f, r>>}
    BY <1>4 DEF Fell, FailWith
  <2>. HIDE DEF f, r
  <2>3. Len(<<>>) = 0 /\ Len(<<f, r>>) = 2 /\ <<f, r>>[2] = r /\ Head(<<f, r>>) = f
    OBVIOUS
  <2>4. todo' \in {<<>>} \cup { <<o, d>> : o \in OpType, d \in OpType }
    BY <2>1, <2>2
  <2>5. /\ todo' = <<>> \/ Head(todo').op = "Flush"
        /\ Len(todo') = 2 => todo'[2].op \in {"Return", "Validate"}
    BY <2>1, <2>2, <2>3
  <2>. QED  BY <1>3, <2>4, <2>5
<1>5. CASE NextMember
  <2>0. UNCHANGED <<fs, entries, buffered>> /\ todo = <<>> /\ phase = "running"
    BY <1>5 DEF NextMember, diskVars, rootVars
  <2>1. CASE \E m \in Members : Allowed(m) /\ todo' = Program(m) /\ UNCHANGED <<phase, result>>
    <3>1. PICK m \in Members : todo' = Program(m)
      BY <2>1
    <3>2. /\ PutOffLast(todo') /\ ClearedFirst(todo')
          /\ \/ todo' = <<>> \/ Head(todo').op = "Flush"
             \/ Head(todo').op = "Payload" /\ Len(todo') = 2 /\ todo'[2].op = "Queue"
      BY <3>1, ProgramOrder
    <3>3. OrderInv'
      BY <3>2 DEF OrderInv, WaitInv
    <3>4. ~(Doing("Reserve"))'
      BY <3>2 DEF Doing
    <3>. QED  BY <3>3, <3>4
  <2>2. CASE FailWith("Policy") \/ FailWith("Archive")
    BY <1>4, <2>2, FailsFell
  <2>3. CASE todo' = << Op("Flush", <<>>), Op("Validate", <<>>) >>
    <3>. DEFINE f == Op("Flush", <<>>)
                r == Op("Validate", <<>>)
    <3>1. f \in OpType /\ r \in OpType /\ f.op = "Flush" /\ r.op = "Validate"
      BY OnDiskRoot DEF Op, OpType, OpNames
    <3>2. todo' = <<f, r>>
      BY <2>3
    <3>. HIDE DEF f, r
    <3>3. Len(<<f, r>>) = 2 /\ <<f, r>>[2] = r /\ Head(<<f, r>>) = f
      OBVIOUS
    <3>. QED  BY <1>3, <3>1, <3>2, <3>3
  <2>. QED  BY <1>5, <2>1, <2>2, <2>3 DEF NextMember
<1>6. ASSUME NEW ops, Goes(ops), UNCHANGED members
      PROVE  OrderInv' /\ ((Doing("Reserve"))' => Head(todo) = Op("Replace", Path') /\ ~Fell)
  <2>1. /\ todo # <<>> /\ Then(ops) /\ ops \in Seq(OpType) /\ PutOffLast(ops)
        /\ \A e \in Elems(ops) :
             /\ e.op # "Reserve"
             /\ e.op \in {"Queue", "Enqueue"} => Head(todo).op \in {"Queue", "Enqueue"}
        /\ Head(todo).op \in {"Replace", "Payload"} => ops = <<>>
        /\ Head(todo).op = "Queue" => ops # <<>> /\ Head(ops).op \in {"Flush", "Enqueue"}
        /\ Head(todo).op = "Enqueue" => ops = <<>> \/ Head(ops).op = "Flush"
    BY <1>6 DEF Goes
  <2>2. todo' = (IF phase = "dropped" THEN <<>> ELSE ops \o Tail(todo)) /\ UNCHANGED <<phase, result>>
    BY <2>1 DEF Then
  <2>3. /\ PutOffLast(todo') /\ ClearedFirst(todo')
        /\ todo' # <<>> /\ Head(todo').op = "Reserve" =>
             phase # "dropped" /\ Head(todo) = Op("Replace", Head(todo').path)
        /\ phase # "dropped" /\ ops # <<>> => todo' # <<>> /\ Head(todo') = Head(ops)
    BY <1>1, <1>2, <2>1, <2>2, OrderThen
  <2>4. Len(todo) \in Nat \ {0} /\ Head(todo) = todo[1] /\ Len(Tail(todo)) = Len(todo) - 1
        /\ \A k \in 1..Len(Tail(todo)) : Tail(todo)[k] = todo[k + 1]
        /\ Tail(todo) \in Seq(OpType)
    BY <1>1, <2>1, EmptySeq
  <2>5. ops = <<>> /\ phase # "dropped" => todo' = Tail(todo)
    BY <1>1, <2>1, <2>2, ThenParts
  <2>6. buffered' = buffered \/ buffered' = <<>> \/ Head(todo).op = "Enqueue"
    BY <2>1 DEF Step, NextMember, Flush, Operation, Payload, Queue, Enqueue, Await, Replace,
         EnsureDirectory, Create, Write, Target, HardLink, Truncate, Reserve, Validate, MakeLink, Return,
         Fails, rootVars, Doing
  <2>7. Head(todo).op = "Flush" => buffered' = <<>>
    BY <2>1, StepIs
  <2>8. WaitInv'
    <3>. SUFFICES ASSUME phase' = "running", buffered' # <<>>
                  PROVE  (\/ todo = <<>> \/ Head(todo).op \in {"Flush", "Queue", "Enqueue"}
                          \/ Head(todo).op = "Payload" /\ Len(todo) = 2 /\ todo[2].op = "Queue")'
      BY DEF WaitInv
    <3>1. phase = "running"
      BY <2>2
    <3>2. CASE Head(todo).op = "Enqueue"
      <4>1. CASE ops = <<>>
        <5>1. 1 \in 1..Len(todo) /\ todo[1].op = "Enqueue"
          BY <2>4, <3>2
        <5>2. Len(todo) = 1
          BY <1>2, <5>1 DEF PutOffLast
        <5>3. Tail(todo) = <<>>
          BY <2>4, <5>2, EmptySeq
        <5>. QED  BY <2>5, <3>1, <4>1, <5>3
      <4>2. CASE ops # <<>>
        BY <2>1, <2>3, <3>1, <3>2, <4>2
      <4>. QED  BY <4>1, <4>2
    <3>3. CASE Head(todo).op = "Queue"
      BY <2>1, <2>3, <3>1, <3>3
    <3>4. CASE Head(todo).op = "Payload"
      <4>1. buffered # <<>>
        BY <2>6, <3>4
      <4>2. Len(todo) = 2 /\ todo[2].op = "Queue"
        BY <1>2, <2>1, <3>1, <3>4, <4>1 DEF WaitInv
      <4>3. todo' = Tail(todo)
        BY <2>1, <2>5, <3>1, <3>4
      <4>4. Len(Tail(todo)) = 1 /\ Tail(todo)[1] = todo[2]
        BY <2>4, <4>2
      <4>5. Head(Tail(todo)) = Tail(todo)[1]
        BY <2>4, <4>4
      <4>. QED  BY <4>2, <4>3, <4>4, <4>5
    <3>5. CASE Head(todo).op \notin {"Enqueue", "Queue", "Payload"}
      <4>1. buffered # <<>> /\ Head(todo).op # "Flush"
        BY <2>6, <2>7, <3>5
      <4>. QED  BY <1>2, <2>1, <3>1, <3>5, <4>1 DEF WaitInv
    <3>. QED  BY <3>2, <3>3, <3>4, <3>5
  <2>9. (Doing("Reserve"))' => Head(todo) = Op("Replace", Path')
    BY <2>3 DEF Doing, Path
  <2>. QED  BY <1>4, <2>3, <2>8, <2>9 DEF OrderInv
<1>7. CASE Return
  <2>1. todo' = <<>>
    BY <1>7 DEF Return
  <2>. QED  BY <2>1, OrderNone DEF OrderInv, WaitInv, Doing
<1>8. ASSUME Succeeds, UNCHANGED members, todo # <<>>
      PROVE  OrderInv' /\ ((Doing("Reserve"))' => Head(todo) = Op("Replace", Path') /\ ~Fell)
  BY <1>6, <1>8 DEF Succeeds
<1>9. NextMember => ~(Doing("Reserve"))'
  <2>1. ASSUME NextMember PROVE ~(Doing("Reserve"))'
    BY <1>5, <2>1, ProgramOrder DEF Doing, NextMember, FailWith, Op
  <2>. QED  BY <2>1
<1>. QED  BY <1>4, <1>5, <1>7, <1>8, <1>9, StepGoes
-----------------------------------------------------------------------------
(* The tree.                                                               *)

(* The extraction has met no error, and has not begun to make the links.   *)
Sound ==
  /\ phase = "running" /\ result = "Pending" /\ task.error = "None"
  /\ \A e \in Elems(todo) : e.op # "Return"

Waits(p)  == \E f \in Queued : f.path = p
Doomed(p) == \A f \in Queued : f.path = p => f.replacement = "Disallowed"

(* Every parent is a directory, or was one until a file was queued over it *)
(* that its batch must refuse.                                             *)
Above(p) ==
  \A q \in Prefixes(p) :
    /\ NodeOf(q).type = "Directory" /\ Doomed(q)
    /\ IsDirectory(q) \/ Waits(q)

Holds(p) ==
  /\ StateOf(p).kind = "File" => NodeOf(p).type = "File" \/ Waits(p)
  /\ StateOf(p).kind = "Symlink" => NodeOf(p) = Nothing
  /\ IsDirectory(p) => NodeOf(p).type = "Directory"

TreeInv ==
  Sound =>
    /\ \A p \in DOMAIN entries : Above(p) /\ Holds(p)
    /\ \A f \in Queued : StateOf(f.path).kind = "File"
    /\ task.stage = "created" => NodeOf(Batched.path).type = "File"

(* Nothing is where a link is about to be reserved.                        *)
BareInv ==
  Sound /\ Doing("Reserve") => NodeOf(Path) = Nothing /\ StateOf(Path).kind = "None"

(* The handle kept is for the directory the disk has.                      *)
HandleInv ==
  phase = "running" /\ handle # NoHandle =>
    NodeOf(handle.entry) = Directory(handle.by) /\ ~Waits(handle.entry)

(* A directory is all a directory is.                                      *)
PlainInv == \A q : NodeAt(q).type = "Directory" => NodeAt(q) = Directory(NodeAt(q).by)

(* Where links are made, their parents are directories.                    *)
LinkTree ==
  \A e \in Elems(todo) : e.op = "MakeLink" =>
    e.path # <<>> /\ \A q \in Prefixes(e.path) : NodeOf(q).type = "Directory"

StateInv == OrderInv /\ TreeInv /\ BareInv /\ HandleInv /\ PlainInv /\ LinkTree

LEMMA Apart ==
  ASSUME NamesApart, NEW p \in Paths, NEW q \in Paths, OnDisk(p) = OnDisk(q)
  PROVE  p = q
<1>1. /\ Len(OnDisk(p)) = Len(p) /\ Len(OnDisk(q)) = Len(q) /\ Len(p) \in Nat
      /\ \A k \in 1..Len(p) : OnDisk(p)[k] = Fold[p[k]] /\ p[k] \in DOMAIN Fold
      /\ \A k \in 1..Len(q) : OnDisk(q)[k] = Fold[q[k]] /\ q[k] \in DOMAIN Fold
  BY OnDiskIs DEF Paths
<1>2. Len(p) = Len(q)
  BY <1>1
<1>3. \A k \in 1..Len(p) : p[k] = q[k]
  BY <1>1, <1>2 DEF NamesApart
<1>. QED  BY <1>2, <1>3, SeqEqual DEF Paths

LEMMA NoneQueued ==
  ASSUME buffered = <<>>, task.files = <<>>
  PROVE  Queued = {} /\ \A p : ~Waits(p) /\ Doomed(p)
<1>1. Elems(<<>>) = {}
  BY NoOps
<1>. QED  BY <1>1 DEF Queued, Waits, Doomed

(* An operation on the disk finds nothing in the batch.                    *)
LEMMA Dry ==
  ASSUME Inv, OrderInv, todo # <<>>, phase = "running",
         Head(todo).op \notin Closing \cup {"Return", "Queue", "Enqueue", "Payload"}
  PROVE  buffered = <<>> /\ task.files = <<>> /\ task.stage = "start" /\ Queued = {}
         /\ \A p : ~Waits(p) /\ Doomed(p)
<1>1. task.files = <<>> /\ task.stage = "start"
  BY Now
<1>2. buffered = <<>>
  BY DEF OrderInv, WaitInv, Closing
<1>. QED  BY <1>1, <1>2, NoneQueued

(* Something below a path means a child of the path has a state.           *)
LEMMA ActiveBelow ==
  ASSUME TypeInv, TreeInv, Sound, NEW r \in DOMAIN entries, NEW p \in Paths, p \in Prefixes(r)
  PROVE  HasActiveChildren(p)
<1>1. r \in Paths \ {<<>>}
  BY DEF TypeInv
<1>2. PICK n \in 1..(Len(r) - 1) : p = SubSeq(r, 1, n)
  BY DEF Prefixes
<1>3. Len(r) \in Nat /\ n \in Nat /\ n + 1 \in 1..Len(r) /\ n + 1 \in Nat
  BY <1>1, <1>2 DEF Paths
<1>. DEFINE c == SubSeq(r, 1, n + 1)
<1>4. c \in Paths /\ Len(c) = n + 1 /\ \A k \in 1..(n + 1) : c[k] = r[k]
  BY <1>1, <1>3 DEF Paths
<1>5. Parent(c) = p
  <2>1. c # <<>>
    BY <1>3, <1>4
  <2>. HIDE DEF c
  <2>2. Parent(c) \in Paths /\ Len(Parent(c)) = Len(c) - 1 /\ \A k \in 1..(Len(c) - 1) : Parent(c)[k] = c[k]
    BY <1>4, <2>1, PathParts
  <2>3. Len(Parent(c)) = n /\ \A k \in 1..n : Parent(c)[k] = r[k]
    <3>1. Len(c) - 1 = n /\ \A k \in 1..n : k \in 1..(n + 1)
      BY <1>3, <1>4
    <3>. QED  BY <1>4, <2>2, <3>1
  <2>4. Len(p) = n /\ \A k \in 1..n : p[k] = r[k]
    BY <1>1, <1>2, <1>3 DEF Paths
  <2>. QED  BY <2>2, <2>3, <2>4, SeqEqual DEF Paths
<1>6. c \in DOMAIN entries
  <2>1. CASE n + 1 = Len(r)
    <3>1. c = r
      BY <1>1, <1>4, <2>1, SeqEqual DEF Paths
    <3>. QED  BY <3>1
  <2>2. CASE n + 1 # Len(r)
    <3>1. n + 1 \in 1..(Len(r) - 1)
      BY <1>3, <2>2
    <3>2. c \in Prefixes(r)
      BY <3>1 DEF Prefixes
    <3>. HIDE DEF c
    <3>3. IsDirectory(c) \/ Waits(c)
      BY <3>2 DEF TreeInv, Above
    <3>4. StateOf(c).kind # "None" /\ c # <<>>
      <4>1. c # <<>>
        BY <1>1, <3>2, PathParts
      <4>2. Waits(c) => StateOf(c).kind = "File"
        BY DEF TreeInv, Waits
      <4>. QED  BY <3>3, <4>1, <4>2 DEF IsDirectory
    <3>. QED  BY <3>4 DEF StateOf, Plain
  <2>. QED  BY <2>1, <2>2
<1>. QED  BY <1>5, <1>6 DEF HasActiveChildren

(* The parents of an operation's path are directories, and its place is    *)
(* the path's own.                                                         *)
LEMMA InPlace ==
  ASSUME Inv, StateInv, Sound, todo # <<>>, Head(todo).op \in Settled
  PROVE  /\ \A q \in Prefixes(Path) : NodeOf(q).type = "Directory" /\ IsDirectory(q)
         /\ Spot = OnDisk(Path) /\ SpotNode = NodeOf(Path) /\ Path \in Paths \ {<<>>}
<1>1. /\ Path \in Paths \ {<<>>} /\ \A q \in Prefixes(Path) : IsDirectory(q) /\ NoLink(q)
      /\ handle.at = OnDisk(handle.entry)
  BY Here
<1>2. TypeInv /\ TreeInv /\ HandleInv /\ phase = "running"
  BY DEF Inv, StateInv, Sound
<1>3. ASSUME NEW q \in Prefixes(Path) PROVE NodeOf(q).type = "Directory"
  <2>1. q # <<>> /\ IsDirectory(q)
    BY <1>1, PathParts
  <2>2. q \in DOMAIN entries
    BY <2>1 DEF IsDirectory, StateOf, Plain
  <2>. QED  BY <1>2, <2>1, <2>2 DEF TreeInv, Holds
<1>4. PICK p \in Paths \ {<<>>}, h \in HandleType : p = Path /\ h = handle
  BY <1>1, Here
<1>5. p # <<>> /\ Parent(p) \in Paths /\ (Parent(p) = <<>> \/ Parent(p) \in Prefixes(p))
  BY PathParts
<1>6. ASSUME Parent(p) # <<>>, h.entry # Parent(p) PROVE Head(OnDisk(Parent(p))) # Outside
  <2>1. OnDisk(Parent(p)) \in Seq(Range(Fold)) /\ Len(OnDisk(Parent(p))) = Len(Parent(p))
        /\ \A k \in 1..Len(Parent(p)) : OnDisk(Parent(p))[k] = Fold[Parent(p)[k]]
    BY <1>5, OnDiskIs
  <2>2. /\ Len(Parent(p)) # 0 /\ Len(Parent(p)) \in Nat
        /\ \A k \in 1..Len(Parent(p)) : Parent(p)[k] \in DOMAIN Fold
    BY <1>5, <1>6, EmptySeq DEF Paths
  <2>3. 1 \in 1..Len(Parent(p)) /\ Head(OnDisk(Parent(p))) = OnDisk(Parent(p))[1]
    BY <2>1, <2>2, EmptySeq
  <2>4. Head(OnDisk(Parent(p))) = Fold[Parent(p)[1]] /\ Parent(p)[1] \in DOMAIN Fold
    BY <2>1, <2>2, <2>3
  <2>. QED  BY <2>4, ExtractionAssumption
<1>7. Reached(p, h)
  <2>1. CASE Parent(p) = <<>>
    BY <2>1 DEF Reached
  <2>2. CASE Parent(p) # <<>> /\ h.entry = Parent(p)
    <3>1. handle # NoHandle
      BY <1>4, <2>2 DEF NoHandle
    <3>2. NodeAt(OnDisk(handle.entry)) = Directory(handle.by)
      BY <1>2, <3>1 DEF HandleInv, NodeOf
    <3>. QED  BY <1>4, <2>2, <3>2 DEF Reached
  <2>3. CASE Parent(p) # <<>> /\ h.entry # Parent(p)
    <3>1. NodeAt(OnDisk(Parent(p))).type = "Directory"
          /\ \A q \in Prefixes(Parent(p)) : NodeAt(OnDisk(q)).type # "File"
      BY <1>3, <1>4, <1>5, <2>3, PathParts DEF NodeOf
    <3>. QED  BY <1>6, <2>3, <3>1 DEF Reached
  <2>. QED  BY <2>1, <2>2, <2>3
<1>8. Location(p, h) = OnDisk(p)
  BY <1>1, <1>4, <1>7, LocationIs
<1>9. OnDisk(p) # Nowhere
  BY PlaceIs
<1>10. Spot = OnDisk(Path) /\ Spot # Nowhere
  BY <1>4, <1>8, <1>9 DEF Spot
<1>. QED  BY <1>1, <1>3, <1>10 DEF SpotNode, NodeOf

LEMMA SoundStep ==
  ASSUME Inv, Step, Sound'
  PROVE  Sound /\ ~Fell /\ ~Return
<1>1. TypeInv /\ TaskInv
  BY DEF Inv
<1>2. phase' = "running" /\ result' = "Pending" /\ task'.error = "None"
      /\ \A e \in Elems(todo') : e.op # "Return"
  BY DEF Sound
<1>3. ~Fell /\ ~Return
  BY <1>2 DEF Fell, FailWith, Return
<1>4. CASE NextMember
  <2>1. todo = <<>> /\ phase = "running" /\ Elems(<<>>) = {}
    BY <1>4, NoOps DEF NextMember
  <2>2. result = "Pending" /\ task.error = "None"
    BY <1>1, <2>1 DEF TaskInv, Doing
  <2>. QED  BY <1>3, <2>1, <2>2 DEF Sound
<1>5. ASSUME NEW ops, Goes(ops) PROVE Sound
  <2>1. /\ todo # <<>> /\ ops \in Seq(OpType) /\ UNCHANGED <<phase, result>>
        /\ todo' = IF phase = "dropped" THEN <<>> ELSE ops \o Tail(todo)
    BY <1>5 DEF Goes, Then
  <2>2. phase = "running" /\ result = "Pending" /\ todo \in Seq(OpType)
    BY <1>1, <1>2, <2>1 DEF TypeInv
  <2>3. /\ Elems(todo') = Elems(ops) \cup Elems(Tail(todo))
        /\ Elems(todo) = {Head(todo)} \cup Elems(Tail(todo))
    BY <2>1, <2>2, ElemsThen, TailElems
  <2>4. Head(todo).op # "Return"
    BY <1>3, <2>1, StepIs
  <2>5. task.error = "None"
    <3>1. CASE UNCHANGED task
      BY <1>2, <3>1
    <3>2. CASE ~UNCHANGED task
      <4>1. Head(todo).op = "Flush"
        BY <2>1, <3>2 DEF Step, NextMember, Flush, Doing
      <4>. QED  BY <1>1, <2>2, <4>1 DEF TaskInv, Doing
    <3>. QED  BY <3>1, <3>2
  <2>. QED  BY <1>2, <2>2, <2>3, <2>4, <2>5 DEF Sound
<1>. QED  BY <1>3, <1>4, <1>5, StepGoes DEF Succeeds

LEMMA Branches ==
  ASSUME NEW error, Fails(error), error # "Pending"
  PROVE  Fell
BY DEF Fails, Fell

LEMMA SameNodeOf ==
  ASSUME UNCHANGED fs
  PROVE  \A p : NodeOf(p)' = NodeOf(p)
BY DEF NodeOf, NodeAt

(* A step that touches neither the disk nor the state of a path.           *)
LEMMA QuietTree ==
  ASSUME TreeInv, Sound, UNCHANGED <<fs, entries>>, Queued' = Queued,
         (task.stage = "created")' => task.stage = "created" /\ Batched' = Batched
  PROVE  TreeInv'
<1>1. \A p : NodeOf(p)' = NodeOf(p)
  BY SameNodeOf
<1>2. \A p : StateOf(p)' = StateOf(p)
  BY SameState
<1>3. \A p : (IsDirectory(p)' <=> IsDirectory(p)) /\ (Waits(p)' <=> Waits(p)) /\ (Doomed(p)' <=> Doomed(p))
  BY <1>2 DEF IsDirectory, Waits, Doomed
<1>4. \A p : (Above(p)' <=> Above(p)) /\ (Holds(p)' <=> Holds(p))
  BY <1>1, <1>2, <1>3 DEF Above, Holds
<1>5. (task.stage = "created")' => (NodeOf(Batched.path).type = "File")'
  <2>. SUFFICES ASSUME (task.stage = "created")' PROVE (NodeOf(Batched.path).type = "File")'
    OBVIOUS
  <2>1. PICK p : p = Batched.path
    OBVIOUS
  <2>2. NodeOf(p).type = "File" /\ Batched'.path = p
    BY <2>1 DEF TreeInv
  <2>3. (NodeOf(p).type = "File")'
    BY <1>1, <2>2
  <2>. QED  BY <2>2, <2>3 DEF NodeOf
<1>6. \A f \in Queued' : (StateOf(f.path).kind = "File")'
  BY <1>2 DEF TreeInv
<1>. QED  BY <1>4, <1>5, <1>6 DEF TreeInv

(* A step that changes the place and the state of one path.                *)
LEMMA PlaceTree ==
  ASSUME TypeInv, TreeInv, Sound, NEW p \in Paths \ {<<>>}, \A q \in Prefixes(p) : IsDirectory(q),
         Queued = {}, Queued' = {}, (task.stage # "created")',
         \A q : q # p => StateOf(q)' = StateOf(q),
         DOMAIN entries' \subseteq DOMAIN entries \cup {p},
         \A q \in Paths : q # p => NodeOf(q)' = NodeOf(q),
         \/ (IsDirectory(p) /\ NodeOf(p).type = "Directory")'
         \/ \A r \in DOMAIN entries : p \notin Prefixes(r),
         p \in DOMAIN entries' => Holds(p)'
  PROVE  TreeInv'
<1>0. DOMAIN entries \subseteq Paths \ {<<>>}
  BY DEF TypeInv
<1>1. \A q : ~Waits(q) /\ ~Waits(q)' /\ Doomed(q)'
  BY DEF Waits, Doomed
<1>2. \A q \in Paths : q # p => (IsDirectory(q)' <=> IsDirectory(q))
  BY DEF IsDirectory
<1>3. ASSUME NEW r \in DOMAIN entries' PROVE Above(r)'
  <2>1. r \in Paths \ {<<>>}
    BY <1>0
  <2>. SUFFICES ASSUME NEW q \in Prefixes(r) PROVE (NodeOf(q).type = "Directory" /\ IsDirectory(q))'
    BY <1>1 DEF Above
  <2>2. q \in Paths \ {<<>>}
    BY <2>1, PathParts
  <2>3. CASE q = p
    <3>1. r # p
      BY <2>1, <2>3, PathParts
    <3>. QED  BY <2>3, <3>1
  <2>4. CASE q # p
    <3>1. NodeOf(q).type = "Directory" /\ IsDirectory(q)
      <4>1. CASE r \in DOMAIN entries
        BY <1>1, <4>1 DEF TreeInv, Above
      <4>2. CASE r = p
        <5>1. IsDirectory(q)
          BY <4>2
        <5>2. q \in DOMAIN entries
          BY <2>2, <5>1 DEF IsDirectory, StateOf, Plain
        <5>. QED  BY <5>1, <5>2 DEF TreeInv, Holds
      <4>. QED  BY <4>1, <4>2
    <3>. QED  BY <1>2, <2>2, <2>4, <3>1
  <2>. QED  BY <2>3, <2>4
<1>4. ASSUME NEW r \in DOMAIN entries' PROVE Holds(r)'
  <2>1. CASE r = p
    BY <2>1
  <2>2. CASE r # p
    <3>1. Holds(r) /\ r \in Paths
      BY <1>0, <2>2 DEF TreeInv
    <3>. QED  BY <1>1, <1>2, <2>2, <3>1 DEF Holds
  <2>. QED  BY <2>1, <2>2
<1>. QED  BY <1>3, <1>4 DEF TreeInv

(* Nothing of the archive is below what is no directory.                   *)
LEMMA NothingBelow ==
  ASSUME TreeInv, Sound, NEW p, NodeOf(p).type # "Directory"
  PROVE  \A r \in DOMAIN entries : p \notin Prefixes(r)
BY DEF TreeInv, Above

(* What an operation on a place of its own begins with.                    *)
LEMMA Begin ==
  ASSUME Inv, StateInv, Sound, todo # <<>>, Head(todo).op \in Settled \ {"Enqueue"}
  PROVE  /\ TypeInv /\ DiskInv /\ TreeInv /\ buffered = <<>> /\ task.files = <<>> /\ Queued = {}
         /\ task.stage = "start" /\ Current \in Nat \ {0}
         /\ \E p \in Paths \ {<<>>} : p = Path /\ \A q \in Prefixes(p) : IsDirectory(q)
         /\ OnDisk(Path) # <<>> /\ Spot = OnDisk(Path) /\ Spot # Nowhere /\ SpotNode = NodeOf(Path)
<1>1. TypeInv /\ DiskInv /\ TreeInv /\ OrderInv /\ phase = "running"
  BY DEF Inv, StateInv, Sound
<1>2. buffered = <<>> /\ task.files = <<>> /\ task.stage = "start" /\ Queued = {}
  BY <1>1, Dry DEF Settled, Closing
<1>3. /\ \A q \in Prefixes(Path) : IsDirectory(q)
      /\ Spot = OnDisk(Path) /\ SpotNode = NodeOf(Path) /\ Path \in Paths \ {<<>>}
  BY InPlace
<1>4. OnDisk(Path) # Nowhere /\ OnDisk(Path) # <<>>
  BY <1>3, PlaceIs
<1>5. Current \in Nat \ {0}
  BY Here
<1>. QED  BY <1>1, <1>2, <1>3, <1>4, <1>5

LEMMA Elsewhere ==
  ASSUME NamesApart, NEW p \in Paths, NEW spot, spot = OnDisk(p),
         \A q : q # spot => NodeAt(q)' = NodeAt(q)
  PROVE  \A q \in Paths : q # p => NodeOf(q)' = NodeOf(q)
BY Apart DEF NodeOf

LEMMA StillQueued ==
  ASSUME UNCHANGED <<buffered, task>>
  PROVE  Queued' = Queued
BY DEF Queued

LEMMA ReplaceTree ==
  ASSUME Inv, StateInv, NamesApart, Replace, UNCHANGED task, Sound, ~Fell
  PROVE  TreeInv' /\ \A p : p = Path => (NodeOf(p) = Nothing /\ StateOf(p).kind = "None")'
<1>1. todo # <<>> /\ Head(todo).op = "Replace"
  BY DEF Replace, Doing
<1>2. /\ TypeInv /\ DiskInv /\ TreeInv /\ Queued = {} /\ task.stage = "start"
      /\ Spot = OnDisk(Path) /\ SpotNode = NodeOf(Path) /\ OnDisk(Path) # <<>>
  BY <1>1, Begin DEF Settled
<1>3. PICK p \in Paths \ {<<>>} : p = Path /\ \A q \in Prefixes(p) : IsDirectory(q)
  BY <1>1, Begin DEF Settled
<1>4. ~Fails("Filesystem") /\ ~Fails("PathCollision")
  BY Branches
<1>5. CASE SpotNode = Nothing /\ StateOf(Path).kind = "None" /\ UNCHANGED <<diskVars, rootVars>>
  <2>1. Queued' = Queued /\ UNCHANGED <<fs, entries>>
    BY <1>5, StillQueued DEF diskVars, rootVars
  <2>2. TreeInv'
    BY <1>2, <2>1, QuietTree
  <2>3. NodeOf(p)' = NodeOf(p) /\ StateOf(p)' = StateOf(p)
    BY <2>1, SameNodeOf, SameState
  <2>. QED  BY <1>2, <1>3, <1>5, <2>2, <2>3
<1>6. CASE /\ CanReplace(Path) /\ IF SpotNode = Nothing THEN UNCHANGED fs ELSE Remove(Spot)
           /\ ClearState(Path) /\ UNCHANGED buffered
  <2>1. Queued' = {} /\ (task.stage # "created")'
    BY <1>2, <1>6, StillQueued
  <2>2. /\ \A q : StateOf(q)' = IF q = p THEN Plain("None") ELSE StateOf(q)
        /\ DOMAIN entries' = DOMAIN entries \ {p}
    BY <1>3, <1>6, ClearStateIs
  <2>3. \A q : NodeAt(q)' = IF q = OnDisk(p) THEN Nothing ELSE NodeAt(q)
    <3>1. CASE SpotNode = Nothing
      BY <1>2, <1>3, <1>6, <3>1, SameNode DEF NodeOf
    <3>2. CASE SpotNode # Nothing
      <4>1. Remove(Spot) /\ Spot # <<>>
        BY <1>2, <1>6, <3>2
      <4>. QED  BY <1>2, <1>3, <4>1, RemoveNode
    <3>. QED  BY <3>1, <3>2
  <2>4. \A q \in Paths : q # p => NodeOf(q)' = NodeOf(q)
    BY <2>3, Elsewhere
  <2>5. ~HasActiveChildren(p)
    BY <1>3, <1>6 DEF CanReplace
  <2>6. \A r \in DOMAIN entries : p \notin Prefixes(r)
    BY <1>2, <2>5, ActiveBelow
  <2>7. TreeInv'
    BY <1>2, <1>3, <2>1, <2>2, <2>4, <2>6, PlaceTree
  <2>8. (NodeOf(p) = Nothing /\ StateOf(p).kind = "None")'
    BY <2>2, <2>3 DEF NodeOf, Plain
  <2>. QED  BY <1>3, <2>7, <2>8
<1>. QED  BY <1>4, <1>5, <1>6 DEF Replace

(* Something new where nothing is.                                         *)
LEMMA NewTree ==
  ASSUME Inv, StateInv, NamesApart, Sound, todo # <<>>, Head(todo).op \in Settled \ {"Enqueue"},
         UNCHANGED <<buffered, task>>, NEW node, Put(OnDisk(Path), node), NodeOf(Path) = Nothing,
         NEW state, SetState(Path, state),
         \/ node.type = "File" /\ state.kind = "File"
         \/ node.type = "Directory" /\ state.kind \in DirectoryKinds
  PROVE  TreeInv'
<1>1. /\ TypeInv /\ DiskInv /\ TreeInv /\ Queued = {} /\ task.stage = "start"
      /\ OnDisk(Path) # <<>>
  BY Begin
<1>2. PICK p \in Paths \ {<<>>} : p = Path /\ \A q \in Prefixes(p) : IsDirectory(q)
  BY Begin
<1>3. Queued' = {} /\ (task.stage # "created")'
  BY <1>1, StillQueued
<1>4. /\ \A q : StateOf(q)' = IF q = p THEN state ELSE StateOf(q)
      /\ DOMAIN entries' = DOMAIN entries \cup {p}
  <2>1. p # <<>> /\ SetState(p, state)
    BY <1>2 DEF SetState
  <2>. QED  BY <2>1, SetStateIs
<1>5. \A q : NodeAt(q)' = IF q = OnDisk(p) THEN node ELSE NodeAt(q)
  BY <1>1, <1>2, PutNode
<1>6. \A q \in Paths : q # p => NodeOf(q)' = NodeOf(q)
  BY <1>5, Elsewhere
<1>7. \A r \in DOMAIN entries : p \notin Prefixes(r)
  BY <1>1, <1>2, NothingBelow DEF Nothing
<1>8. Holds(p)'
  <2>1. NodeOf(p)' = node /\ StateOf(p)' = state
    BY <1>4, <1>5 DEF NodeOf
  <2>. QED  BY <2>1 DEF Holds, IsDirectory, DirectoryKinds
<1>. QED  BY <1>1, <1>2, <1>3, <1>4, <1>6, <1>7, <1>8, PlaceTree

LEMMA CreateTree ==
  ASSUME Inv, StateInv, NamesApart, Create, UNCHANGED task, Sound, ~Fell
  PROVE  TreeInv'
<1>1. todo # <<>> /\ Head(todo).op = "Create"
  BY DEF Create, Doing
<1>2. TreeInv /\ task.stage = "start" /\ Spot = OnDisk(Path) /\ SpotNode = NodeOf(Path)
  BY <1>1, Begin DEF Settled
<1>3. ~Fails("Filesystem")
  BY Branches
<1>4. CASE UNCHANGED <<diskVars, rootVars>>
  BY <1>2, <1>4, StillQueued, QuietTree DEF diskVars, rootVars
<1>5. CASE /\ SpotNode = Nothing /\ Put(Spot, File(Current, Current)) /\ SetState(Path, Plain("File"))
           /\ UNCHANGED buffered
  <2>1. PICK node, state : node = File(Current, Current) /\ state = Plain("File")
    OBVIOUS
  <2>2. node.type = "File" /\ state.kind = "File"
    BY <2>1 DEF File, Plain
  <2>. QED  BY <1>1, <1>2, <1>5, <2>1, <2>2, NewTree DEF Settled
<1>. QED  BY <1>3, <1>4, <1>5 DEF Create

LEMMA HardLinkTree ==
  ASSUME Inv, StateInv, NamesApart, HardLink, UNCHANGED task, Sound, ~Fell
  PROVE  TreeInv'
<1>1. todo # <<>> /\ Head(todo).op = "Link"
  BY DEF HardLink, Doing
<1>2. OnDisk(Path) # Nowhere /\ Path \in Paths \ {<<>>} /\ \A q \in Prefixes(Path) : NoLink(q)
  <2>1. Path \in Paths \ {<<>>} /\ \A q \in Prefixes(Path) : NoLink(q)
    BY <1>1, Here DEF Settled
  <2>. QED  BY <2>1, PlaceIs
<1>3. ~Fails("Filesystem")
  BY Branches
<1>4. PICK spot, inode : /\ spot = Location(Path, NoHandle) /\ spot # Nowhere /\ NodeAt(spot) = Nothing
                         /\ Put(spot, File(inode, Current)) /\ SetState(Path, Plain("File"))
                         /\ UNCHANGED buffered
  BY <1>3 DEF HardLink
<1>5. spot = OnDisk(Path)
  BY <1>2, <1>4, NoHandleType, LocationIs
<1>6. PICK node, state : node = File(inode, Current) /\ state = Plain("File")
  OBVIOUS
<1>7. node.type = "File" /\ state.kind = "File"
  BY <1>6 DEF File, Plain
<1>. QED  BY <1>1, <1>4, <1>5, <1>6, <1>7, NewTree DEF Settled, NodeOf

LEMMA ReserveTree ==
  ASSUME Inv, StateInv, NamesApart, Reserve, UNCHANGED task, Sound
  PROVE  TreeInv'
<1>1. todo # <<>> /\ Head(todo).op = "Reserve"
  BY DEF Reserve, Doing
<1>2. /\ TypeInv /\ DiskInv /\ TreeInv /\ Queued = {} /\ task.stage = "start"
  BY <1>1, Begin DEF Settled
<1>3. PICK p \in Paths \ {<<>>} : p = Path /\ \A q \in Prefixes(p) : IsDirectory(q)
  BY <1>1, Begin DEF Settled
<1>4. NodeOf(p) = Nothing
  BY <1>1, <1>3 DEF StateInv, BareInv, Doing
<1>5. PICK state : state.kind = "Symlink" /\ SetState(p, state)
  BY <1>3 DEF Reserve
<1>6. UNCHANGED <<fs, buffered>>
  BY DEF Reserve, diskVars
<1>7. Queued' = {} /\ (task.stage # "created")'
  BY <1>2, <1>6, StillQueued
<1>8. /\ \A q : StateOf(q)' = IF q = p THEN state ELSE StateOf(q)
      /\ DOMAIN entries' = DOMAIN entries \cup {p}
  <2>1. p # <<>> /\ SetState(p, state)
    BY <1>5
  <2>. QED  BY <2>1, SetStateIs
<1>9. \A q : NodeOf(q)' = NodeOf(q)
  BY <1>6, SameNodeOf
<1>10. \A r \in DOMAIN entries : p \notin Prefixes(r)
  BY <1>2, <1>4, NothingBelow DEF Nothing
<1>11. Holds(p)'
  BY <1>4, <1>5, <1>8, <1>9 DEF Holds, IsDirectory
<1>. QED  BY <1>2, <1>3, <1>7, <1>8, <1>9, <1>10, <1>11, PlaceTree

LEMMA EnsureDirectoryTree ==
  ASSUME Inv, StateInv, NamesApart, EnsureDirectory, UNCHANGED task, Sound, ~Fell
  PROVE  TreeInv'
<1>1. todo # <<>> /\ Head(todo).op \in {"Parent", "Directory"}
  BY DEF EnsureDirectory, Doing
<1>2. /\ TypeInv /\ DiskInv /\ TreeInv /\ Queued = {} /\ task.stage = "start"
      /\ Spot = OnDisk(Path) /\ SpotNode = NodeOf(Path) /\ OnDisk(Path) # <<>> /\ Spot # Nowhere
  BY <1>1, Begin DEF Settled
<1>3. PICK p \in Paths \ {<<>>} : p = Path /\ \A q \in Prefixes(p) : IsDirectory(q)
  BY <1>1, Begin DEF Settled
<1>4. ~Fails("Filesystem") /\ ~FailWith("Filesystem")
  BY Branches DEF Fell
<1>5. CASE UNCHANGED <<diskVars, rootVars>>
  BY <1>2, <1>5, StillQueued, QuietTree DEF diskVars, rootVars
<1>6. ASSUME SpotNode = Nothing, Put(Spot, Directory(Current)),
             NEW kind \in DirectoryKinds, SetState(Path, Plain(kind)), UNCHANGED buffered
      PROVE  TreeInv'
  <2>1. PICK node, state : node = Directory(Current) /\ state = Plain(kind)
    OBVIOUS
  <2>2. node.type = "Directory" /\ state.kind \in DirectoryKinds
    BY <2>1 DEF Directory, Plain
  <2>. QED  BY <1>1, <1>2, <1>6, <2>1, <2>2, NewTree DEF Settled
<1>7. CASE /\ IsRealDirectory(Spot) /\ SetState(Path, Plain("AmbientDirectory"))
           /\ UNCHANGED <<fs, buffered>>
  <2>1. PICK state : state = Plain("AmbientDirectory")
    OBVIOUS
  <2>2. state.kind = "AmbientDirectory"
    BY <2>1 DEF Plain
  <2>3. /\ \A q : StateOf(q)' = IF q = p THEN state ELSE StateOf(q)
        /\ DOMAIN entries' = DOMAIN entries \cup {p}
    <3>1. p # <<>> /\ SetState(p, state)
      BY <1>3, <1>7, <2>1 DEF SetState
    <3>. QED  BY <3>1, SetStateIs
  <2>4. \A q : NodeOf(q)' = NodeOf(q)
    BY <1>7, SameNodeOf
  <2>5. NodeOf(p).type = "Directory"
    BY <1>2, <1>3, <1>7 DEF IsRealDirectory, NodeOf
  <2>6. (IsDirectory(p) /\ NodeOf(p).type = "Directory")' /\ (StateOf(p)').kind = "AmbientDirectory"
    BY <2>2, <2>3, <2>4, <2>5 DEF IsDirectory
  <2>7. Holds(p)'
    BY <2>6 DEF Holds
  <2>8. Queued' = {} /\ (task.stage # "created")'
    BY <1>2, <1>7, StillQueued
  <2>. QED  BY <1>2, <1>3, <2>3, <2>4, <2>6, <2>7, <2>8, PlaceTree
<1>. QED  BY <1>4, <1>5, <1>6, <1>7 DEF EnsureDirectory, DirectoryKinds

LEMMA EnqueueTree ==
  ASSUME Inv, StateInv, NamesApart, Enqueue, UNCHANGED task, Sound
  PROVE  TreeInv'
<1>1. todo # <<>> /\ Head(todo).op = "Enqueue"
  BY DEF Enqueue, Doing
<1>2. TypeInv /\ TreeInv /\ task.stage = "start"
  BY <1>1, Now DEF Inv, StateInv, Closing
<1>3. UNCHANGED fs
  BY DEF Enqueue, diskVars
<1>4. CASE UNCHANGED rootVars
  BY <1>2, <1>3, <1>4, StillQueued, QuietTree DEF rootVars
<1>5. ASSUME NEW file, buffered' = Append(buffered, file), SetState(Path, Plain("File")),
             file.path = Path, file.replacement = Replacement(Path), file \in FileType
      PROVE  TreeInv'
  <2>1. PICK p \in Paths \ {<<>>} : p = Path
    BY <1>1, InPlace DEF Settled
  <2>2. \A q \in Prefixes(p) : NodeOf(q).type = "Directory" /\ IsDirectory(q)
    BY <1>1, <2>1, InPlace DEF Settled
  <2>3. Queued' = Queued \cup {file}
    <3>1. buffered \in Seq(FileType)
      BY <1>2 DEF TypeInv
    <3>2. Elems(Append(buffered, file)) = Elems(buffered) \cup {file}
      BY <1>5, <3>1, ElemsAppend
    <3>3. Elems(buffered') = Elems(buffered) \cup {file} /\ Elems(task'.files) = Elems(task.files)
      BY <1>5, <3>2
    <3>. QED  BY <3>3 DEF Queued, Elems
  <2>4. PICK state : state = Plain("File")
    OBVIOUS
  <2>5. /\ \A q : StateOf(q)' = IF q = p THEN state ELSE StateOf(q)
        /\ DOMAIN entries' = DOMAIN entries \cup {p} /\ state.kind = "File"
    <3>1. p # <<>> /\ SetState(p, state) /\ state.kind = "File"
      BY <1>5, <2>1, <2>4 DEF SetState, Plain
    <3>. QED  BY <3>1, SetStateIs
  <2>6. \A q : NodeOf(q)' = NodeOf(q)
    BY <1>3, SameNodeOf
  <2>7. /\ \A q : Waits(q)' <=> Waits(q) \/ q = p
        /\ \A q : q # p => (Doomed(q)' <=> Doomed(q))
        /\ Doomed(p) /\ file.replacement = "Disallowed" => Doomed(p)'
    BY <1>5, <2>1, <2>3 DEF Waits, Doomed
  <2>8. \A q : IsDirectory(q) => Doomed(q)
    BY <1>2 DEF TreeInv, Doomed, IsDirectory
  <2>9. DOMAIN entries \subseteq Paths \ {<<>>}
    BY <1>2 DEF TypeInv
  <2>10. \A q : q # p => (IsDirectory(q)' <=> IsDirectory(q))
    BY <2>5 DEF IsDirectory
  <2>11. ASSUME NEW r \in DOMAIN entries' PROVE Above(r)'
    <3>. SUFFICES ASSUME NEW q \in Prefixes(r)
                  PROVE  (NodeOf(q).type = "Directory" /\ Doomed(q) /\ (IsDirectory(q) \/ Waits(q)))'
      BY DEF Above
    <3>1. NodeOf(q).type = "Directory" /\ Doomed(q) /\ (IsDirectory(q) \/ Waits(q))
      <4>1. CASE r \in DOMAIN entries
        BY <1>2, <4>1 DEF TreeInv, Above
      <4>2. CASE r = p
        BY <2>2, <2>8, <4>2
      <4>. QED  BY <2>5, <4>1, <4>2
    <3>2. (NodeOf(q).type = "Directory")'
      BY <2>6, <3>1
    <3>3. CASE q = p
      <4>1. r \in DOMAIN entries
        BY <2>5, <3>3, PathParts
      <4>2. HasActiveChildren(p)
        BY <1>2, <3>3, <4>1, ActiveBelow
      <4>3. file.replacement = "Disallowed"
        BY <1>5, <2>1, <4>2 DEF Replacement, CanReplace
      <4>. QED  BY <2>7, <3>1, <3>2, <3>3, <4>3
    <3>4. CASE q # p
      BY <2>7, <2>10, <3>1, <3>2, <3>4
    <3>. QED  BY <3>3, <3>4
  <2>12. ASSUME NEW r \in DOMAIN entries' PROVE Holds(r)'
    <3>1. CASE r = p
      BY <2>5, <2>7, <3>1 DEF Holds, IsDirectory
    <3>2. CASE r # p
      <4>1. Holds(r)
        BY <1>2, <2>5, <3>2 DEF TreeInv
      <4>. QED  BY <2>5, <2>6, <2>7, <2>10, <3>2, <4>1 DEF Holds
    <3>. QED  BY <3>1, <3>2
  <2>13. \A f \in Queued' : (StateOf(f.path).kind = "File")'
    <3>1. \A f \in Queued : StateOf(f.path).kind = "File"
      BY <1>2 DEF TreeInv
    <3>. QED  BY <1>5, <2>1, <2>3, <2>5, <3>1
  <2>14. (task.stage # "created")'
    BY <1>2
  <2>. QED  BY <2>11, <2>12, <2>13, <2>14 DEF TreeInv
<1>7. CASE UNCHANGED symlinks /\ SetState(Path, Plain("File"))
           /\ buffered' = Append(buffered, [path |-> Path, size |-> Member.size, by |-> Current,
               handle |-> IF handle.entry = Parent(Path) THEN handle ELSE NoHandle,
               replacement |-> Replacement(Path)])
  <2>1. PICK file : file = [path |-> Path, size |-> Member.size, by |-> Current,
               handle |-> IF handle.entry = Parent(Path) THEN handle ELSE NoHandle,
               replacement |-> Replacement(Path)]
    OBVIOUS
  <2>2. file.path = Path /\ file.replacement = Replacement(Path) /\ buffered' = Append(buffered, file)
    BY <1>7, <2>1
  <2>3. file \in FileType
    <3>1. /\ Path \in Paths \ {<<>>} /\ Current \in Nat \ {0} /\ Member \in MemberType
          /\ handle \in HandleType
      BY <1>1, Here DEF Settled
    <3>2. Replacement(Path) \in {"Disallowed", "ExpectedFile", "Allowed"}
      BY DEF Replacement
    <3>3. Member.size \in Nat
      BY <3>1 DEF MemberType
    <3>. QED  BY <2>1, <3>1, <3>2, <3>3, NoHandleType DEF FileType
  <2>. QED  BY <1>5, <1>7, <2>2, <2>3
<1>. QED  BY <1>4, <1>7 DEF Enqueue

(* The links are made when the tree is no longer spoken of.                *)
LEMMA NoLinkYet ==
  ASSUME Inv, Sound
  PROVE  \A e \in Elems(todo) : e.op # "MakeLink"
BY DEF Inv, LinkInv, Linking, Sound

LEMMA FlushQueued ==
  ASSUME Inv, Flush
  PROVE  Queued' = Queued /\ (task.stage # "created")'
<1>1. task.files = <<>> /\ task.stage = "start"
  BY DEF Flush, Inv, TaskInv, Doing
<1>2. CASE UNCHANGED <<buffered, task>>
  BY <1>1, <1>2, StillQueued
<1>3. CASE task' = [NoTask EXCEPT !.files = buffered] /\ buffered' = <<>>
  <2>1. task'.files = buffered /\ task'.stage = "start"
    BY <1>3 DEF NoTask
  <2>2. Queued' = Elems(<<>>) \cup Elems(buffered)
    <3>1. Elems(buffered') = Elems(<<>>) /\ Elems(task'.files) = Elems(buffered)
      BY <1>3, <2>1
    <3>. QED  BY <3>1 DEF Queued, Elems
  <2>3. Queued = Elems(buffered) \cup Elems(<<>>)
    BY <1>1 DEF Queued
  <2>. QED  BY <2>1, <2>2, <2>3
<1>. QED  BY <1>2, <1>3 DEF Flush

LEMMA StepTree ==
  ASSUME Inv, StateInv, NamesApart, Step, Sound'
  PROVE  TreeInv'
<1>1. Sound /\ ~Fell /\ ~Return
  BY SoundStep
<1>2. TreeInv
  BY DEF StateInv
<1>3. ASSUME UNCHANGED <<diskVars, rootVars, task>> PROVE TreeInv'
  <2>1. UNCHANGED <<fs, entries, buffered>> /\ Batched' = Batched
    BY <1>3 DEF diskVars, rootVars, Batched
  <2>. QED  BY <1>1, <1>2, <1>3, <2>1, StillQueued, QuietTree
<1>4. ~MakeLink
  <2>1. MakeLink => todo # <<>> /\ Head(todo).op = "MakeLink"
    BY DEF MakeLink, Doing
  <2>2. todo # <<>> => Head(todo) \in Elems(todo)
    BY TailElems DEF Inv, TypeInv
  <2>. QED  BY <1>1, <2>1, <2>2, NoLinkYet
<1>5. CASE NextMember /\ UNCHANGED task
  BY <1>3, <1>5 DEF NextMember
<1>6. CASE Flush
  <2>1. UNCHANGED <<fs, entries>>
    BY <1>6 DEF Flush, diskVars
  <2>. QED  BY <1>1, <1>2, <1>6, <2>1, FlushQueued, QuietTree
<1>7. CASE Operation /\ UNCHANGED task
  <2>1. CASE Payload \/ Queue \/ Await \/ Target \/ Validate
    BY <1>3, <1>7, <2>1 DEF Payload, Queue, Await, Target, Validate, Fails
  <2>2. CASE Write \/ Truncate
    <3>1. UNCHANGED <<fs, rootVars>>
      BY <2>2 DEF Write, Truncate, Fails, diskVars
    <3>2. UNCHANGED <<fs, entries, buffered>> /\ Batched' = Batched
      BY <1>7, <3>1 DEF rootVars, Batched
    <3>. QED  BY <1>1, <1>2, <1>7, <3>2, StillQueued, QuietTree
  <2>3. CASE Enqueue
    BY <1>1, <1>7, <2>3, EnqueueTree
  <2>4. CASE Replace
    BY <1>1, <1>7, <2>4, ReplaceTree
  <2>5. CASE EnsureDirectory
    BY <1>1, <1>7, <2>5, EnsureDirectoryTree
  <2>6. CASE Create
    BY <1>1, <1>7, <2>6, CreateTree
  <2>7. CASE HardLink
    BY <1>1, <1>7, <2>7, HardLinkTree
  <2>8. CASE Reserve
    BY <1>1, <1>7, <2>8, ReserveTree
  <2>. QED  BY <1>1, <1>4, <1>7, <2>1, <2>2, <2>3, <2>4, <2>5, <2>6, <2>7, <2>8 DEF Operation
<1>. QED  BY <1>5, <1>6, <1>7 DEF Step

(* A link is reserved where its place was just cleared.                    *)
LEMMA StepBare ==
  ASSUME Inv, StateInv, NamesApart, Step
  PROVE  BareInv'
<1>. SUFFICES ASSUME Sound', (Doing("Reserve"))'
              PROVE  (NodeOf(Path) = Nothing /\ StateOf(Path).kind = "None")'
  BY DEF BareInv
<1>1. Sound /\ ~Fell /\ ~Return
  BY SoundStep
<1>2. todo # <<>> /\ Head(todo) = Op("Replace", Path')
  BY OrderStep DEF StateInv
<1>3. Head(todo).op = "Replace" /\ Path = Path'
  BY <1>2 DEF Op, Path
<1>4. Replace /\ UNCHANGED task
  BY <1>2, <1>3, StepIs
<1>5. PICK p : p = Path
  OBVIOUS
<1>6. (NodeOf(p) = Nothing /\ StateOf(p).kind = "None")'
  BY <1>1, <1>4, <1>5, ReplaceTree
<1>. QED  BY <1>3, <1>5, <1>6 DEF NodeOf, StateOf
-----------------------------------------------------------------------------
(* The task and the tree.                                                  *)

(* A step on a file that waits, with nothing of the archive below it.      *)
LEMMA WrittenTree ==
  ASSUME TypeInv, TreeInv, Sound, UNCHANGED entries, NEW p \in Paths \ {<<>>}, Waits(p),
         Queued' \subseteq Queued, \A g \in Queued : g.path # p => g \in Queued',
         \A q \in Paths : q # p => NodeOf(q)' = NodeOf(q),
         \A r \in DOMAIN entries : p \notin Prefixes(r),
         Waits(p)' \/ (NodeOf(p).type = "File")',
         (task.stage = "created")' => (NodeOf(p).type = "File")' /\ Batched'.path = p
  PROVE  TreeInv'
<1>1. \A q : StateOf(q)' = StateOf(q)
  BY SameState
<1>2. \A q : (IsDirectory(q)' <=> IsDirectory(q)) /\ (Doomed(q) => Doomed(q)')
  BY <1>1 DEF IsDirectory, Doomed
<1>3. \A q : q # p => (Waits(q) => Waits(q)')
  BY DEF Waits
<1>4. StateOf(p).kind = "File"
  BY DEF TreeInv, Waits
<1>5. DOMAIN entries \subseteq Paths \ {<<>>}
  BY DEF TypeInv
<1>6. ASSUME NEW r \in DOMAIN entries PROVE Above(r)'
  <2>. SUFFICES ASSUME NEW q \in Prefixes(r)
                PROVE  (NodeOf(q).type = "Directory" /\ Doomed(q) /\ (IsDirectory(q) \/ Waits(q)))'
    BY DEF Above
  <2>1. q # p /\ q \in Paths
    BY <1>5, PathParts
  <2>2. NodeOf(q).type = "Directory" /\ Doomed(q) /\ (IsDirectory(q) \/ Waits(q))
    BY DEF TreeInv, Above
  <2>. QED  BY <1>2, <1>3, <2>1, <2>2
<1>7. ASSUME NEW r \in DOMAIN entries PROVE Holds(r)'
  <2>1. CASE r = p
    BY <1>1, <1>4, <2>1 DEF Holds, IsDirectory
  <2>2. CASE r # p
    <3>1. Holds(r) /\ r \in Paths
      BY <1>5 DEF TreeInv
    <3>. QED  BY <1>1, <1>2, <1>3, <2>2, <3>1 DEF Holds
  <2>. QED  BY <2>1, <2>2
<1>8. \A f \in Queued' : (StateOf(f.path).kind = "File")'
  <2>1. \A f \in Queued : StateOf(f.path).kind = "File"
    BY DEF TreeInv
  <2>. QED  BY <1>1, <2>1
<1>9. (task.stage = "created")' => (NodeOf(Batched.path).type = "File")'
  BY DEF NodeOf
<1>. QED  BY <1>6, <1>7, <1>8, <1>9 DEF TreeInv

LEMMA TaskTree ==
  ASSUME Inv, StateInv, NamesApart, TaskStep, Sound'
  PROVE  TreeInv'
<1>1. UNCHANGED <<rootVars, cancelled, callVars>> /\ TypeInv /\ TaskInv /\ TreeInv
  BY DEF TaskStep, Inv, StateInv
<1>2. phase = "running" /\ result = "Pending" /\ task'.error = "None"
      /\ (\A e \in Elems(todo) : e.op # "Return") /\ UNCHANGED entries
  BY <1>1 DEF Sound, callVars, rootVars, Elems
<1>3. ~BatchFails("Filesystem") /\ ~BatchFails("PathCollision") /\ ~SkipFiles
  <2>1. ~cancelled
    BY <1>1, <1>2 DEF TaskInv
  <2>. QED  BY <1>2, <2>1 DEF BatchFails, SkipFiles, NoTask
<1>4. task.files # <<>>
  BY <1>1, <1>3 DEF TaskStep, CheckCancellation, GoesOn, ClearLeaf, CreateFile, FillFile, TaskInv
<1>5. /\ task \in TaskType /\ Batched \in FileType /\ Batched \in Queued
      /\ Tail(task.files) \in Seq(FileType)
      /\ Elems(task.files) = {Batched} \cup Elems(Tail(task.files))
      /\ BatchedSpot \in {OnDisk(Batched.path), Nowhere}
  BY <1>4, Writing
<1>6. PICK p \in Paths \ {<<>>} : p = Batched.path
  BY <1>5 DEF FileType
<1>7. Waits(p)
  BY <1>5, <1>6 DEF Waits
<1>8. ASSUME task'.error = task.error PROVE Sound
  BY <1>2, <1>8 DEF Sound
<1>9. ASSUME task'.files = task.files PROVE Queued' = Queued /\ Batched' = Batched
  BY <1>1, <1>9 DEF Queued, rootVars, Elems, Batched
<1>10. OnDisk(p) # <<>>
  BY PlaceIs
<1>11. CASE CheckCancellation
  <2>1. task'.files = task.files /\ task'.error = task.error /\ task'.stage = "checked" /\ UNCHANGED fs
    BY <1>5, <1>11 DEF CheckCancellation, TaskType, diskVars
  <2>. QED  BY <1>1, <1>2, <1>8, <1>9, <2>1, QuietTree
<1>12. CASE ClearLeaf
  <2>1. BatchedNode # Nothing /\ Batched.replacement # "Disallowed" /\ Remove(BatchedSpot)
        /\ task' = [task EXCEPT !.stage = "removed"]
    BY <1>3, <1>12 DEF ClearLeaf
  <2>2. task'.files = task.files /\ task'.error = task.error /\ task'.stage = "removed"
    BY <1>5, <2>1 DEF TaskType
  <2>3. Sound /\ Queued' = Queued
    BY <1>8, <1>9, <2>2
  <2>4. BatchedSpot = OnDisk(p)
    BY <1>5, <1>6, <2>1 DEF BatchedNode
  <2>5. Remove(OnDisk(p))
    BY <2>1, <2>4
  <2>6. \A q : NodeAt(q)' = IF q = OnDisk(p) THEN Nothing ELSE NodeAt(q)
    BY <1>10, <2>5, RemoveNode
  <2>7. \A q \in Paths : q # p => NodeOf(q)' = NodeOf(q)
    BY <2>6, Elsewhere
  <2>8. ~Doomed(p)
    BY <1>5, <1>6, <2>1 DEF Doomed
  <2>9. \A r \in DOMAIN entries : p \notin Prefixes(r)
    BY <1>1, <2>3, <2>8 DEF TreeInv, Above
  <2>10. Waits(p)'
    BY <1>7, <2>3 DEF Waits
  <2>. QED  BY <1>1, <1>2, <1>7, <2>2, <2>3, <2>7, <2>9, <2>10, WrittenTree
<1>13. CASE CreateFile
  <2>1. BatchedSpot # Nowhere /\ BatchedNode = Nothing /\ Put(BatchedSpot, File(Batched.by, Batched.by))
        /\ task' = [task EXCEPT !.stage = "created"]
    BY <1>3, <1>13 DEF CreateFile
  <2>2. task'.files = task.files /\ task'.error = task.error
    BY <1>5, <2>1 DEF TaskType
  <2>3. Sound /\ Queued' = Queued /\ Batched' = Batched
    BY <1>8, <1>9, <2>2
  <2>4. BatchedSpot = OnDisk(p) /\ NodeOf(p) = Nothing
    BY <1>5, <1>6, <2>1 DEF BatchedNode, NodeOf
  <2>5. PICK node : node = File(Batched.by, Batched.by)
    OBVIOUS
  <2>10. node.type = "File"
    BY <2>5 DEF File
  <2>6. \A q : NodeAt(q)' = IF q = OnDisk(p) THEN node ELSE NodeAt(q)
    <3>1. Put(OnDisk(p), node)
      BY <2>1, <2>4, <2>5 DEF Put
    <3>. QED  BY <1>10, <3>1, PutNode
  <2>7. \A q \in Paths : q # p => NodeOf(q)' = NodeOf(q)
    BY <2>6, Elsewhere
  <2>8. \A r \in DOMAIN entries : p \notin Prefixes(r)
    BY <1>1, <2>3, <2>4, NothingBelow DEF Nothing
  <2>9. (NodeOf(p).type = "File")' /\ Batched'.path = p
    BY <1>6, <2>3, <2>6, <2>10 DEF NodeOf
  <2>. QED  BY <1>1, <1>2, <1>7, <2>3, <2>7, <2>8, <2>9, WrittenTree
<1>14. CASE FillFile
  <2>1. task' = [task EXCEPT !.files = Tail(@), !.stage = "start"] /\ UNCHANGED fs /\ task.stage = "created"
    BY <1>3, <1>14 DEF FillFile
  <2>2. task'.files = Tail(task.files) /\ task'.error = task.error /\ task'.stage = "start"
    BY <1>5, <2>1 DEF TaskType
  <2>3. Sound
    BY <1>8, <2>2
  <2>4. NodeOf(p).type = "File"
    BY <1>1, <1>6, <2>1, <2>3 DEF TreeInv
  <2>5. \A q : NodeOf(q)' = NodeOf(q)
    BY <2>1, SameNodeOf
  <2>6. Queued' = Elems(buffered) \cup Elems(Tail(task.files))
    <3>1. Elems(buffered') = Elems(buffered) /\ Elems(task'.files) = Elems(Tail(task.files))
      BY <1>1, <2>2 DEF rootVars
    <3>. QED  BY <3>1 DEF Queued, Elems
  <2>7. Queued' \subseteq Queued /\ \A g \in Queued : g.path # p => g \in Queued'
    BY <1>5, <1>6, <2>6 DEF Queued
  <2>8. \A r \in DOMAIN entries : p \notin Prefixes(r)
    BY <1>1, <2>3, <2>4, NothingBelow
  <2>. QED  BY <1>1, <1>2, <1>7, <2>2, <2>3, <2>4, <2>5, <2>7, <2>8, WrittenTree
<1>. QED  BY <1>3, <1>11, <1>12, <1>13, <1>14 DEF TaskStep
-----------------------------------------------------------------------------
(* The directories of the disk, and the handle of one of them.             *)

DirsKept == \A q : NodeAt(q).type = "Directory" => NodeAt(q)' = NodeAt(q)

LEMMA PutDirs ==
  ASSUME DiskInv, PlainInv, NEW p, NodeAt(p) = Nothing, NEW node, Put(p, node),
         node.type = "Directory" => node = Directory(node.by)
  PROVE  DirsKept /\ PlainInv'
<1>1. p # <<>>
  BY NodeThere
<1>2. \A q : NodeAt(q)' = IF q = p THEN node ELSE NodeAt(q)
  BY <1>1, PutNode
<1>3. NodeAt(p).type # "Directory"
  BY DEF Nothing
<1>4. DirsKept
  BY <1>2, <1>3 DEF DirsKept
<1>5. ASSUME NEW q PROVE (NodeAt(q).type = "Directory" => NodeAt(q) = Directory(NodeAt(q).by))'
  <2>1. CASE q = p
    <3>1. NodeAt(q)' = node
      BY <1>2, <2>1
    <3>. QED  BY <3>1
  <2>2. CASE q # p
    <3>1. NodeAt(q)' = NodeAt(q)
      BY <1>2, <2>2
    <3>. QED  BY <3>1 DEF PlainInv
  <2>. QED  BY <2>1, <2>2
<1>. QED  BY <1>4, <1>5 DEF PlainInv

LEMMA RemovePlain ==
  ASSUME PlainInv, NEW p, p # <<>>, Remove(p)
  PROVE  PlainInv' /\ (NodeAt(p).type # "Directory" => DirsKept)
<1>1. \A q : NodeAt(q)' = IF q = p THEN Nothing ELSE NodeAt(q)
  BY RemoveNode
<1>2. ASSUME NEW q PROVE (NodeAt(q).type = "Directory" => NodeAt(q) = Directory(NodeAt(q).by))'
  <2>1. CASE q = p
    <3>1. NodeAt(q)' = Nothing
      BY <1>1, <2>1
    <3>. QED  BY <3>1 DEF Nothing
  <2>2. CASE q # p
    <3>1. NodeAt(q)' = NodeAt(q)
      BY <1>1, <2>2
    <3>. QED  BY <3>1 DEF PlainInv
  <2>. QED  BY <2>1, <2>2
<1>. QED  BY <1>1, <1>2 DEF PlainInv, DirsKept

LEMMA SamePlain ==
  ASSUME PlainInv, UNCHANGED fs
  PROVE  PlainInv' /\ DirsKept
BY DEF PlainInv, DirsKept, NodeAt

(* The one step that removes a directory.                                  *)
Clears ==
  /\ Replace /\ SpotNode # Nothing /\ SpotNode.type = "Directory" /\ Remove(Spot)
  /\ handle' = HandleWithout(Path) /\ UNCHANGED <<buffered, task>> /\ Then(<<>>)

LEMMA StepPlain ==
  ASSUME Inv, PlainInv, Step
  PROVE  PlainInv' /\ (DirsKept \/ Clears)
<1>1. DiskInv
  BY DEF Inv
<1>2. UNCHANGED fs => PlainInv' /\ DirsKept
  BY SamePlain
<1>3. CASE NextMember \/ Flush
  BY <1>2, <1>3 DEF NextMember, Flush, diskVars
<1>4. CASE Operation /\ UNCHANGED task
  <2>1. CASE \/ Payload \/ Queue \/ Enqueue \/ Await \/ Write \/ Target \/ Truncate
             \/ Reserve \/ Validate \/ Return
    <3>1. UNCHANGED fs
      BY <2>1 DEF Payload, Queue, Enqueue, Await, Write, Target, Truncate, Reserve, Validate, Return,
                  Fails, diskVars
    <3>. QED  BY <1>2, <3>1
  <2>2. CASE Replace
    <3>1. CASE UNCHANGED fs
      BY <1>2, <3>1
    <3>2. CASE ~UNCHANGED fs
      <4>1. /\ SpotNode # Nothing /\ Remove(Spot) /\ Then(<<>>) /\ UNCHANGED buffered
            /\ handle' = IF SpotNode.type = "Directory" THEN HandleWithout(Path) ELSE handle
        BY <2>2, <3>2 DEF Replace, Fails, diskVars
      <4>2. Spot # <<>> /\ SpotNode = NodeAt(Spot)
        BY <4>1 DEF SpotNode, Nowhere
      <4>. QED  BY <1>4, <2>2, <4>1, <4>2, RemovePlain DEF Clears
    <3>. QED  BY <3>1, <3>2
  <2>3. CASE EnsureDirectory
    <3>1. CASE UNCHANGED fs
      BY <1>2, <3>1
    <3>2. CASE ~UNCHANGED fs
      <4>1. Spot # Nowhere /\ SpotNode = Nothing /\ Put(Spot, Directory(Current))
        BY <2>3, <3>2 DEF EnsureDirectory, Fails, diskVars
      <4>2. NodeAt(Spot) = Nothing /\ Directory(Current) = Directory(Directory(Current).by)
        BY <4>1 DEF SpotNode, Directory
      <4>. QED  BY <1>1, <4>1, <4>2, PutDirs
    <3>. QED  BY <3>1, <3>2
  <2>4. CASE Create
    <3>1. CASE UNCHANGED fs
      BY <1>2, <3>1
    <3>2. CASE ~UNCHANGED fs
      <4>1. Spot # Nowhere /\ SpotNode = Nothing /\ Put(Spot, File(Current, Current))
        BY <2>4, <3>2 DEF Create, Fails, diskVars
      <4>2. NodeAt(Spot) = Nothing /\ File(Current, Current).type # "Directory"
        BY <4>1 DEF SpotNode, File
      <4>. QED  BY <1>1, <4>1, <4>2, PutDirs
    <3>. QED  BY <3>1, <3>2
  <2>5. CASE HardLink
    <3>1. CASE UNCHANGED fs
      BY <1>2, <3>1
    <3>2. CASE ~UNCHANGED fs
      <4>1. PICK spot, inode : NodeAt(spot) = Nothing /\ Put(spot, File(inode, Current))
        BY <2>5, <3>2 DEF HardLink, Fails, diskVars
      <4>2. File(inode, Current).type # "Directory"
        BY DEF File
      <4>. QED  BY <1>1, <4>1, <4>2, PutDirs
    <3>. QED  BY <3>1, <3>2
  <2>6. CASE MakeLink
    <3>1. CASE UNCHANGED fs
      BY <1>2, <3>1
    <3>2. CASE SpotNode # Nothing /\ SpotNode.type = "Link" /\ Remove(Spot)
      <4>1. Spot # <<>> /\ SpotNode = NodeAt(Spot)
        BY <3>2 DEF SpotNode, Nowhere
      <4>. QED  BY <3>2, <4>1, RemovePlain
    <3>3. CASE ~UNCHANGED fs /\ ~(SpotNode # Nothing /\ SpotNode.type = "Link" /\ Remove(Spot))
      <4>1. PICK to, by : Spot # Nowhere /\ SpotNode = Nothing /\ Put(Spot, Link(to, by))
        BY <2>6, <3>3 DEF MakeLink, Fails, diskVars
      <4>2. NodeAt(Spot) = Nothing /\ Link(to, by).type # "Directory"
        BY <4>1 DEF SpotNode, Link
      <4>. QED  BY <1>1, <4>1, <4>2, PutDirs
    <3>. QED  BY <3>1, <3>2, <3>3
  <2>. QED  BY <1>4, <2>1, <2>2, <2>3, <2>4, <2>5, <2>6 DEF Operation
<1>. QED  BY <1>3, <1>4 DEF Step

LEMMA SameHandle ==
  ASSUME HandleInv, UNCHANGED <<phase, handle>>, DirsKept, Queued' \subseteq Queued
  PROVE  HandleInv'
<1>. SUFFICES ASSUME phase = "running", handle # NoHandle
              PROVE  (NodeOf(handle.entry) = Directory(handle.by) /\ ~Waits(handle.entry))'
  BY DEF HandleInv
<1>1. PICK p, n : p = handle.entry /\ n = handle.by
  OBVIOUS
<1>2. NodeOf(p) = Directory(n) /\ ~Waits(p)
  BY <1>1 DEF HandleInv
<1>3. (NodeOf(p) = Directory(n) /\ ~Waits(p))'
  BY <1>2 DEF NodeOf, DirsKept, Directory, Waits
<1>. QED  BY <1>1, <1>3 DEF NodeOf, Waits

(* A handle that stays when something happens at another path.             *)
LEMMA OtherHandle ==
  ASSUME HandleInv, TypeInv, UNCHANGED phase, NEW p \in Paths,
         handle' \in {handle, NoHandle}, handle' # NoHandle => handle.entry # p,
         \A q \in Paths : q # p => NodeOf(q)' = NodeOf(q),
         \A f \in Queued' : f \in Queued \/ f.path = p
  PROVE  HandleInv'
<1>. SUFFICES ASSUME phase = "running", handle' # NoHandle
              PROVE  (NodeOf(handle.entry) = Directory(handle.by) /\ ~Waits(handle.entry))'
  BY DEF HandleInv
<1>1. PICK q \in Paths : q = handle.entry
  BY DEF TypeInv, HandleType
<1>2. PICK n : n = handle.by
  OBVIOUS
<1>3. NodeOf(q) = Directory(n) /\ ~Waits(q) /\ q # p
  BY <1>1, <1>2 DEF HandleInv
<1>4. (NodeOf(q) = Directory(n) /\ ~Waits(q))'
  BY <1>3 DEF Waits, Directory
<1>. QED  BY <1>1, <1>2, <1>4 DEF NodeOf, Waits

LEMMA HandleStep ==
  ASSUME Inv, StateInv, NamesApart, Step, Inv'
  PROVE  HandleInv'
<1>. SUFFICES ASSUME phase' = "running" PROVE HandleInv'
  BY DEF HandleInv
<1>1. TypeInv /\ DiskInv /\ HandleInv /\ PlainInv /\ OrderInv
  BY DEF Inv, StateInv
<1>2. UNCHANGED phase /\ phase = "running"
  BY DEF Step, NextMember, Flush, Operation, Payload, Queue, Enqueue, Await, Replace, FailWith, Fails, Then,
         EnsureDirectory, Create, Write, Target, HardLink, Truncate, Reserve, Validate, MakeLink, Return
<1>3. DirsKept \/ Clears
  BY <1>1, StepPlain
<1>4. CASE Clears
  <2>1. todo # <<>> /\ Head(todo).op = "Replace" /\ SpotNode # Nothing
    BY <1>4 DEF Clears, Replace, Doing
  <2>2. PICK p \in Paths \ {<<>>} : p = Path /\ Spot \in {OnDisk(p), Nowhere}
    BY <2>1, Here DEF Settled
  <2>3. Remove(OnDisk(p)) /\ OnDisk(p) # <<>>
    BY <1>4, <2>1, <2>2, PlaceIs DEF Clears, SpotNode
  <2>4. \A q : NodeAt(q)' = IF q = OnDisk(p) THEN Nothing ELSE NodeAt(q)
    BY <2>3, RemoveNode
  <2>5. \A q \in Paths : q # p => NodeOf(q)' = NodeOf(q)
    BY <2>4, Elsewhere
  <2>6. /\ handle' \in {handle, NoHandle} /\ (handle' # NoHandle => handle.entry # p)
        /\ Queued' = Queued
    BY <1>4, <2>2, StillQueued DEF Clears, HandleWithout
  <2>. QED  BY <1>1, <1>2, <2>2, <2>5, <2>6, OtherHandle
<1>5. ASSUME DirsKept, UNCHANGED <<handle, buffered, task>> PROVE HandleInv'
  BY <1>1, <1>2, <1>5, StillQueued, SameHandle
<1>6. CASE DirsKept /\ NextMember /\ UNCHANGED task
  BY <1>5, <1>6 DEF NextMember, rootVars
<1>7. CASE DirsKept /\ Flush
  <2>1. UNCHANGED handle /\ Queued' = Queued
    BY <1>7, FlushQueued DEF Flush
  <2>. QED  BY <1>1, <1>2, <1>7, <2>1, SameHandle
<1>8. CASE DirsKept /\ Operation /\ UNCHANGED task
  <2>1. CASE UNCHANGED <<handle, buffered>>
    BY <1>5, <1>8, <2>1
  <2>2. CASE Enqueue
    <3>1. todo # <<>> /\ Head(todo).op = "Enqueue" /\ UNCHANGED fs
      BY <2>2 DEF Enqueue, Doing, diskVars
    <3>2. PICK p \in Paths \ {<<>>} : p = Path
      BY <3>1, Here DEF Settled
    <3>3. CASE UNCHANGED rootVars
      BY <2>1, <3>3 DEF rootVars
    <3>4. CASE ~UNCHANGED rootVars
      <4>1. PICK file : file = [path |-> Path, size |-> Member.size, by |-> Current,
               handle |-> IF handle.entry = Parent(Path) THEN handle ELSE NoHandle,
               replacement |-> Replacement(Path)]
        OBVIOUS
      <4>2. buffered' = Append(buffered, file) /\ handle' = HandleWithout(Path) /\ file.path = p
        BY <2>2, <3>2, <3>4, <4>1 DEF Enqueue
      <4>3. Elems(buffered') \subseteq Elems(buffered) \cup {file}
        BY <1>1, <4>2 DEF TypeInv, Elems
      <4>4. \A f \in Queued' : f \in Queued \/ f.path = p
        BY <1>8, <4>2, <4>3 DEF Queued, Elems
      <4>5. handle' \in {handle, NoHandle} /\ (handle' # NoHandle => handle.entry # p)
        BY <3>2, <4>2 DEF HandleWithout
      <4>6. \A q : NodeOf(q)' = NodeOf(q)
        BY <3>1, SameNodeOf
      <4>. QED  BY <1>1, <1>2, <4>4, <4>5, <4>6, OtherHandle
    <3>. QED  BY <3>3, <3>4
  <2>3. CASE Replace
    <3>1. todo # <<>> /\ Head(todo).op = "Replace" /\ UNCHANGED buffered
      BY <2>3 DEF Replace, Doing, Fails, rootVars
    <3>2. CASE UNCHANGED handle
      BY <2>1, <3>1, <3>2
    <3>3. CASE ~UNCHANGED handle
      <4>1. handle' = HandleWithout(Path) /\ SpotNode.type = "Directory" /\ Then(<<>>)
            /\ (SpotNode # Nothing => Remove(Spot))
        BY <2>3, <3>3 DEF Replace, Fails, rootVars
      <4>2. SpotNode # Nothing
        BY <4>1 DEF Nothing
      <4>. QED  BY <1>4, <1>8, <2>3, <3>1, <4>1, <4>2 DEF Clears
    <3>. QED  BY <3>2, <3>3
  <2>4. CASE EnsureDirectory
    <3>1. todo # <<>> /\ Head(todo).op \in {"Parent", "Directory"} /\ UNCHANGED buffered
      BY <2>4 DEF EnsureDirectory, Doing, Fails, rootVars
    <3>2. CASE UNCHANGED handle
      BY <2>1, <3>1, <3>2
    <3>3. CASE ~UNCHANGED handle
      <4>1. PICK p \in Paths \ {<<>>} : p = Path /\ Spot \in {OnDisk(p), Nowhere}
        BY <3>1, Here DEF Settled
      <4>2. Queued = {} /\ Queued' = {} /\ ~Waits(p)'
        <5>1. Queued = {}
          BY <1>1, <1>2, <3>1, Dry DEF Closing
        <5>. QED  BY <1>8, <3>1, <5>1, StillQueued DEF Waits
      <4>3. PICK n : /\ handle' = [entry |-> p, at |-> Follow(Spot), by |-> n]
                     /\ \/ Spot # Nowhere /\ Put(Spot, Directory(n))
                        \/ /\ SpotNode # Nothing /\ IsRealDirectory(Spot) /\ UNCHANGED fs
                           /\ n = NodeAt(Follow(Spot)).by
        BY <2>4, <3>3, <4>1 DEF EnsureDirectory, Fails, rootVars
      <4>4. Spot = OnDisk(p) /\ OnDisk(p) # <<>>
        BY <4>1, <4>3, PlaceIs DEF SpotNode
      <4>5. handle' \in HandleType
        BY DEF Inv, TypeInv
      <4>6. PICK q \in Paths : handle'.entry = q /\ handle'.at = OnDisk(q)
        BY <4>5 DEF HandleType
      <4>7. Follow(Spot) = OnDisk(p)
        BY <4>3, <4>6
      <4>8. NodeOf(p)' = Directory(n)
        <5>1. CASE Put(Spot, Directory(n))
          <6>1. PICK node : node = Directory(n)
            OBVIOUS
          <6>2. Put(OnDisk(p), node)
            BY <4>4, <5>1, <6>1
          <6>3. NodeAt(OnDisk(p))' = node
            BY <4>4, <6>2, PutNode
          <6>. QED  BY <6>1, <6>3 DEF NodeOf
        <5>2. CASE IsRealDirectory(Spot) /\ UNCHANGED fs /\ n = NodeAt(Follow(Spot)).by
          <6>1. NodeAt(OnDisk(p)) = Directory(n)
            BY <1>1, <4>4, <4>7, <5>2 DEF PlainInv, IsRealDirectory
          <6>. QED  BY <5>2, <6>1, SameNode DEF NodeOf
        <5>. QED  BY <4>3, <5>1, <5>2
      <4>9. handle'.entry = p /\ handle'.by = n
        BY <4>3
      <4>. QED  BY <4>2, <4>8, <4>9 DEF HandleInv, NodeOf, Waits
    <3>. QED  BY <3>2, <3>3
  <2>5. CASE ~(Enqueue \/ Replace \/ EnsureDirectory)
    <3>1. UNCHANGED <<handle, buffered>>
      BY <1>8, <2>5 DEF Operation, Payload, Queue, Await, Create, Write, Target, HardLink, Truncate,
                        Reserve, Validate, MakeLink, Return, Fails, rootVars
    <3>. QED  BY <2>1, <3>1
  <2>. QED  BY <2>2, <2>3, <2>4, <2>5
<1>. QED  BY <1>3, <1>4, <1>6, <1>7, <1>8 DEF Step
-----------------------------------------------------------------------------
(* Where links are made.                                                   *)

(* Before the links are judged the extraction has met no error.            *)
LEMMA JudgedSound ==
  ASSUME Inv, Doing("Validate")
  PROVE  Sound
<1>1. todo # <<>> /\ Head(todo).op = "Validate" /\ todo \in Seq(OpType)
  BY DEF Doing, Inv, TypeInv
<1>2. phase = "running" /\ result = "Pending" /\ task.error = "None"
  <2>1. phase = "running"
    BY <1>1, OnlyRunning DEF BlockingOps
  <2>. QED  BY <1>1, <2>1, Now DEF Closing
<1>3. ASSUME NEW e \in Elems(todo) PROVE e.op # "Return"
  <2>1. PICK k \in 1..Len(todo) : e = todo[k]
    BY DEF Elems
  <2>2. CASE k = 1
    <3>1. Head(todo) = todo[1]
      BY <1>1, EmptySeq
    <3>. QED  BY <1>1, <2>1, <2>2, <3>1
  <2>3. CASE k # 1
    <3>1. todo[1] \in { todo[j] : j \in 1..(k - 1) } /\ Head(todo) = todo[1]
      BY <1>1, <2>3, EmptySeq
    <3>2. [do |-> todo[k], after |-> { todo[j] : j \in 1..(k - 1) }] \in Left(todo)
      BY DEF Left
    <3>3. Justified(todo[k], { todo[j] : j \in 1..(k - 1) })
      BY <3>2 DEF Inv, RowInv
    <3>. QED  BY <1>1, <3>1, <3>3 DEF Justified, Orderly
  <2>. QED  BY <2>2, <2>3
<1>. QED  BY <1>2, <1>3 DEF Sound

LEMMA SameLinkTree ==
  ASSUME LinkTree, DirsKept, \A e \in Elems(todo') : e.op = "MakeLink" => e \in Elems(todo)
  PROVE  LinkTree'
<1>1. ASSUME NEW e \in Elems(todo'), e.op = "MakeLink", NEW q \in Prefixes(e.path)
      PROVE  (NodeOf(q).type = "Directory")'
  <2>1. NodeOf(q).type = "Directory"
    BY <1>1 DEF LinkTree
  <2>. QED  BY <2>1 DEF DirsKept, NodeOf
<1>2. \A e \in Elems(todo') : e.op = "MakeLink" => e.path # <<>>
  BY DEF LinkTree
<1>. QED  BY <1>1, <1>2 DEF LinkTree, Elems

LEMMA NoLinkTree ==
  ASSUME \A e \in Elems(todo') : e.op # "MakeLink"
  PROVE  LinkTree'
BY DEF LinkTree, Elems

LEMMA LinkTreeStep ==
  ASSUME Inv, StateInv, Step
  PROVE  LinkTree'
<1>1. TypeInv /\ LinkTree /\ PlainInv /\ LinkInv /\ todo \in Seq(OpType)
  BY DEF Inv, StateInv, TypeInv
<1>2. DirsKept \/ Clears
  BY <1>1, StepPlain
<1>3. ASSUME Fell PROVE LinkTree'
  <2>1. todo' = <<>> \/ todo' = << Op("Flush", <<>>), Op("Return", <<>>) >>
    BY <1>3 DEF Fell, FailWith
  <2>2. \A e \in Elems(todo') : e.op # "MakeLink"
    BY <2>1 DEF Elems, Op
  <2>. QED  BY <2>2, NoLinkTree
<1>4. CASE NextMember
  <2>1. CASE \E m \in Members : Allowed(m) /\ todo' = Program(m)
    <3>1. PICK m \in Members : todo' = Program(m)
      BY <2>1
    <3>2. \A e \in Elems(Program(m)) : e.op # "MakeLink"
      BY ProgramPlan
    <3>. QED  BY <3>1, <3>2, NoLinkTree
  <2>2. CASE FailWith("Policy") \/ FailWith("Archive")
    BY <1>3, <2>2, FailsFell
  <2>3. CASE todo' = << Op("Flush", <<>>), Op("Validate", <<>>) >>
    <3>1. \A e \in Elems(todo') : e.op # "MakeLink"
      BY <2>3 DEF Elems, Op
    <3>. QED  BY <3>1, NoLinkTree
  <2>. QED  BY <1>4, <2>1, <2>2, <2>3 DEF NextMember
<1>5. CASE Return
  <2>1. \A e \in Elems(todo') : e.op # "MakeLink"
    BY <1>5, NoOps DEF Return
  <2>. QED  BY <2>1, NoLinkTree
<1>6. ASSUME NEW ops, Goes(ops) PROVE LinkTree'
  <2>1. /\ todo # <<>> /\ ops \in Seq(OpType)
        /\ todo' = (IF phase = "dropped" THEN <<>> ELSE ops \o Tail(todo))
        /\ \A e \in Elems(ops) : e.op = "MakeLink" => Head(todo).op \in {"Validate", "MakeLink"}
    BY <1>6 DEF Goes, Then
  <2>2. Elems(todo') \subseteq Elems(ops) \cup Elems(todo)
    BY <1>1, <2>1, ElemsThen
  <2>3. Head(todo) \in Elems(todo)
    BY <1>1, <2>1, TailElems
  <2>4. CASE Head(todo).op \notin {"Validate", "MakeLink"}
    <3>1. \A e \in Elems(todo') : e.op = "MakeLink" => e \in Elems(todo)
      BY <2>1, <2>2, <2>4
    <3>2. CASE DirsKept
      BY <1>1, <3>1, <3>2, SameLinkTree
    <3>3. CASE Clears
      <4>1. Head(todo).op = "Replace"
        BY <3>3 DEF Clears, Replace, Doing
      <4>2. \A e \in Elems(todo) : e.op # "MakeLink"
        BY <1>1, <2>3, <4>1 DEF LinkInv, Linking, Closing
      <4>3. \A e \in Elems(todo') : e.op # "MakeLink"
        BY <3>1, <4>2
      <4>. QED  BY <4>3, NoLinkTree
    <3>. QED  BY <1>2, <3>2, <3>3
  <2>5. CASE Head(todo).op = "MakeLink"
    <3>1. MakeLink /\ ~Clears
      BY <2>1, <2>5, StepIs DEF Clears, Replace, Doing
    <3>2. Head(todo) \in OpType
      BY <1>1, <2>1, TailElems
    <3>3. Op("MakeLink", Path) = Head(todo)
      BY <2>5, <3>2 DEF Op, OpType, Path
    <3>4. Fell \/ Then(<<>>) \/ Then(<< Head(todo) >>)
      BY <3>1, <3>3 DEF MakeLink, Fails, Fell
    <3>5. CASE Then(<<>>) \/ Then(<< Head(todo) >>)
      <4>1. PICK row \in {<<>>, << Head(todo) >>} :
              todo' = IF phase = "dropped" THEN <<>> ELSE row \o Tail(todo)
        BY <3>5 DEF Then
      <4>2. row \in Seq(OpType) /\ Elems(row) \subseteq {Head(todo)}
        <5>1. << Head(todo) >> \in Seq(OpType) /\ Elems(<< Head(todo) >>) = {Head(todo)}
          BY <3>2, ElemsOne
        <5>. QED  BY <4>1, <5>1, NoOps
      <4>3. Elems(todo') \subseteq Elems(row) \cup Elems(todo)
        BY <1>1, <2>1, <4>1, <4>2, ElemsThen
      <4>4. \A e \in Elems(todo') : e \in Elems(todo)
        BY <2>3, <4>2, <4>3
      <4>. QED  BY <1>1, <1>2, <3>1, <4>4, SameLinkTree
    <3>. QED  BY <1>3, <3>4, <3>5
  <2>6. CASE Head(todo).op = "Validate"
    <3>1. Validate /\ Doing("Validate")
      BY <2>1, <2>6, StepIs DEF Doing
    <3>2. UNCHANGED fs
      BY <3>1 DEF Validate, diskVars
    <3>3. Sound /\ TreeInv
      BY <3>1, JudgedSound DEF StateInv
    <3>4. CASE Fell
      BY <1>3, <3>4
    <3>5. CASE Then(LinkOps \o << Op("Return", <<>>) >>)
      <4>1. LinkOps \in Seq({ o \in OpType : Made(o) })
        BY <1>1, LinkOpsAre
      <4>2. PICK s : s = LinkOps
        OBVIOUS
      <4>3. s \in Seq(OpType) /\ \A e \in Elems(s) : Made(e)
        BY <4>1, <4>2 DEF Elems
      <4>4. PICK r \in OpType : r = Op("Return", <<>>) /\ r.op = "Return"
        <5>1. Op("Return", <<>>) \in OpType /\ Op("Return", <<>>).op = "Return"
          BY OnDiskRoot DEF Op, OpType, OpNames
        <5>. QED  BY <5>1
      <4>5. s \o <<r>> \in Seq(OpType) /\ Elems(s \o <<r>>) = Elems(s) \cup {r}
        <5>1. <<r>> \in Seq(OpType) /\ Elems(<<r>>) = {r}
          BY ElemsOne
        <5>2. \A x, y \in Seq(OpType) : x \o y \in Seq(OpType) /\ Elems(x \o y) = Elems(x) \cup Elems(y)
          BY ElemsConcat, ConcatProperties
        <5>. QED  BY <4>3, <5>1, <5>2
      <4>6. PICK row \in Seq(OpType) : row = s \o <<r>> /\ Elems(row) = Elems(s) \cup {r}
        BY <4>5
      <4>7. todo' = IF phase = "dropped" THEN <<>> ELSE row \o Tail(todo)
        BY <3>5, <4>2, <4>4, <4>6 DEF Then
      <4>8. Elems(todo') \subseteq Elems(row) \cup Elems(todo)
        BY <1>1, <2>1, <4>7, ElemsThen
      <4>9. \A e \in Elems(todo) : e.op # "MakeLink"
        BY <3>3, NoLinkYet
      <4>. SUFFICES ASSUME NEW e \in Elems(todo'), e.op = "MakeLink"
                    PROVE  e.path # <<>> /\ \A q \in Prefixes(e.path) : (NodeOf(q).type = "Directory")'
        BY DEF LinkTree, Elems
      <4>10. Made(e)
        BY <4>3, <4>4, <4>6, <4>8, <4>9
      <4>11. PICK n \in ActiveLinks : e = Op("MakeLink", symlinks[n].path)
        BY <4>10 DEF Made
      <4>12. e.path \in DOMAIN entries
        BY <4>11 DEF ActiveLinks, Op, StateOf, Plain
      <4>13. e.path # <<>> /\ \A q \in Prefixes(e.path) : NodeOf(q).type = "Directory"
        BY <1>1, <3>3, <4>12 DEF TreeInv, Above, TypeInv
      <4>14. \A q : NodeOf(q)' = NodeOf(q)
        BY <3>2, SameNodeOf
      <4>. QED  BY <4>13, <4>14
    <3>6. Fell \/ Then(LinkOps \o << Op("Return", <<>>) >>)
      <4>1. Rejected # {} => Verdict(First(Rejected)) # "Pending"
        BY Zenon DEF Verdict
      <4>. QED  BY <3>1, <4>1 DEF Validate, Fell
    <3>. QED  BY <3>4, <3>5, <3>6
  <2>. QED  BY <2>4, <2>5, <2>6
<1>. QED  BY <1>3, <1>4, <1>5, <1>6, StepGoes DEF Succeeds
-----------------------------------------------------------------------------
(* The tree is what the state of the paths says.                           *)

LEMMA TaskState ==
  ASSUME Inv, StateInv, NamesApart, TaskStep
  PROVE  StateInv'
<1>1. /\ TypeInv /\ DiskInv /\ TaskInv /\ HandleInv /\ PlainInv /\ OrderInv
      /\ UNCHANGED <<rootVars, callVars>>
  BY DEF Inv, StateInv, TaskStep
<1>2. UNCHANGED <<handle, buffered, todo, phase>>
  BY <1>1 DEF rootVars, callVars
<1>3. task.files # <<>>
  BY <1>1 DEF TaskStep, CheckCancellation, GoesOn, ClearLeaf, CreateFile, FillFile, SkipFiles, TaskInv
<1>4. /\ task \in TaskType /\ Batched \in FileType /\ Batched \in Queued
      /\ Elems(task.files) = {Batched} \cup Elems(Tail(task.files))
      /\ BatchedSpot \in {OnDisk(Batched.path), Nowhere}
      /\ (phase = "running" /\ Doing("Await")) \/ (phase = "dropped" /\ todo = <<>>)
      /\ \A e \in Elems(todo) : e.op # "MakeLink"
  BY <1>3, Writing
<1>5. TreeInv'
  <2>1. CASE Sound'
    BY <2>1, TaskTree
  <2>. QED  BY <2>1 DEF TreeInv
<1>6. OrderInv'
  BY <1>1, <1>2 DEF OrderInv, PutOffLast, ClearedFirst, WaitInv
<1>7. BareInv'
  <2>1. ~Doing("Reserve")
    BY <1>4 DEF Doing
  <2>2. ~(Doing("Reserve"))'
    BY <1>2, <2>1 DEF Doing
  <2>. QED  BY <2>2 DEF BareInv
<1>8. LinkTree'
  <2>1. \A e \in Elems(todo') : e.op # "MakeLink"
    BY <1>2, <1>4 DEF Elems
  <2>. QED  BY <2>1, NoLinkTree
<1>9. PICK p \in Paths \ {<<>>} : p = Batched.path
  BY <1>4 DEF FileType
<1>10. OnDisk(p) # <<>>
  BY PlaceIs
<1>11. Queued' \subseteq Queued
  <2>1. task'.files \in {<<>>, task.files, Tail(task.files)}
    <3>1. /\ \A stage : [task EXCEPT !.stage = stage].files = task.files
          /\ [task EXCEPT !.files = Tail(@), !.stage = "start"].files = Tail(task.files)
          /\ NoTask.files = <<>> /\ \A error : [NoTask EXCEPT !.error = error].files = <<>>
      BY <1>4 DEF NoTask, TaskType
    <3>2. CASE \E stage : task' = [task EXCEPT !.stage = stage]
      BY <3>1, <3>2
    <3>3. CASE task' = [task EXCEPT !.files = Tail(@), !.stage = "start"]
      BY <3>1, <3>3
    <3>4. CASE task' = NoTask \/ \E error : task' = [NoTask EXCEPT !.error = error]
      BY <3>1, <3>4
    <3>. QED
      BY <3>2, <3>3, <3>4
         DEF TaskStep, CheckCancellation, ClearLeaf, CreateFile, FillFile, SkipFiles, BatchFails
  <2>2. Elems(task'.files) \subseteq Elems(task.files)
    BY <1>4, <2>1, NoOps
  <2>. QED  BY <1>2, <2>2 DEF Queued, Elems
<1>12. /\ PlainInv'
       /\ \/ DirsKept
          \/ Remove(OnDisk(p))
  <2>1. CASE UNCHANGED fs
    BY <1>1, <2>1, SamePlain
  <2>2. CASE ClearLeaf /\ ~UNCHANGED fs
    <3>1. BatchedNode # Nothing /\ Remove(BatchedSpot)
      BY <2>2 DEF ClearLeaf, BatchFails, diskVars
    <3>2. BatchedSpot = OnDisk(p)
      BY <1>4, <1>9, <3>1 DEF BatchedNode
    <3>3. Remove(OnDisk(p))
      BY <3>1, <3>2
    <3>. QED  BY <1>1, <1>10, <3>3, RemovePlain
  <2>3. CASE CreateFile /\ ~UNCHANGED fs
    <3>1. BatchedSpot # Nowhere /\ BatchedNode = Nothing /\ Put(BatchedSpot, File(Batched.by, Batched.by))
      BY <2>3 DEF CreateFile, BatchFails, diskVars
    <3>2. NodeAt(BatchedSpot) = Nothing /\ File(Batched.by, Batched.by).type # "Directory"
      BY <3>1 DEF BatchedNode, File
    <3>. QED  BY <1>1, <3>1, <3>2, PutDirs
  <2>4. CASE ~ClearLeaf /\ ~CreateFile
    <3>1. UNCHANGED fs
      BY <2>4 DEF TaskStep, CheckCancellation, FillFile, SkipFiles, BatchFails, diskVars
    <3>. QED  BY <2>1, <3>1
  <2>. QED  BY <2>1, <2>2, <2>3, <2>4
<1>13. HandleInv'
  <2>1. CASE DirsKept
    BY <1>1, <1>2, <1>11, <2>1, SameHandle
  <2>2. CASE Remove(OnDisk(p))
    <3>1. \A q : NodeAt(q)' = IF q = OnDisk(p) THEN Nothing ELSE NodeAt(q)
      BY <1>10, <2>2, RemoveNode
    <3>2. \A q \in Paths : q # p => NodeOf(q)' = NodeOf(q)
      BY <3>1, Elsewhere
    <3>3. Waits(p)
      BY <1>4, <1>9 DEF Waits
    <3>4. CASE phase = "running"
      <4>1. handle' # NoHandle => handle.entry # p
        BY <1>1, <1>2, <3>3, <3>4 DEF HandleInv
      <4>. QED  BY <1>1, <1>2, <1>11, <3>2, <4>1, OtherHandle
    <3>5. CASE phase # "running"
      BY <1>2, <3>5 DEF HandleInv
    <3>. QED  BY <3>4, <3>5
  <2>. QED  BY <1>12, <2>1, <2>2
<1>. QED  BY <1>5, <1>6, <1>7, <1>8, <1>12, <1>13 DEF StateInv

LEMMA DropState ==
  ASSUME Inv, StateInv, DropFuture
  PROVE  StateInv'
<1>1. phase' = "dropped" /\ UNCHANGED fs /\ LinkTree /\ PlainInv /\ todo \in Seq(OpType)
  BY DEF DropFuture, StateInv, diskVars, Inv, TypeInv
<1>2. OrderInv'
  <2>1. PutOffLast(todo') /\ ClearedFirst(todo')
    BY OrderNone, OrderOne DEF DropFuture
  <2>. QED  BY <1>1, <2>1 DEF OrderInv, WaitInv
<1>3. TreeInv' /\ BareInv' /\ HandleInv'
  BY <1>1 DEF TreeInv, BareInv, HandleInv, Sound
<1>4. PlainInv' /\ DirsKept
  BY <1>1, SamePlain
<1>5. LinkTree'
  <2>1. Elems(todo') \subseteq Elems(todo)
    <3>1. CASE todo' = <<>>
      BY <3>1, NoOps
    <3>2. CASE todo # <<>> /\ todo' = <<Head(todo)>>
      BY <1>1, <3>2, TailElems, ElemsOne
    <3>. QED  BY <3>1, <3>2 DEF DropFuture
  <2>. QED  BY <1>1, <1>4, <2>1, SameLinkTree
<1>. QED  BY <1>2, <1>3, <1>4, <1>5 DEF StateInv

LEMMA StepState ==
  ASSUME Inv, StateInv, NamesApart, Step, Inv'
  PROVE  StateInv'
<1>1. OrderInv'
  BY OrderStep DEF StateInv
<1>2. TreeInv'
  <2>1. CASE Sound'
    BY <2>1, StepTree
  <2>. QED  BY <2>1 DEF TreeInv
<1>3. BareInv'
  BY StepBare
<1>4. HandleInv'
  BY HandleStep
<1>5. PlainInv'
  BY StepPlain DEF StateInv
<1>6. LinkTree'
  BY LinkTreeStep
<1>. QED  BY <1>1, <1>2, <1>3, <1>4, <1>5, <1>6 DEF StateInv

LEMMA StateKept ==
  ASSUME StateInv, UNCHANGED extractionVars
  PROVE  StateInv'
<1>1. UNCHANGED <<fs, entries, handle, buffered, task, todo, phase, result>>
  BY DEF extractionVars, diskVars, rootVars, callVars
<1>2. /\ \A p : NodeOf(p)' = NodeOf(p)
      /\ \A p : StateOf(p)' = StateOf(p)
      /\ Queued' = Queued /\ (Sound' <=> Sound) /\ Path' = Path /\ (Doing("Reserve")' <=> Doing("Reserve"))
      /\ Batched' = Batched /\ Elems(todo') = Elems(todo)
  BY <1>1, SameNodeOf, SameState, StillQueued DEF Sound, Path, Doing, Batched, Elems
<1>3. OrderInv' /\ HandleInv' /\ PlainInv' /\ LinkTree' /\ BareInv' /\ TreeInv'
  <2>1. OrderInv'
    BY <1>1 DEF StateInv, OrderInv, PutOffLast, ClearedFirst, WaitInv
  <2>2. PlainInv' /\ DirsKept
    BY <1>1, SamePlain DEF StateInv
  <2>3. HandleInv'
    BY <1>1, <1>2, <2>2, SameHandle DEF StateInv
  <2>4. LinkTree'
    BY <1>2, <2>2, SameLinkTree DEF StateInv
  <2>5. BareInv'
    BY <1>1, <1>2 DEF StateInv, BareInv, NodeOf, NodeAt, StateOf
  <2>6. TreeInv'
    <3>1. CASE Sound
      BY <1>1, <1>2, <3>1, QuietTree DEF StateInv
    <3>2. CASE ~Sound
      BY <1>2, <3>2 DEF TreeInv
    <3>. QED  BY <3>1, <3>2
  <2>. QED  BY <2>1, <2>2, <2>3, <2>4, <2>5, <2>6
<1>. QED  BY <1>3 DEF StateInv

LEMMA StateInit ==
  ASSUME ExtractionInit
  PROVE  StateInv
<1>1. /\ todo = <<>> /\ entries = <<>> /\ handle = NoHandle /\ buffered = <<>> /\ task = NoTask
      /\ fs \in Destinations
  BY DEF ExtractionInit
<1>2. OrderInv
  BY <1>1, OrderNone DEF OrderInv, WaitInv
<1>3. TreeInv
  <2>1. Queued = {} /\ DOMAIN entries = {} /\ task.stage = "start"
    BY <1>1, NoneQueued DEF NoTask
  <2>. QED  BY <2>1 DEF TreeInv
<1>4. BareInv /\ HandleInv
  BY <1>1 DEF BareInv, HandleInv, Doing
<1>5. PlainInv
  <2>1. \A p \in DOMAIN fs : WasThere(fs[p])
    BY <1>1, ExtractionAssumption
  <2>2. \A p \in DOMAIN fs : fs[p].type = "Directory" => fs[p] = Directory(fs[p].by)
    BY <2>1 DEF WasThere, Directory, File, Link
  <2>. QED  BY <2>2 DEF PlainInv, NodeAt, Nothing, Directory
<1>6. LinkTree
  BY <1>1, NoOps DEF LinkTree
<1>. QED  BY <1>2, <1>3, <1>4, <1>5, <1>6 DEF StateInv

LEMMA StateNext ==
  ASSUME NamesApart, Inv, Inv', StateInv, [ClientNext]_clientVars
  PROVE  StateInv'
<1>1. CASE UNCHANGED clientVars
  BY <1>1, StateKept DEF clientVars
<1>2. CASE ClientNext
  BY <1>2, StepState, TaskState, DropState DEF ClientNext, ExtractionNext
<1>. QED  BY <1>1, <1>2

LEMMA ClientState ==
  ASSUME NamesApart
  PROVE  ClientSpec => [](Inv /\ StateInv)
<1>1. ClientInit => Inv /\ StateInv
  BY InvInit, StateInit DEF ClientInit
<1>2. Inv /\ StateInv /\ [ClientNext]_clientVars => (Inv /\ StateInv)'
  <2>. SUFFICES ASSUME Inv, StateInv, [ClientNext]_clientVars PROVE (Inv /\ StateInv)'
    OBVIOUS
  <2>1. Inv'
    <3>1. CASE UNCHANGED clientVars
      BY <3>1, InvKept DEF clientVars
    <3>2. CASE ClientNext
      BY <3>2, InvNext DEF ClientNext
    <3>. QED  BY <3>1, <3>2
  <2>2. StateInv'
    BY <2>1, StateNext
  <2>. QED  BY <2>1, <2>2
<1>. QED  BY <1>1, <1>2, PTL DEF ClientSpec

(* Whatever the archive, the policy and the destination, where the disk    *)
(* keeps different names apart: between two members the state of the paths *)
(* is what the disk and the batch hold, and the directory handle is that   *)
(* of the directory the disk has now.                                      *)
THEOREM EntriesAreTrue ==
  ASSUME NamesApart
  PROVE  ClientSpec => []EntriesMatchTree
<1>1. ASSUME Inv, StateInv PROVE EntriesMatchTree
  <2>1. TypeInv /\ TaskInv /\ TreeInv /\ HandleInv
    BY <1>1 DEF Inv, StateInv
  <2>2. ASSUME phase = "running", handle # NoHandle
        PROVE  handle.at = OnDisk(handle.entry) /\ NodeAt(handle.at) = Directory(handle.by)
    <3>1. handle.at = OnDisk(handle.entry)
      BY <2>1 DEF TypeInv, HandleType
    <3>. QED  BY <2>1, <2>2, <3>1 DEF HandleInv, NodeOf
  <2>3. ASSUME AtBoundary, NEW p \in DOMAIN entries
        PROVE  /\ \A q \in Prefixes(p) :
                    IsDirectory(q) \/ \E n \in 1..Len(buffered) :
                                        buffered[n].path = q /\ buffered[n].replacement = "Disallowed"
               /\ entries[p].kind = "File" =>
                    NodeAt(OnDisk(p)).type = "File" \/ \E n \in 1..Len(buffered) : buffered[n].path = p
               /\ entries[p].kind = "Symlink" => NodeAt(OnDisk(p)).type = "Nothing"
               /\ entries[p].kind \notin {"File", "Symlink"} => NodeAt(OnDisk(p)).type = "Directory"
    <3>1. phase = "running" /\ todo = <<>> /\ Elems(todo) = {}
      BY <2>3, NoOps DEF AtBoundary
    <3>2. result = "Pending" /\ task.error = "None" /\ task.files = <<>>
      BY <2>1, <3>1 DEF TaskInv, Doing
    <3>3. Sound
      BY <3>1, <3>2 DEF Sound
    <3>4. Queued = Elems(buffered)
      BY <3>2, NoOps DEF Queued
    <3>5. Above(p) /\ Holds(p)
      BY <2>1, <3>3 DEF TreeInv
    <3>6. ASSUME NEW q \in Prefixes(p), ~IsDirectory(q)
          PROVE  \E n \in 1..Len(buffered) : buffered[n].path = q /\ buffered[n].replacement = "Disallowed"
      <4>1. PICK f \in Elems(buffered) : f.path = q /\ f.replacement = "Disallowed"
        BY <3>4, <3>5, <3>6 DEF Above, Waits, Doomed
      <4>. QED  BY <4>1 DEF Elems
    <3>7. Waits(p) => \E n \in 1..Len(buffered) : buffered[n].path = p
      BY <3>4 DEF Waits, Elems
    <3>8. StateOf(p) = entries[p] /\ entries[p].kind \in Kinds
      BY <2>1 DEF TypeInv, StateOf
    <3>9. entries[p].kind = "File" => NodeAt(OnDisk(p)).type = "File" \/ Waits(p)
      BY <3>5, <3>8 DEF Holds, NodeOf
    <3>10. entries[p].kind = "Symlink" => NodeAt(OnDisk(p)).type = "Nothing"
      BY <3>5, <3>8 DEF Holds, NodeOf, Nothing
    <3>11. entries[p].kind \notin {"File", "Symlink"} => NodeAt(OnDisk(p)).type = "Directory"
      BY <3>5, <3>8 DEF Holds, NodeOf, IsDirectory, Kinds
    <3>. QED  BY <3>6, <3>7, <3>9, <3>10, <3>11
  <2>. QED  BY <2>2, <2>3 DEF EntriesMatchTree
<1>. QED  BY <1>1, ClientState, PTL

(* A link is made at the place of its own path.                            *)
LEMMA MakeLinkChanges ==
  ASSUME Inv, StateInv, Step, Doing("MakeLink")
  PROVE  Changed \subseteq {OnDisk(Operand)}
<1>1. todo # <<>> /\ Head(todo).op = "MakeLink" /\ todo \in Seq(OpType) /\ TypeInv /\ LinkInv /\ LinkTree
  BY DEF Doing, Inv, TypeInv, StateInv
<1>2. Head(todo) \in OpType /\ Head(todo) \in Elems(todo)
  BY <1>1, TailElems
<1>3. task.files = <<>>
  BY <1>1, <1>2 DEF LinkInv, Linking
<1>4. Operand = Path
  BY <1>3 DEF Operand
<1>5. Path \in Paths \ {<<>>} /\ \A q \in Prefixes(Path) : NoLink(q)
  <2>1. Path \in Paths /\ Path # <<>> /\ \A q \in Prefixes(Path) : NodeOf(q).type = "Directory"
    BY <1>1, <1>2 DEF LinkTree, Path, OpType
  <2>. QED  BY <2>1 DEF NodeOf, NoLink
<1>6. handle.at = OnDisk(handle.entry)
  BY <1>1 DEF TypeInv, HandleType
<1>7. Spot \in {OnDisk(Path), Nowhere}
  BY <1>5, <1>6, LocationIs DEF Spot
<1>8. MakeLink
  BY <1>1, StepIs
<1>9. CASE UNCHANGED fs
  BY <1>9 DEF Changed
<1>10. CASE ~UNCHANGED fs
  <2>1. Spot # Nowhere /\ (Remove(Spot) \/ \E node : Put(Spot, node))
    BY <1>8, <1>10 DEF MakeLink, Fails, diskVars, SpotNode
  <2>2. PICK p : p = OnDisk(Path)
    OBVIOUS
  <2>3. Remove(p) \/ \E node : Put(p, node)
    BY <1>7, <2>1, <2>2
  <2>4. Changed \subseteq {p}
    BY <2>3, PutChanges, RemoveChanges
  <2>. QED  BY <1>4, <2>2, <2>4
<1>. QED  BY <1>9, <1>10

(* Whatever the archive, the policy and the destination, where the disk    *)
(* keeps different names apart: every step, that which makes a deferred    *)
(* link included, changes no leaf but that of the path it is about.        *)
THEOREM NoStepFollowsLinks ==
  ASSUME NamesApart
  PROVE  ClientSpec => NeverFollowsLinks
<1>1. ASSUME Inv, StateInv, [ClientNext]_clientVars
      PROVE  [\A p \in Changed : p = OnDisk(Operand)]_clientVars
  <2>1. CASE Step
    <3>1. Changed \subseteq {OnDisk(Operand)}
      BY <1>1, <2>1, StepChanges, MakeLinkChanges
    <3>. QED  BY <3>1
  <2>2. CASE TaskStep
    <3>1. Changed \subseteq {OnDisk(Operand)}
      BY <1>1, <2>2, TaskChanges
    <3>. QED  BY <3>1
  <2>3. CASE DropFuture
    <3>1. Changed = {}
      BY <2>3 DEF DropFuture, Changed, diskVars
    <3>. QED  BY <3>1
  <2>4. CASE UNCHANGED clientVars
    BY <2>4
  <2>. QED  BY <1>1, <2>1, <2>2, <2>3, <2>4 DEF ClientNext, ExtractionNext
<1>. QED  BY <1>1, ClientState, PTL DEF ClientSpec, NeverFollowsLinks

-----------------------------------------------------------------------------
(* The files of the archive.                                               *)

(* The operations a member calls for, by policy and kind.                  *)
Suits(name, m) ==
  /\ name \in MemberOps => Counts(m)
  /\ name = "Directory" => m.kind = "Directory"
  /\ name = "Write" /\ m.kind = "HardLink" => m.size > 0

SuitInv == \A e \in Elems(todo) : Suits(e.op, Member)

(* An operation that leaves work for the one right after it.               *)
Open(o, file) == o.op \in {"Create", "Truncate"} \/ (file /\ o.op = "Replace")

Fits(o, next, file) ==
  /\ o.op \in {"Create", "Truncate"} => next.op = "Write"
  /\ file /\ o.op = "Replace" => next.op \in {"Enqueue", "Create"}

Joined(s, file) == \A k \in 1..(Len(s) - 1) : Fits(s[k], s[k + 1], file)
Closed(s, file) == s # <<>> => ~Open(s[Len(s)], file)

OfFile == Member.kind = "File"

FollowInv == phase # "dropped" => Joined(todo, OfFile) /\ Closed(todo, OfFile)

(* An operation succeeds, and others that suit the member take its place.  *)
Moves(ops) ==
  /\ todo # <<>> /\ Then(ops) /\ ops \in Seq(OpType)
  /\ Joined(ops, OfFile)
  /\ ops # <<>> /\ Open(ops[Len(ops)], OfFile) => ops[Len(ops)].op = Head(todo).op
  /\ \A e \in Elems(ops) :
       /\ e.op \in MemberOps => Head(todo).op \in MemberOps
       /\ e.op = "Directory" => Head(todo).op = "Directory"
       /\ e.op # "Write"
       /\ e.op = "Return" => Head(todo).op = "Validate"
  /\ Head(todo).op = "Queue" => \E e \in Elems(ops) : e.op = "Enqueue"

Moved == \E ops : Moves(ops)

(* A row in which nothing has to be followed at once.                      *)
Calm(s) == s \in Seq(OpType) /\ \A e \in Elems(s) : e.op \notin {"Create", "Truncate", "Replace"}

LEMMA CalmRow ==
  ASSUME NEW s, Calm(s), NEW file
  PROVE  Joined(s, file) /\ Closed(s, file)
<1>1. \A k \in 1..Len(s) : s[k] \in Elems(s)
  BY DEF Elems
<1>2. Len(s) \in Nat /\ (s # <<>> => Len(s) \in 1..Len(s))
  BY EmptySeq DEF Calm
<1>3. \A k \in 1..(Len(s) - 1) : k \in 1..Len(s)
  BY <1>2
<1>. QED  BY <1>1, <1>2, <1>3 DEF Calm, Joined, Closed, Fits, Open

LEMMA ElemsBoth ==
  \A s, t \in Seq(OpType) : s \o t \in Seq(OpType) /\ Elems(s \o t) = Elems(s) \cup Elems(t)
BY ElemsConcat

LEMMA MovesNone ==
  ASSUME todo # <<>>, Then(<<>>), Head(todo).op # "Queue"
  PROVE  Moved
<1>1. Elems(<<>>) = {} /\ <<>> \in Seq(OpType) /\ Joined(<<>>, OfFile)
  BY LeftNone DEF Joined
<1>2. Moves(<<>>)
  BY <1>1 DEF Moves
<1>. QED  BY <1>2 DEF Moved

LEMMA MovesCalm ==
  ASSUME todo # <<>>, NEW ops, Calm(ops), Then(ops),
         \A e \in Elems(ops) :
           /\ e.op \in MemberOps => Head(todo).op \in MemberOps
           /\ e.op \notin {"Directory", "Write"}
           /\ e.op = "Return" => Head(todo).op = "Validate",
         Head(todo).op = "Queue" => \E e \in Elems(ops) : e.op = "Enqueue"
  PROVE  Moved
<1>1. Joined(ops, OfFile) /\ Closed(ops, OfFile) /\ ops \in Seq(OpType)
  BY CalmRow DEF Calm
<1>2. Moves(ops)
  BY <1>1 DEF Moves, Closed
<1>. QED  BY <1>2 DEF Moved

LEMMA MovesTwo ==
  ASSUME Inv, SuitInv, todo # <<>>, Head(todo).op \in {"Directory", "Create"}, NEW p \in Paths,
         Then(<< Op("Replace", p), Op(Head(todo).op, p) >>)
  PROVE  Moved
<1>. DEFINE r == Op("Replace", p)
            d == Op(Head(todo).op, p)
            ops == <<r, d>>
<1>1. r \in OpType /\ d \in OpType /\ r.op = "Replace" /\ d.op = Head(todo).op
  BY DEF Op, OpType, OpNames
<1>2. Head(todo) \in Elems(todo)
  BY TailElems DEF Inv, TypeInv
<1>3. Head(todo).op = "Directory" => ~OfFile
  BY <1>2 DEF SuitInv, Suits, OfFile
<1>. HIDE DEF r, d
<1>4. /\ ops \in Seq(OpType) /\ ops # <<>> /\ Len(ops) = 2 /\ ops[1] = r /\ ops[2] = d
      /\ \A o \in Elems(ops) : o \in {r, d}
  BY <1>1 DEF Elems
<1>5. Joined(ops, OfFile)
  <2>1. Fits(r, d, OfFile)
    BY <1>1, <1>3 DEF Fits
  <2>2. \A k \in 1..(Len(ops) - 1) : k = 1
    BY <1>4
  <2>. QED  BY <1>4, <2>1, <2>2 DEF Joined
<1>6. Then(ops)
  BY DEF r, d
<1>7. Moves(ops)
  <2>1. Head(todo).op \in MemberOps
    BY DEF MemberOps
  <2>. HIDE DEF ops
  <2>. QED  BY <1>1, <1>4, <1>5, <1>6, <2>1 DEF Moves
<1>. QED  BY <1>7 DEF Moved

LEMMA QueueMoves ==
  ASSUME Inv, Queue
  PROVE  Moved
<1>1. todo # <<>> /\ Head(todo).op = "Queue"
  BY DEF Queue, Doing
<1>2. PICK p \in Paths \ {<<>>} : p = Path
  BY <1>1, Now DEF Closing, Placed, MemberOps, Path
<1>. DEFINE e == Op("Enqueue", p)
            f == Op("Flush", p)
            s == <<f>> \o Parents(p)
<1>3. e \in OpType /\ f \in OpType /\ e.op = "Enqueue" /\ f.op = "Flush"
  BY <1>2 DEF Op, OpType, OpNames
<1>4. Parents(p) \in Seq(OpType) /\ \A o \in Elems(Parents(p)) : o.op = "Parent"
  <2>1. Parents(p) \in Seq(OpType) /\ Elems(Parents(p)) = { Op("Parent", q) : q \in Prefixes(p) }
    BY ParentsRow
  <2>2. \A q : Op("Parent", q).op = "Parent"
    BY DEF Op
  <2>. QED  BY <2>1, <2>2
<1>5. Then(<<e>>) \/ Then(s \o <<e>>)
  BY <1>2 DEF Queue
<1>. HIDE DEF e, f
<1>6. <<e>> \in Seq(OpType) /\ <<f>> \in Seq(OpType) /\ Elems(<<e>>) = {e} /\ Elems(<<f>>) = {f}
  <2>1. <<e>> \in Seq(OpType) /\ <<f>> \in Seq(OpType)
    BY <1>3
  <2>. QED  BY <2>1, ElemsOne
<1>7. s \in Seq(OpType) /\ Elems(s) = {f} \cup Elems(Parents(p))
  BY <1>4, <1>6, ElemsBoth, Zenon
<1>. HIDE DEF s
<1>8. s \o <<e>> \in Seq(OpType) /\ Elems(s \o <<e>>) = Elems(s) \cup {e}
  BY <1>6, <1>7, ElemsBoth, Zenon
<1>9. ASSUME NEW ops \in {<<e>>, s \o <<e>>}, Then(ops) PROVE Moved
  <2>1. /\ ops \in Seq(OpType) /\ e \in Elems(ops)
        /\ \A o \in Elems(ops) : o.op \in {"Flush", "Parent", "Enqueue"}
    BY <1>3, <1>4, <1>6, <1>7, <1>8, <1>9
  <2>. HIDE DEF Moved
  <2>2. Calm(ops)
    BY <2>1 DEF Calm
  <2>. QED  BY <1>1, <1>3, <1>9, <2>1, <2>2, MovesCalm DEF MemberOps
<1>. QED  BY <1>5, <1>9

LEMMA EnqueueMoves ==
  ASSUME Inv, Enqueue
  PROVE  Moved
<1>1. todo # <<>> /\ Head(todo).op = "Enqueue" /\ Path \in Paths
  BY Now DEF Enqueue, Doing, Closing
<1>2. PICK p \in Paths : p = Path
  BY <1>1
<1>. DEFINE f == Op("Flush", p)
            r == Op("Replace", p)
            e == Op("Enqueue", p)
<1>3. /\ f \in OpType /\ r \in OpType /\ e \in OpType
      /\ f.op = "Flush" /\ r.op = "Replace" /\ e.op = "Enqueue"
  BY DEF Op, OpType, OpNames
<1>4. Then(<<f, r, e>>) \/ Then(<<f, e>>) \/ Then(<<f>>) \/ Then(<<>>)
  BY <1>2 DEF Enqueue
<1>. HIDE DEF f, r, e
<1>5. ASSUME Then(<<f, r, e>>) PROVE Moved
  <2>. DEFINE ops == <<f, r, e>>
  <2>1. /\ ops \in Seq(OpType) /\ ops # <<>> /\ Len(ops) = 3 /\ ops[1] = f /\ ops[2] = r /\ ops[3] = e
        /\ \A o \in Elems(ops) : o \in {f, r, e}
    BY <1>3 DEF Elems
  <2>2. Joined(ops, OfFile)
    <3>1. Fits(f, r, OfFile) /\ Fits(r, e, OfFile)
      BY <1>3 DEF Fits
    <3>2. \A k \in 1..(Len(ops) - 1) : k = 1 \/ k = 2
      BY <2>1
    <3>. QED  BY <2>1, <3>1, <3>2 DEF Joined
  <2>3. Then(ops)
    BY <1>5
  <2>. HIDE DEF ops
  <2>4. Moves(ops)
    BY <1>1, <1>3, <2>1, <2>2, <2>3 DEF Moves, MemberOps, Open
  <2>. QED  BY <2>4 DEF Moved
<1>6. ASSUME NEW ops \in {<<f, e>>, <<f>>}, Then(ops) PROVE Moved
  <2>1. ops \in Seq(OpType) /\ \A o \in Elems(ops) : o \in {f, e}
    <3>1. CASE ops = <<f, e>>
      BY <1>3, <3>1 DEF Elems
    <3>2. CASE ops = <<f>>
      BY <1>3, <3>2 DEF Elems
    <3>. QED  BY <1>6, <3>1, <3>2
  <2>2. Calm(ops)
    BY <1>3, <2>1 DEF Calm
  <2>. QED  BY <1>1, <1>3, <1>6, <2>1, <2>2, MovesCalm DEF MemberOps
<1>. QED  BY <1>1, <1>4, <1>5, <1>6, MovesNone

LEMMA OneMoves ==
  ASSUME todo # <<>>, Head(todo).op # "Queue", NEW o \in OpType,
         o.op \in {"Await", "MakeLink"}, Then(<<o>>)
  PROVE  Moved
<1>1. /\ <<o>> \in Seq(OpType) /\ Elems(<<o>>) = {o}
  BY ElemsOne
<1>2. Calm(<<o>>)
  BY <1>1 DEF Calm
<1>. QED  BY <1>1, <1>2, MovesCalm DEF MemberOps

LEMMA ValidateMoves ==
  ASSUME Inv, todo # <<>>, Head(todo).op = "Validate", Then(LinkOps \o << Op("Return", <<>>) >>)
  PROVE  Moved
<1>1. LinkOps \in Seq({ o \in OpType : Made(o) })
  BY LinkOpsAre DEF Inv
<1>2. PICK s : s = LinkOps
  OBVIOUS
<1>3. s \in Seq(OpType) /\ \A o \in Elems(s) : o.op = "MakeLink"
  <2>1. s \in Seq(OpType) /\ \A k \in 1..Len(s) : s[k].op = "MakeLink"
    BY <1>1, <1>2 DEF Made
  <2>. QED  BY <2>1 DEF Elems
<1>. DEFINE r == Op("Return", <<>>)
<1>4. r \in OpType /\ r.op = "Return" /\ Then(s \o <<r>>)
  BY <1>2, OnDiskRoot DEF Op, OpType, OpNames
<1>. HIDE DEF r
<1>5. <<r>> \in Seq(OpType) /\ Elems(<<r>>) = {r}
  BY <1>4, ElemsOne
<1>6. s \o <<r>> \in Seq(OpType) /\ Elems(s \o <<r>>) = Elems(s) \cup {r}
  BY <1>3, <1>5, ElemsBoth, Zenon
<1>7. PICK t : t = s \o <<r>>
  OBVIOUS
<1>8. Calm(t) /\ \A o \in Elems(t) : o.op \in {"MakeLink", "Return"}
  BY <1>3, <1>4, <1>6, <1>7 DEF Calm
<1>. QED  BY <1>4, <1>7, <1>8, MovesCalm DEF MemberOps

(* Every step on the call's own stack, as StepGoes has it.                 *)
LEMMA StepMoves ==
  ASSUME Inv, SuitInv, Step
  PROVE  \/ NextMember /\ UNCHANGED task
         \/ todo # <<>> /\ UNCHANGED members /\ (Moved \/ Fell)
         \/ Return /\ UNCHANGED members
<1>1. CASE NextMember /\ UNCHANGED task
  BY <1>1
<1>2. CASE Flush /\ UNCHANGED members
  <2>1. todo # <<>> /\ Head(todo).op = "Flush"
    BY <1>2 DEF Flush, Doing
  <2>2. Head(todo) \in OpType
    BY <2>1, TailElems DEF Inv, TypeInv
  <2>3. PICK p \in Paths : p = Path
    BY <2>2 DEF OpType, Path
  <2>4. Op("Await", p) \in OpType /\ Op("Await", p).op = "Await"
    BY DEF Op, OpType, OpNames
  <2>5. Then(<<>>) \/ Then(<<Op("Await", p)>>)
    BY <1>2, <2>3 DEF Flush
  <2>6. Moved
    BY <2>1, <2>4, <2>5, MovesNone, OneMoves
  <2>. QED  BY <1>2, <2>1, <2>6
<1>3. CASE Operation /\ UNCHANGED <<members, task>> /\ ~Return
  <2>1. CASE Then(<<>>) /\ ~Queue
    <3>1. todo # <<>> /\ Head(todo).op # "Queue"
      BY <1>3, <2>1
         DEF Operation, Doing, Payload, Queue, Enqueue, Await, Replace,
             EnsureDirectory, Create, Write, Target, HardLink, Truncate, Reserve, Validate, MakeLink
    <3>. QED  BY <1>3, <2>1, <3>1, MovesNone
  <2>2. todo # <<>>
    BY <1>3 DEF Operation, Doing, Payload, Queue, Enqueue, Await, Replace,
                EnsureDirectory, Create, Write, Target, HardLink, Truncate, Reserve, Validate, MakeLink
  <2>3. CASE Payload \/ Replace \/ Write \/ Target \/ HardLink \/ Truncate \/ Reserve
    <3>1. Then(<<>>) \/ Fell
      BY <2>3 DEF Payload, Replace, Write, Target, HardLink, Truncate, Reserve, Fails, Fell
    <3>2. ~Queue
      BY <2>3 DEF Payload, Replace, Write, Target, HardLink, Truncate, Reserve, Queue, Doing
    <3>. QED  BY <1>3, <2>1, <2>2, <3>1, <3>2
  <2>4. CASE Queue
    BY <1>3, <2>2, <2>4, QueueMoves
  <2>5. CASE Enqueue
    BY <1>3, <2>2, <2>5, EnqueueMoves
  <2>6. CASE Await
    <3>1. Then(<<>>) \/ Fell
      <4>1. task.error \in {"None", "Filesystem", "PathCollision"}
        BY DEF Inv, TypeInv
      <4>. QED  BY <2>6, <4>1 DEF Await, Fell
    <3>2. ~Queue
      BY <2>6 DEF Await, Queue, Doing
    <3>. QED  BY <1>3, <2>1, <2>2, <3>1, <3>2
  <2>7. CASE EnsureDirectory \/ Create
    <3>1. Head(todo).op \in {"Parent", "Directory", "Create"} /\ Path \in Paths
      BY <2>2, <2>7, Now DEF EnsureDirectory, Create, Doing, Closing
    <3>2. PICK p \in Paths : p = Path
      BY <3>1
    <3>3. \/ Then(<<>>) \/ Fell
          \/ /\ Head(todo).op \in {"Directory", "Create"}
             /\ Then(<< Op("Replace", p), Op(Head(todo).op, p) >>)
      BY <2>7, <3>2 DEF EnsureDirectory, Create, Doing, Fails, Fell
    <3>4. ~Queue
      BY <3>1 DEF Queue, Doing
    <3>. QED  BY <1>3, <2>1, <2>2, <3>3, <3>4, MovesTwo
  <2>8. CASE Validate
    <3>1. Head(todo).op = "Validate"
      BY <2>8 DEF Validate, Doing
    <3>2. \/ Fell \/ Then(LinkOps \o << Op("Return", <<>>) >>)
      <4>1. Rejected # {} => Verdict(First(Rejected)) # "Pending"
        BY Zenon DEF Verdict
      <4>. QED  BY <2>8, <4>1 DEF Validate, Fell
    <3>. QED  BY <1>3, <2>2, <3>1, <3>2, ValidateMoves
  <2>9. CASE MakeLink
    <3>1. Head(todo).op = "MakeLink" /\ Path \in Paths
      <4>1. Head(todo) \in OpType
        BY <2>2, TailElems DEF Inv, TypeInv
      <4>. QED  BY <2>9, <4>1 DEF MakeLink, Doing, Path, OpType
    <3>2. PICK p \in Paths : p = Path
      BY <3>1
    <3>3. Op("MakeLink", p) \in OpType /\ Op("MakeLink", p).op = "MakeLink"
      BY DEF Op, OpType, OpNames
    <3>4. Then(<<>>) \/ Fell \/ Then(<< Op("MakeLink", p) >>)
      BY <2>9, <3>2 DEF MakeLink, Fails, Fell
    <3>5. ~Queue
      BY <3>1 DEF Queue, Doing
    <3>. QED  BY <1>3, <2>1, <2>2, <3>1, <3>3, <3>4, <3>5, OneMoves
  <2>. QED  BY <1>3, <2>3, <2>4, <2>5, <2>6, <2>7, <2>8, <2>9 DEF Operation
<1>. QED  BY <1>1, <1>2, <1>3 DEF Step, Operation

LEMMA SeqEnd ==
  ASSUME NEW s \in Seq(OpType), s # <<>>
  PROVE  Len(s) \in Nat \ {0} /\ Len(s) \in 1..Len(s) /\ Head(s) = s[1] /\ s[Len(s)] \in Elems(s)
         /\ 1 \in 1..Len(s)
<1>1. Len(s) \in Nat /\ Len(s) # 0
  BY EmptySeq
<1>. QED  BY <1>1 DEF Elems

(* What has to be followed at once still is.                               *)
LEMMA FollowThen ==
  ASSUME NEW file, NEW s \in Seq(OpType), s # <<>>, Joined(s, file), Closed(s, file),
         NEW ops \in Seq(OpType), Joined(ops, file),
         ops # <<>> /\ Open(ops[Len(ops)], file) => ops[Len(ops)].op = Head(s).op,
         NEW t, t = ops \o Tail(s)
  PROVE  Joined(t, file) /\ Closed(t, file)
<1>1. /\ t \in Seq(OpType) /\ Len(ops) \in Nat /\ Len(s) \in Nat \ {0}
      /\ Len(t) = Len(ops) + Len(s) - 1
      /\ \A k \in 1..Len(t) :
           IF k <= Len(ops) THEN k \in 1..Len(ops) /\ t[k] = ops[k]
           ELSE k - Len(ops) + 1 \in 2..Len(s) /\ t[k] = s[k - Len(ops) + 1]
  BY ThenParts
<1>2. Head(s) = s[1]
  BY SeqEnd
<1>7. Len(ops) \in Nat /\ Len(s) \in Nat /\ Len(s) # 0 /\ Len(t) = Len(ops) + Len(s) - 1
  BY <1>1
<1>3. ops # <<>> <=> Len(ops) # 0
  BY EmptySeq
<1>4. Open(s[1], file) => Len(s) >= 2 /\ Fits(s[1], s[2], file)
  <2>1. CASE Len(s) = 1
    BY <2>1 DEF Closed
  <2>2. CASE Len(s) # 1
    <3>1. Len(s) >= 2 /\ 1 \in 1..(Len(s) - 1) /\ 1 + 1 = 2
      <4>1. \A n \in Nat : n # 0 /\ n # 1 => n >= 2 /\ 1 \in 1..(n - 1)
        OBVIOUS
      <4>2. Len(s) \in Nat /\ Len(s) # 0 /\ Len(s) # 1
        BY <1>7, <2>2
      <4>3. Len(s) >= 2 /\ 1 \in 1..(Len(s) - 1)
        BY <4>1, <4>2, Zenon
      <4>. QED  BY <4>3
    <3>. QED  BY <3>1 DEF Joined
  <2>. QED  BY <2>1, <2>2
<1>5. Joined(t, file)
  <2>. SUFFICES ASSUME NEW k \in 1..(Len(t) - 1) PROVE Fits(t[k], t[k + 1], file)
    BY DEF Joined
  <2>1. k \in 1..Len(t) /\ k + 1 \in 1..Len(t)
    BY <1>1
  <2>2. CASE k + 1 <= Len(ops)
    <3>1. k <= Len(ops) /\ k \in 1..(Len(ops) - 1)
      BY <1>1, <2>1, <2>2
    <3>2. t[k] = ops[k] /\ t[k + 1] = ops[k + 1]
      BY <1>1, <2>1, <2>2, <3>1, Zenon
    <3>. QED  BY <3>1, <3>2 DEF Joined
  <2>3. CASE k = Len(ops)
    <3>1. /\ Len(ops) # 0 /\ t[k] = ops[Len(ops)]
      BY <1>1, <2>1, <2>3
    <3>2. k + 1 - Len(ops) + 1 = 2 /\ ~(k + 1 <= Len(ops))
      BY <1>1, <2>3
    <3>3. t[k + 1] = s[2]
      <4>1. t[k + 1] = s[(k + 1) - Len(ops) + 1]
        BY <1>1, <2>1, <3>2
      <4>. QED  BY <3>2, <4>1
    <3>4. Open(t[k], file) => t[k].op = s[1].op
      BY <1>2, <1>3, <3>1
    <3>. QED  BY <1>4, <3>3, <3>4 DEF Fits, Open
  <2>4. CASE k > Len(ops)
    <3>1. ~(k <= Len(ops)) /\ ~(k + 1 <= Len(ops)) /\ k + 1 - Len(ops) + 1 = (k - Len(ops) + 1) + 1
      BY <1>1, <2>1, <2>4
    <3>2. t[k] = s[k - Len(ops) + 1] /\ t[k + 1] = s[(k - Len(ops) + 1) + 1]
      BY <1>1, <2>1, <3>1
    <3>3. k - Len(ops) + 1 \in 1..(Len(s) - 1)
      BY <1>1, <2>1, <2>4
    <3>. QED  BY <3>2, <3>3 DEF Joined
  <2>. QED  BY <1>1, <2>2, <2>3, <2>4
<1>6. Closed(t, file)
  <2>. SUFFICES ASSUME t # <<>> PROVE ~Open(t[Len(t)], file)
    BY DEF Closed
  <2>1. Len(t) \in 1..Len(t)
    BY <1>1, SeqEnd
  <2>2. CASE Len(s) = 1
    <3>1. Len(t) = Len(ops) /\ Len(t) <= Len(ops) /\ Len(ops) # 0
      BY <1>1, <2>1, <2>2
    <3>2. t[Len(t)] = ops[Len(ops)]
      BY <1>1, <2>1, <3>1
    <3>3. ~Open(s[1], file)
      BY <1>4, <2>2
    <3>. QED  BY <1>2, <1>3, <3>1, <3>2, <3>3 DEF Open
  <2>3. CASE Len(s) # 1
    <3>1. ~(Len(t) <= Len(ops)) /\ Len(t) - Len(ops) + 1 = Len(s)
      <4>1. \A n, m \in Nat : n # 0 /\ n # 1 => ~(m + n - 1 <= m) /\ (m + n - 1) - m + 1 = n
        OBVIOUS
      <4>. QED  BY <1>7, <2>3, <4>1
    <3>2. t[Len(t)] = s[Len(s)]
      BY <1>1, <2>1, <3>1
    <3>. QED  BY <3>2 DEF Closed
  <2>. QED  BY <2>2, <2>3
<1>. QED  BY <1>5, <1>6

LEMMA RowAppend ==
  ASSUME NEW s \in Seq(OpType), NEW file, Joined(s, file), NEW o \in OpType,
         s # <<>> => Fits(s[Len(s)], o, file)
  PROVE  /\ s \o <<o>> \in Seq(OpType) /\ Joined(s \o <<o>>, file)
         /\ Elems(s \o <<o>>) = Elems(s) \cup {o}
         /\ s \o <<o>> # <<>> /\ (s \o <<o>>)[Len(s \o <<o>>)] = o
<1>1. <<o>> \in Seq(OpType) /\ Elems(<<o>>) = {o}
  BY ElemsOne
<1>2. PICK t : t = s \o <<o>>
  OBVIOUS
<1>3. /\ t \in Seq(OpType) /\ Len(t) = Len(s) + 1 /\ Len(s) \in Nat /\ t[Len(s) + 1] = o
      /\ \A k \in 1..Len(s) : t[k] = s[k]
  <2>1. \A x \in Seq(OpType) : \A y \in OpType :
          /\ x \o <<y>> \in Seq(OpType) /\ Len(x \o <<y>>) = Len(x) + 1 /\ Len(x) \in Nat
          /\ (x \o <<y>>)[Len(x) + 1] = y
          /\ \A k \in 1..Len(x) : (x \o <<y>>)[k] = x[k]
    OBVIOUS
  <2>. QED  BY <1>2, <2>1
<1>4. Elems(t) = Elems(s) \cup {o}
  BY <1>1, <1>2, ElemsBoth, Zenon
<1>5. Joined(t, file)
  <2>. SUFFICES ASSUME NEW k \in 1..(Len(t) - 1) PROVE Fits(t[k], t[k + 1], file)
    BY DEF Joined
  <2>1. k \in 1..Len(s) /\ t[k] = s[k]
    BY <1>3
  <2>2. CASE k = Len(s)
    <3>1. s # <<>> /\ t[k + 1] = o /\ t[k] = s[Len(s)]
      BY <1>3, <2>1, <2>2
    <3>. QED  BY <3>1
  <2>3. CASE k # Len(s)
    <3>1. k \in 1..(Len(s) - 1) /\ k + 1 \in 1..Len(s)
      BY <1>3, <2>1, <2>3
    <3>2. t[k + 1] = s[k + 1]
      BY <1>3, <3>1
    <3>. QED  BY <2>1, <3>1, <3>2 DEF Joined
  <2>. QED  BY <2>2, <2>3
<1>6. t # <<>> /\ t[Len(t)] = o
  BY <1>3
<1>. QED  BY <1>2, <1>3, <1>4, <1>5, <1>6, Zenon

Placing == {"Queue", "Enqueue", "Create"}

(* What a member is for; it does not end the call.                         *)
Fine(name, m) == Suits(name, m) /\ name # "Return"

(* The row of a member has what suits it, and puts a file somewhere.       *)
LEMMA ProgramSuits ==
  ASSUME NEW m \in Members
  PROVE  /\ Program(m) \in Seq(OpType)
         /\ \A e \in Elems(Program(m)) : Fine(e.op, m)
         /\ Joined(Program(m), m.kind = "File") /\ Closed(Program(m), m.kind = "File")
         /\ Program(m) # <<>> => Head(Program(m)).op # "Write"
         /\ m.kind = "File" => \E e \in Elems(Program(m)) : e.op \in Placing
<1>. DEFINE p == m.path
            op(n) == Op(n, p)
            flush == <<op("Flush")>>
            file == m.kind = "File"
<1>1. m \in MemberType /\ p \in Paths /\ (p = <<>> => m.kind = "Directory")
  BY ExtractionAssumption DEF MemberType, Paths
<1>2. \A n \in OpNames : op(n) \in OpType /\ op(n).op = n
  BY <1>1 DEF Op, OpType
<1>3. /\ m.kind \in {"File", "Directory", "SymbolicLink", "HardLink"} /\ m.size \in Nat
      /\ BUFFERED_PAYLOAD_MAX_BYTES \in Nat
  BY <1>1, ExtractionAssumption DEF MemberType
<1>4. p # <<>> => Parents(p) \in Seq(OpType) /\ \A e \in Elems(Parents(p)) : e.op = "Parent"
  <2>1. ASSUME p # <<>>
        PROVE  Parents(p) \in Seq(OpType) /\ Elems(Parents(p)) = { Op("Parent", q) : q \in Prefixes(p) }
    BY <1>1, <2>1, ParentsRow
  <2>2. \A q : Op("Parent", q).op = "Parent"
    BY DEF Op
  <2>. QED  BY <2>1, <2>2
<1>5. /\ p # <<>> /\ ~(m.kind = "SymbolicLink" /\ policy.symlinks = "Skip") => Counts(m)
      /\ \A n : Counts(m) /\ n \notin {"Directory", "Return", "Write"} => Fine(n, m)
      /\ Counts(m) /\ (m.kind # "HardLink" \/ m.size # 0) => Fine("Write", m)
  BY <1>3 DEF Counts, Suits, Fine
<1>. HIDE DEF op
<1>. DEFINE Front(s) == s \in Seq(OpType) /\ s # <<>>
                          /\ \A e \in Elems(s) : e.op \in {"Flush", "Target", "Parent"}
<1>6. Front(flush)
  <2>1. flush \in Seq(OpType) /\ Elems(flush) = {op("Flush")} /\ op("Flush").op = "Flush"
    BY <1>2, ElemsOne DEF OpNames
  <2>. QED  BY <2>1
<1>7. \A s : Front(s) => Front(s \o <<op("Target")>>)
  <2>. SUFFICES ASSUME NEW s, Front(s) PROVE Front(s \o <<op("Target")>>)
    OBVIOUS
  <2>1. op("Target") \in OpType /\ op("Target").op = "Target"
    BY <1>2 DEF OpNames
  <2>2. Joined(s, FALSE) /\ Closed(s, FALSE)
    <3>1. Calm(s)
      BY DEF Calm
    <3>. QED  BY <3>1, CalmRow
  <2>3. \A o : ~Open(s[Len(s)], FALSE) => Fits(s[Len(s)], o, FALSE)
    BY DEF Open, Fits
  <2>4. /\ s \o <<op("Target")>> \in Seq(OpType) /\ s \o <<op("Target")>> # <<>>
        /\ Elems(s \o <<op("Target")>>) = Elems(s) \cup {op("Target")}
    BY <2>1, <2>2, <2>3, RowAppend DEF Closed
  <2>. QED  BY <2>1, <2>4
<1>8. \A s : Front(s) /\ p # <<>> => Front(s \o Parents(p))
  <2>. SUFFICES ASSUME NEW s, Front(s), p # <<>> PROVE Front(s \o Parents(p))
    OBVIOUS
  <2>1. s \o Parents(p) \in Seq(OpType) /\ Elems(s \o Parents(p)) = Elems(s) \cup Elems(Parents(p))
    BY <1>4, ElemsBoth
  <2>2. s[Len(s)] \in Elems(s)
    BY SeqEnd
  <2>3. Elems(s \o Parents(p)) # {}
    BY <2>1, <2>2
  <2>4. s \o Parents(p) # <<>>
    BY <2>3, LeftNone
  <2>. QED  BY <1>4, <2>1, <2>4
<1>. HIDE DEF flush
<1>9. \A s : Front(s) => /\ Joined(s, file) /\ Closed(s, file)
                         /\ \A o : Fits(s[Len(s)], o, file)
                         /\ Counts(m) => \A e \in Elems(s) : Fine(e.op, m)
  <2>. SUFFICES ASSUME NEW s, Front(s)
                PROVE  /\ Joined(s, file) /\ Closed(s, file)
                       /\ \A o : Fits(s[Len(s)], o, file)
                       /\ Counts(m) => \A e \in Elems(s) : Fine(e.op, m)
    OBVIOUS
  <2>1. Calm(s)
    BY DEF Calm
  <2>2. Joined(s, file) /\ Closed(s, file)
    BY <2>1, CalmRow
  <2>. QED  BY <1>5, <2>2 DEF Closed, Open, Fits
<1>. DEFINE Row(s) == s \in Seq(OpType) /\ s # <<>> /\ Joined(s, file) /\ \A e \in Elems(s) : Fine(e.op, m)
<1>10. \A s : \A n \in OpNames :
         Row(s) /\ Fine(n, m) /\ Fits(s[Len(s)], op(n), file) =>
           LET t == s \o <<op(n)>>
           IN  Row(t) /\ t[Len(t)] = op(n) /\ Elems(t) = Elems(s) \cup {op(n)}
  BY <1>2, RowAppend
<1>11. \A s : Front(s) /\ Counts(m) => Row(s)
  BY <1>9
<1>. HIDE DEF Front, Row
<1>12. Program(m) # <<>> => Head(Program(m)).op # "Write"
  BY ProgramOrder
<1>13. \A s : Row(s) /\ ~Open(s[Len(s)], file) =>
         s \in Seq(OpType) /\ (\A e \in Elems(s) : Fine(e.op, m)) /\ Joined(s, file) /\ Closed(s, file)
  BY DEF Row, Closed
<1>14. /\ "Create" \in OpNames /\ "Write" \in OpNames /\ "Directory" \in OpNames /\ "Replace" \in OpNames
       /\ "Reserve" \in OpNames /\ "Link" \in OpNames /\ "Payload" \in OpNames /\ "Truncate" \in OpNames
       /\ "Queue" \in OpNames
  BY DEF OpNames
<1>15. CASE m.kind = "File" /\ m.size <= BUFFERED_PAYLOAD_MAX_BYTES
  <2>1. Program(m) = <<op("Payload"), op("Queue")>>
    <3>1. ~(m.size > BUFFERED_PAYLOAD_MAX_BYTES)
      BY <1>3, <1>15
    <3>. QED  BY <1>15, <3>1 DEF Program, op, p
  <2>2. /\ op("Payload").op = "Payload" /\ op("Queue").op = "Queue"
        /\ op("Payload") \in OpType /\ op("Queue") \in OpType
    BY <1>2, <1>14
  <2>3. Elems(<<op("Payload"), op("Queue")>>) = {op("Payload"), op("Queue")}
    BY DEF Elems
  <2>4. Calm(Program(m))
    BY <2>1, <2>2, <2>3 DEF Calm
  <2>5. Joined(Program(m), file) /\ Closed(Program(m), file)
    BY <2>4, CalmRow
  <2>6. Counts(m)
    BY <1>1, <1>5, <1>15
  <2>. QED  BY <1>5, <1>12, <2>1, <2>2, <2>3, <2>4, <2>5, <2>6 DEF Calm, Placing
<1>16. CASE m.kind = "File" /\ m.size > BUFFERED_PAYLOAD_MAX_BYTES
  <2>. DEFINE s0 == flush \o Parents(p)
              s1 == s0 \o <<op("Create")>>
              s2 == s1 \o <<op("Write")>>
  <2>1. Counts(m) /\ p # <<>>
    BY <1>1, <1>5, <1>16
  <2>2. Front(s0) /\ Row(s0) /\ s0 \in Seq(OpType)
    BY <1>6, <1>8, <1>11, <2>1 DEF Front
  <2>3. op("Create") \in OpType /\ op("Create").op = "Create" /\ op("Write") \in OpType /\ op("Write").op = "Write"
    BY <1>2, <1>14
  <2>4. Program(m) = s2
    <3>1. ~(m.size <= BUFFERED_PAYLOAD_MAX_BYTES)
      BY <1>3, <1>16
    <3>2. Program(m) = s0 \o <<op("Create"), op("Write")>>
      BY <1>16, <3>1 DEF Program, op, p, InOrder, flush
    <3>. HIDE DEF s0
    <3>. QED  BY <2>2, <2>3, <3>2, Rows
  <2>5. Row(s1) /\ s1[Len(s1)] = op("Create") /\ op("Create") \in Elems(s1)
    <3>. HIDE DEF s0
    <3>. QED  BY <1>5, <1>9, <1>10, <1>14, <2>1, <2>2
  <2>6. Row(s2) /\ s2[Len(s2)] = op("Write") /\ op("Create") \in Elems(s2)
    <3>1. Fits(op("Create"), op("Write"), file)
      BY <2>3 DEF Fits
    <3>. HIDE DEF s1
    <3>. QED  BY <1>5, <1>10, <1>14, <1>16, <2>1, <2>5, <3>1
  <2>7. ~Open(s2[Len(s2)], file)
    BY <2>3, <2>6 DEF Open
  <2>. HIDE DEF s2
  <2>. QED  BY <1>12, <1>13, <2>3, <2>4, <2>6, <2>7 DEF Placing
<1>17. CASE m.kind = "Directory"
  <2>1. CASE p = <<>>
    <3>1. Program(m) = flush \o <<>>
      BY <1>17, <2>1 DEF Program, op, p, flush
    <3>2. Program(m) = flush
      BY <1>2, <3>1, Rows DEF OpNames, flush
    <3>3. /\ flush \in Seq(OpType) /\ Elems(flush) = {op("Flush")} /\ op("Flush").op = "Flush"
      BY <1>2, <1>6, ElemsOne DEF OpNames, Front, flush
    <3>4. Joined(flush, file) /\ Closed(flush, file)
      BY <1>6, <1>9
    <3>. QED  BY <1>12, <1>17, <3>2, <3>3, <3>4 DEF Suits, Fine, MemberOps
  <2>2. CASE p # <<>>
    <3>. DEFINE s0 == flush \o Parents(p)
                s1 == s0 \o <<op("Directory")>>
    <3>1. Program(m) = s1
      <4>1. Program(m) = flush \o (Parents(p) \o <<op("Directory")>>)
        BY <1>17, <2>2 DEF Program, op, p, flush
      <4>2. flush \in Seq(OpType) /\ op("Directory") \in OpType
        BY <1>2, <1>6, <1>14 DEF Front
      <4>. QED  BY <1>4, <2>2, <4>1, <4>2, Rows
    <3>2. Counts(m) /\ Fine("Directory", m)
      BY <1>5, <1>17, <2>2 DEF Suits, Fine
    <3>3. Front(s0) /\ Row(s0)
      BY <1>6, <1>8, <1>11, <2>2, <3>2
    <3>4. Row(s1) /\ s1[Len(s1)] = op("Directory") /\ op("Directory").op = "Directory"
      <4>. HIDE DEF s0
      <4>. QED  BY <1>2, <1>9, <1>10, <1>14, <3>2, <3>3
    <3>5. ~Open(s1[Len(s1)], file)
      BY <1>17, <3>4 DEF Open
    <3>. HIDE DEF s1
    <3>. QED  BY <1>12, <1>13, <1>17, <3>1, <3>4, <3>5
  <2>. QED  BY <2>1, <2>2
<1>. DEFINE s0 == (flush \o <<op("Target")>>) \o Parents(p)
            s1 == s0 \o <<op("Replace")>>
<1>18. Counts(m) /\ p # <<>> /\ ~file =>
         Row(s1) /\ s1 \in Seq(OpType) /\ \A o : Fits(s1[Len(s1)], o, file)
  <2>. SUFFICES ASSUME Counts(m), p # <<>>, ~file
                PROVE  Row(s1) /\ s1 \in Seq(OpType) /\ \A o : Fits(s1[Len(s1)], o, file)
    OBVIOUS
  <2>1. Front(s0) /\ Row(s0)
    BY <1>6, <1>7, <1>8, <1>11
  <2>2. Row(s1) /\ s1[Len(s1)] = op("Replace") /\ op("Replace").op = "Replace"
    <3>. HIDE DEF s0, file
    <3>. QED  BY <1>2, <1>5, <1>9, <1>10, <1>14, <2>1
  <2>. QED  BY <2>2 DEF Row, Fits
<1>19. CASE m.kind = "SymbolicLink"
  <2>1. CASE policy.symlinks = "Skip"
    <3>1. Program(m) = <<>>
      BY <1>19, <2>1 DEF Program
    <3>2. Program(m) \in Seq(OpType) /\ Elems(Program(m)) = {}
      BY <3>1, LeftNone
    <3>3. Calm(Program(m))
      BY <3>2 DEF Calm
    <3>. QED  BY <1>12, <1>19, <3>2, <3>3, CalmRow
  <2>2. CASE policy.symlinks # "Skip"
    <3>. DEFINE s2 == s1 \o <<op("Reserve")>>
    <3>1. Program(m) = s2
      BY <1>19, <2>2 DEF Program, op, p, Cleared, flush
    <3>2. Counts(m) /\ p # <<>>
      BY <1>1, <1>5, <1>19, <2>2
    <3>3. Row(s1) /\ \A o : Fits(s1[Len(s1)], o, file)
      BY <1>18, <1>19, <3>2
    <3>. HIDE DEF s1
    <3>4. Row(s2) /\ s2[Len(s2)] = op("Reserve") /\ op("Reserve").op = "Reserve"
      BY <1>2, <1>5, <1>10, <1>14, <3>2, <3>3
    <3>5. ~Open(s2[Len(s2)], file)
      BY <3>4 DEF Open
    <3>. HIDE DEF s2
    <3>. QED  BY <1>12, <1>13, <1>19, <3>1, <3>4, <3>5
  <2>. QED  BY <2>1, <2>2
<1>20. CASE m.kind = "HardLink"
  <2>. DEFINE s2 == s1 \o <<op("Link")>>
              s3 == s2 \o <<op("Payload")>>
              s4 == s2 \o <<op("Truncate")>>
              s5 == s4 \o <<op("Write")>>
  <2>1. Program(m) = s2 \o IF m.size = 0 THEN <<op("Payload")>> ELSE <<op("Truncate"), op("Write")>>
    BY <1>20 DEF Program, op, p, Cleared, flush
  <2>2. Counts(m) /\ p # <<>>
    BY <1>1, <1>5, <1>20
  <2>3. Row(s1) /\ \A o : Fits(s1[Len(s1)], o, file)
    BY <1>18, <1>20, <2>2
  <2>. HIDE DEF s1
  <2>4. /\ op("Link").op = "Link" /\ op("Payload").op = "Payload" /\ op("Truncate").op = "Truncate"
        /\ op("Write").op = "Write" /\ op("Truncate") \in OpType /\ op("Write") \in OpType
    BY <1>2, <1>14
  <2>5. Row(s2) /\ s2 \in Seq(OpType) /\ s2[Len(s2)] = op("Link")
    BY <1>5, <1>10, <1>14, <2>2, <2>3 DEF Row
  <2>6. \A o : Fits(op("Link"), o, file)
    BY <2>4 DEF Fits
  <2>. HIDE DEF s2
  <2>7. CASE m.size = 0
    <3>1. Program(m) = s3
      BY <2>1, <2>7
    <3>2. Row(s3) /\ s3[Len(s3)] = op("Payload")
      BY <1>5, <1>10, <1>14, <2>2, <2>5, <2>6
    <3>3. ~Open(s3[Len(s3)], file)
      BY <2>4, <3>2 DEF Open
    <3>. HIDE DEF s3
    <3>. QED  BY <1>12, <1>13, <1>20, <3>1, <3>2, <3>3
  <2>8. CASE m.size # 0
    <3>1. Program(m) = s5
      <4>1. Program(m) = s2 \o <<op("Truncate"), op("Write")>>
        BY <2>1, <2>8
      <4>. QED  BY <2>4, <2>5, <4>1, Rows
    <3>2. Row(s4) /\ s4[Len(s4)] = op("Truncate")
      BY <1>5, <1>10, <1>14, <2>2, <2>5, <2>6
    <3>3. Fits(op("Truncate"), op("Write"), file)
      BY <2>4 DEF Fits
    <3>. HIDE DEF s4
    <3>4. Row(s5) /\ s5[Len(s5)] = op("Write")
      BY <1>5, <1>10, <1>14, <2>2, <2>8, <3>2, <3>3
    <3>5. ~Open(s5[Len(s5)], file)
      BY <2>4, <3>4 DEF Open
    <3>. HIDE DEF s5
    <3>. QED  BY <1>12, <1>13, <1>20, <3>1, <3>4, <3>5
  <2>. QED  BY <2>7, <2>8
<1>. QED  BY <1>3, <1>15, <1>16, <1>17, <1>19, <1>20

LEMMA FellRow ==
  ASSUME Fell
  PROVE  /\ todo' = <<>> \/ (/\ Elems(todo') = {Op("Flush", <<>>), Op("Return", <<>>)}
                             /\ todo' = << Op("Flush", <<>>), Op("Return", <<>>) >>)
         /\ Calm(todo') /\ \A e \in Elems(todo') : e.op \in {"Flush", "Return"}
         /\ todo' # <<>> => Head(todo').op = "Flush"
         /\ phase' = phase
<1>. DEFINE f == Op("Flush", <<>>)
            r == Op("Return", <<>>)
<1>1. f \in OpType /\ r \in OpType /\ f.op = "Flush" /\ r.op = "Return"
  BY OnDiskRoot DEF Op, OpType, OpNames
<1>2. (todo' = <<>> \/ todo' = <<f, r>>) /\ phase' = phase
  BY DEF Fell, FailWith
<1>. HIDE DEF f, r
<1>3. Elems(<<f, r>>) = {f, r} /\ Elems(<<>>) = {}
  BY LeftNone DEF Elems
<1>4. <<f, r>> \in Seq(OpType) /\ <<>> \in Seq(OpType)
  BY <1>1
<1>5. Calm(todo') /\ \A e \in Elems(todo') : e.op \in {"Flush", "Return"}
  BY <1>1, <1>2, <1>3, <1>4 DEF Calm
<1>. QED  BY <1>1, <1>2, <1>3, <1>5 DEF f, r

LEMMA CalmKeeps ==
  ASSUME Calm(todo'), \A e \in Elems(todo') : e.op \notin MemberOps,
         todo' # <<>> => Head(todo').op # "Write"
  PROVE  SuitInv' /\ FollowInv' /\ ~(Doing("Write"))'
<1>1. SuitInv'
  BY DEF SuitInv, Suits, Elems, MemberOps
<1>2. FollowInv'
  <2>1. \A file : Joined(todo', file) /\ Closed(todo', file)
    BY CalmRow
  <2>. QED  BY <2>1 DEF FollowInv, Joined, Closed, Fits, Open, OfFile
<1>. QED  BY <1>1, <1>2 DEF Doing

LEMMA NextIs ==
  ASSUME Inv, NextMember
  PROVE  /\ todo = <<>> /\ Elems(todo) = {} /\ phase = "running" /\ result = "Pending"
         /\ task.files = <<>> /\ task.stage = "start" /\ task.error = "None" /\ Sound
         /\ UNCHANGED <<diskVars, rootVars>> /\ Current \in Nat
         /\ \/ /\ \E m \in Members : /\ Member' = m
                                     /\ \/ FailWith("Policy")
                                        \/ todo' = Program(m) /\ UNCHANGED <<phase, result>>
               /\ Current' = Current + 1 /\ \A i \in 1..Current : members'[i] = members[i]
               /\ members'[Current'] = Member'
            \/ FailWith("Archive") /\ UNCHANGED members
            \/ /\ todo' = << Op("Flush", <<>>), Op("Validate", <<>>) >>
               /\ UNCHANGED <<members, phase, result>>
<1>1. TypeInv /\ TaskInv
  BY DEF Inv
<1>2. todo = <<>> /\ phase = "running" /\ UNCHANGED <<diskVars, rootVars>> /\ members \in Seq(Members)
  BY <1>1 DEF NextMember, TypeInv
<1>3. Elems(todo) = {}
  BY <1>2, LeftNone
<1>4. /\ task.files = <<>> /\ task.stage = "start" /\ result = "Pending" /\ task.error = "None"
  BY <1>1, <1>2, <1>3 DEF TaskInv, Doing
<1>5. Sound /\ Current \in Nat
  BY <1>2, <1>3, <1>4 DEF Sound, Current
<1>6. ASSUME NEW m \in Members, members' = Append(members, m)
      PROVE  /\ Member' = m /\ Current' = Current + 1 /\ \A i \in 1..Current : members'[i] = members[i]
             /\ members'[Current'] = Member'
  BY <1>2, <1>6 DEF Current, Member
<1>. QED  BY <1>2, <1>3, <1>4, <1>5, <1>6 DEF NextMember

(* The row stays one that suits the member, and contents are written right *)
(* after their file was created or emptied.                                *)
LEMMA RowStep ==
  ASSUME Inv, SuitInv, FollowInv, Step
  PROVE  /\ SuitInv' /\ FollowInv'
         /\ (Doing("Write"))' =>
              /\ todo # <<>> /\ Head(todo).op \in {"Create", "Truncate"} /\ Then(<<>>)
              /\ phase # "dropped" /\ UNCHANGED members
<1>1. TypeInv /\ WriteInv /\ todo \in Seq(OpType) /\ UNCHANGED policy
  BY DEF Inv, TypeInv, Step
<1>2. CASE Fell
  <2>1. /\ Calm(todo') /\ \A e \in Elems(todo') : e.op \in {"Flush", "Return"}
        /\ todo' # <<>> => Head(todo').op = "Flush"
    BY <1>2, FellRow
  <2>. QED  BY <2>1, CalmKeeps DEF MemberOps
<1>3. CASE Return
  <2>1. todo' = <<>>
    BY <1>3 DEF Return
  <2>2. Calm(todo') /\ Elems(todo') = {}
    BY <2>1, LeftNone DEF Calm
  <2>. QED  BY <2>1, <2>2, CalmKeeps
<1>4. CASE NextMember
  <2>1. CASE FailWith("Policy") \/ FailWith("Archive")
    BY <1>2, <2>1 DEF Fell
  <2>2. CASE todo' = << Op("Flush", <<>>), Op("Validate", <<>>) >>
    <3>. DEFINE f == Op("Flush", <<>>)
                v == Op("Validate", <<>>)
    <3>1. f \in OpType /\ v \in OpType /\ f.op = "Flush" /\ v.op = "Validate"
      BY OnDiskRoot DEF Op, OpType, OpNames
    <3>2. todo' = <<f, v>>
      BY <2>2
    <3>. HIDE DEF f, v
    <3>3. Elems(<<f, v>>) = {f, v} /\ <<f, v>> \in Seq(OpType) /\ Head(<<f, v>>) = f
      BY <3>1 DEF Elems
    <3>4. Calm(todo')
      BY <3>1, <3>2, <3>3 DEF Calm
    <3>. QED  BY <3>1, <3>2, <3>3, <3>4, CalmKeeps DEF MemberOps
  <2>3. ASSUME NEW m \in Members, Member' = m, todo' = Program(m)
        PROVE  SuitInv' /\ FollowInv' /\ ~(Doing("Write"))'
    <3>1. /\ \A e \in Elems(Program(m)) : Suits(e.op, m)
          /\ Joined(Program(m), m.kind = "File") /\ Closed(Program(m), m.kind = "File")
          /\ Program(m) # <<>> => Head(Program(m)).op # "Write"
      BY ProgramSuits DEF Fine
    <3>2. SuitInv'
      BY <1>1, <2>3, <3>1 DEF SuitInv, Suits, Counts, Elems
    <3>3. FollowInv'
      BY <2>3, <3>1 DEF FollowInv, Joined, Closed, Fits, Open, OfFile
    <3>. QED  BY <2>3, <3>1, <3>2, <3>3 DEF Doing
  <2>. QED  BY <1>4, <2>1, <2>2, <2>3, NextIs
<1>5. ASSUME NEW ops, Moves(ops), UNCHANGED members
      PROVE  /\ SuitInv' /\ FollowInv'
             /\ (Doing("Write"))' =>
                  /\ todo # <<>> /\ Head(todo).op \in {"Create", "Truncate"} /\ Then(<<>>)
                  /\ phase # "dropped"
  <2>1. /\ todo # <<>> /\ Then(ops) /\ ops \in Seq(OpType)
        /\ Joined(ops, OfFile)
        /\ ops # <<>> /\ Open(ops[Len(ops)], OfFile) => ops[Len(ops)].op = Head(todo).op
        /\ \A e \in Elems(ops) :
             /\ e.op \in MemberOps => Head(todo).op \in MemberOps
             /\ e.op = "Directory" => Head(todo).op = "Directory"
             /\ e.op # "Write"
    BY <1>5 DEF Moves
  <2>2. todo' = IF phase = "dropped" THEN <<>> ELSE ops \o Tail(todo)
    BY <2>1 DEF Then
  <2>3. CASE phase = "dropped"
    <3>1. todo' = <<>>
      BY <2>2, <2>3
    <3>2. Calm(todo') /\ Elems(todo') = {}
      BY <3>1, LeftNone DEF Calm
    <3>. QED  BY <3>1, <3>2, CalmKeeps
  <2>4. CASE phase # "dropped"
    <3>1. todo' = ops \o Tail(todo)
      BY <2>2, <2>4
    <3>2. Elems(todo') = Elems(ops) \cup Elems(Tail(todo)) /\ Elems(todo) = {Head(todo)} \cup Elems(Tail(todo))
      BY <1>1, <2>1, <2>2, <2>4, ElemsThen, TailElems
    <3>3. \A e \in Elems(todo') : Suits(e.op, Member)
      BY <2>1, <3>2 DEF SuitInv, Suits
    <3>4. SuitInv'
      BY <1>1, <1>5, <3>3 DEF SuitInv, Suits, Counts, Elems, Member, Current
    <3>5. Joined(todo, OfFile) /\ Closed(todo, OfFile)
      BY <2>4 DEF FollowInv
    <3>6. Joined(todo', OfFile) /\ Closed(todo', OfFile)
      <4>1. PICK t : t = todo'
        OBVIOUS
      <4>2. t = ops \o Tail(todo)
        BY <3>1, <4>1
      <4>3. Joined(t, OfFile) /\ Closed(t, OfFile)
        BY <1>1, <2>1, <3>5, <4>2, FollowThen
      <4>. QED  BY <4>1, <4>3
    <3>7. FollowInv'
      <4>1. OfFile' = OfFile
        BY <1>5 DEF OfFile, Member, Current
      <4>. QED  BY <3>6, <4>1 DEF FollowInv, Joined, Closed, Fits, Open
    <3>8. ASSUME todo' # <<>>, Head(todo').op = "Write"
          PROVE  Head(todo).op \in {"Create", "Truncate"} /\ ops = <<>>
      <4>1. PICK t : t = todo'
        OBVIOUS
      <4>2. t = ops \o Tail(todo)
        BY <3>1, <4>1
      <4>3. /\ Len(todo) \in Nat \ {0} /\ Len(ops) \in Nat /\ Len(t) = Len(ops) + Len(todo) - 1
            /\ \A k \in 1..Len(t) :
                 IF k <= Len(ops) THEN k \in 1..Len(ops) /\ t[k] = ops[k]
                 ELSE k - Len(ops) + 1 \in 2..Len(todo) /\ t[k] = todo[k - Len(ops) + 1]
            /\ ops # <<>> => t # <<>> /\ Head(t) = Head(ops)
            /\ t \in Seq(OpType)
        BY <1>1, <2>1, <4>2, ThenParts
      <4>4. ops = <<>>
        <5>1. ASSUME ops # <<>> PROVE FALSE
          <6>1. Head(ops) = ops[1] /\ ops[1] \in Elems(ops)
            BY <2>1, <5>1, SeqEnd DEF Elems
          <6>. QED  BY <2>1, <3>8, <4>1, <4>3, <5>1, <6>1
        <5>. QED  BY <5>1
      <4>5. Len(ops) = 0 /\ Head(t) = t[1] /\ 1 \in 1..Len(t)
        BY <3>8, <4>1, <4>3, <4>4, SeqEnd
      <4>6. 2 \in 2..Len(todo) /\ t[1] = todo[2]
        <5>1. ~(1 <= Len(ops)) /\ 1 - Len(ops) + 1 = 2
          BY <4>5
        <5>2. 1 - Len(ops) + 1 \in 2..Len(todo) /\ t[1] = todo[1 - Len(ops) + 1]
          BY <4>3, <4>5, <5>1
        <5>. QED  BY <5>1, <5>2
      <4>7. todo[2 - 1].op \in {"Create", "Truncate"}
        BY <1>1, <3>8, <4>1, <4>5, <4>6 DEF WriteInv
      <4>8. 2 - 1 = 1 /\ Head(todo) = todo[1]
        BY <1>1, <2>1, SeqEnd
      <4>. QED  BY <4>4, <4>7, <4>8
    <3>9. (Doing("Write"))' => Head(todo).op \in {"Create", "Truncate"} /\ ops = <<>>
      BY <3>8 DEF Doing
    <3>. QED  BY <2>1, <2>4, <3>4, <3>7, <3>9
  <2>. QED  BY <2>3, <2>4
<1>6. ASSUME UNCHANGED members, Moved
      PROVE  /\ SuitInv' /\ FollowInv'
             /\ (Doing("Write"))' =>
                  /\ todo # <<>> /\ Head(todo).op \in {"Create", "Truncate"} /\ Then(<<>>)
                  /\ phase # "dropped"
  BY <1>5, <1>6 DEF Moved
<1>. QED  BY <1>2, <1>3, <1>4, <1>6, StepMoves

(* Outside of the call's own stack the row stays, or is cut off.           *)
LEMMA RowElse ==
  ASSUME Inv, SuitInv, FollowInv, TaskStep \/ DropFuture \/ UNCHANGED extractionVars
  PROVE  SuitInv' /\ FollowInv'
<1>1. UNCHANGED <<policy, members>>
  BY DEF TaskStep, DropFuture, extractionVars
<1>2. CASE UNCHANGED <<todo, phase>>
  <2>1. SuitInv'
    BY <1>1, <1>2 DEF SuitInv, Suits, Counts, Elems, Member, Current
  <2>2. FollowInv'
    BY <1>1, <1>2 DEF FollowInv, Joined, Closed, Fits, Open, OfFile, Member, Current
  <2>. QED  BY <2>1, <2>2
<1>3. CASE DropFuture
  <2>1. phase' = "dropped" /\ (todo' = <<>> \/ (todo # <<>> /\ todo' = <<Head(todo)>>))
    BY <1>3 DEF DropFuture
  <2>2. \A e \in Elems(todo') : e \in Elems(todo)
    <3>1. CASE todo' = <<>>
      BY <3>1, LeftNone
    <3>2. CASE todo # <<>> /\ todo' = <<Head(todo)>>
      <4>1. Elems(<<Head(todo)>>) = {Head(todo)}
        BY ElemsOne
      <4>2. Head(todo) \in Elems(todo)
        BY <3>2, TailElems DEF Inv, TypeInv
      <4>. QED  BY <3>2, <4>1, <4>2
    <3>. QED  BY <2>1, <3>1, <3>2
  <2>3. SuitInv'
    BY <1>1, <2>2 DEF SuitInv, Suits, Counts, Elems, Member, Current
  <2>4. FollowInv'
    BY <2>1 DEF FollowInv
  <2>. QED  BY <2>3, <2>4
<1>4. TaskStep \/ UNCHANGED extractionVars => UNCHANGED <<todo, phase>>
  BY DEF TaskStep, callVars, extractionVars
<1>. QED  BY <1>2, <1>3, <1>4

-----------------------------------------------------------------------------
(* Inodes and those who made them.                                         *)

(* An inode is that of a member so far; that of the current one is at its  *)
(* own place only.                                                         *)
Owned(q) ==
  NodeAt(q).type = "File" =>
    /\ NodeAt(q).inode \in DOMAIN data /\ NodeAt(q).inode \in 0..Current
    /\ NodeAt(q).inode = Current /\ Current > 0 => OfFile /\ q = OnDisk(Member.path)

InodeInv == \A q : Owned(q)

Sent(f) == f.by \in 1..Current /\ (f.by = Current => OfFile /\ f.path = Member.path)

ByInv == \A f \in Queued : Sent(f)

Fresh(q) ==
  /\ Doing("Create") /\ q = OnDisk(Path) /\ NodeAt(q)'.inode = Current /\ Current \in DOMAIN data'
Named(q) ==
  Doing("Link") /\ \E r : NodeAt(r).type = "File" /\ NodeAt(q)'.inode = NodeAt(r).inode

LEMMA WrittenMore ==
  ASSUME NEW inode, NEW by, NEW done, Written(inode, by, done)
  PROVE  /\ DOMAIN data' = DOMAIN data \cup {inode} /\ data'[inode].done = done
         /\ \A n \in DOMAIN data : n # inode => data'[n] = data[n]
BY DEF Written

(* Where the files on the disk come from.                                  *)
LEMMA StepFiles ==
  ASSUME Inv, Step
  PROVE  /\ DOMAIN data \subseteq DOMAIN data'
         /\ \A q : NodeAt(q)'.type = "File" => NodeAt(q)' = NodeAt(q) \/ Fresh(q) \/ Named(q)
<1>. DEFINE Goal == /\ DOMAIN data \subseteq DOMAIN data'
                    /\ \A q : NodeAt(q)'.type = "File" => NodeAt(q)' = NodeAt(q) \/ Fresh(q) \/ Named(q)
<1>1. ASSUME NEW p, p # <<>>, NEW node, Put(p, node), DOMAIN data \subseteq DOMAIN data',
             node.type = "File" => \A q : q = p /\ NodeAt(q)' = node => Fresh(q) \/ Named(q)
      PROVE  Goal
  <2>1. \A q : NodeAt(q)' = IF q = p THEN node ELSE NodeAt(q)
    BY <1>1, PutNode
  <2>. QED  BY <1>1, <2>1
<1>2. UNCHANGED fs /\ DOMAIN data \subseteq DOMAIN data' => Goal
  BY SameNode
<1>3. CASE NextMember \/ Flush
  <2>1. UNCHANGED <<fs, data>>
    BY <1>3 DEF NextMember, Flush, diskVars
  <2>. QED  BY <1>2, <2>1
<1>4. CASE Operation /\ UNCHANGED task
  <2>1. CASE Payload \/ Queue \/ Enqueue \/ Await \/ Target \/ Reserve \/ Validate \/ Return
    <3>1. UNCHANGED <<fs, data>>
      BY <2>1 DEF Payload, Queue, Enqueue, Await, Target, Reserve, Validate, Return, Fails, diskVars
    <3>. QED  BY <1>2, <3>1
  <2>2. CASE Write \/ Truncate
    <3>1. UNCHANGED fs /\ DOMAIN data \subseteq DOMAIN data'
      BY <2>2, WrittenMore DEF Write, Truncate, Fails, diskVars
    <3>. QED  BY <1>2, <3>1
  <2>3. CASE Replace
    <3>1. UNCHANGED data /\ (UNCHANGED fs \/ (SpotNode # Nothing /\ Remove(Spot)))
      BY <2>3 DEF Replace, Fails, diskVars
    <3>2. CASE SpotNode # Nothing /\ Remove(Spot)
      <4>1. Spot # <<>>
        BY <3>2 DEF SpotNode, Nowhere
      <4>2. \A q : NodeAt(q)' = IF q = Spot THEN Nothing ELSE NodeAt(q)
        BY <3>2, <4>1, RemoveNode
      <4>. QED  BY <3>1, <4>2 DEF Nothing
    <3>. QED  BY <1>2, <3>1, <3>2
  <2>4. CASE EnsureDirectory
    <3>1. UNCHANGED data /\ (UNCHANGED fs \/ (Spot # Nowhere /\ Put(Spot, Directory(Current))))
      BY <2>4 DEF EnsureDirectory, Fails, diskVars
    <3>2. Directory(Current).type # "File"
      BY DEF Directory
    <3>. QED  BY <1>1, <1>2, <3>1, <3>2 DEF Nowhere
  <2>5. CASE Create
    <3>1. CASE UNCHANGED diskVars
      BY <1>2, <3>1 DEF diskVars
    <3>2. CASE /\ Spot # Nowhere /\ SpotNode = Nothing
               /\ Put(Spot, File(Current, Current)) /\ Written(Current, Current, FALSE)
      <4>1. DOMAIN data \subseteq DOMAIN data' /\ Current \in DOMAIN data'
        BY <3>2, WrittenMore
      <4>2. todo # <<>> /\ Head(todo).op = "Create" /\ Doing("Create")
        BY <2>5 DEF Create, Doing
      <4>3. Spot = OnDisk(Path)
        BY <3>2, <4>2, Here DEF Settled
      <4>4. File(Current, Current).inode = Current
        BY DEF File
      <4>. QED  BY <1>1, <3>2, <4>1, <4>2, <4>3, <4>4 DEF Fresh, Nowhere
    <3>. QED  BY <2>5, <3>1, <3>2 DEF Create, Fails
  <2>6. CASE HardLink
    <3>1. CASE UNCHANGED diskVars
      BY <1>2, <3>1 DEF diskVars
    <3>2. CASE ~UNCHANGED diskVars
      <4>1. PICK spot, r : /\ spot # Nowhere /\ NodeAt(r).type = "File"
                           /\ Put(spot, File(NodeAt(r).inode, Current)) /\ UNCHANGED data
        BY <2>6, <3>2 DEF HardLink, Fails
      <4>2. Doing("Link")
        BY <2>6 DEF HardLink
      <4>3. File(NodeAt(r).inode, Current).inode = NodeAt(r).inode
        BY DEF File
      <4>. QED  BY <1>1, <4>1, <4>2, <4>3 DEF Named, Nowhere
    <3>. QED  BY <3>1, <3>2
  <2>7. CASE MakeLink
    <3>1. /\ UNCHANGED data
          /\ \/ UNCHANGED fs \/ (SpotNode # Nothing /\ Remove(Spot))
             \/ \E to, by : Spot # Nowhere /\ Put(Spot, Link(to, by))
      BY <2>7 DEF MakeLink, Fails, diskVars
    <3>2. CASE SpotNode # Nothing /\ Remove(Spot)
      <4>1. Spot # <<>>
        BY <3>2 DEF SpotNode, Nowhere
      <4>2. \A q : NodeAt(q)' = IF q = Spot THEN Nothing ELSE NodeAt(q)
        BY <3>2, <4>1, RemoveNode
      <4>. QED  BY <3>1, <4>2 DEF Nothing
    <3>3. ASSUME NEW to, NEW by, Spot # Nowhere, Put(Spot, Link(to, by)) PROVE Goal
      <4>1. Link(to, by).type # "File"
        BY DEF Link
      <4>. QED  BY <1>1, <3>1, <3>3, <4>1 DEF Nowhere
    <3>. QED  BY <1>2, <3>1, <3>2, <3>3
  <2>. HIDE DEF Goal
  <2>. QED  BY <1>4, <2>1, <2>2, <2>3, <2>4, <2>5, <2>6, <2>7 DEF Operation
<1>. QED  BY <1>3, <1>4 DEF Step

LEMMA InodeStep ==
  ASSUME Inv, InodeInv, Step
  PROVE  InodeInv'
<1>1. TypeInv /\ DOMAIN data \subseteq DOMAIN data' /\ Current \in Nat
  BY StepFiles DEF Inv, TypeInv, Current
<1>2. CASE NextMember
  <2>1. Current' \in {Current, Current + 1} /\ UNCHANGED <<fs, data>>
        /\ (Current' = Current => UNCHANGED members)
    <3>1. (Current' = Current + 1) \/ (UNCHANGED members)
      BY <1>2, NextIs
    <3>2. (UNCHANGED members) => Current' = Current
      BY DEF Current
    <3>. QED  BY <1>1, <1>2, <3>1, <3>2, NextIs DEF diskVars
  <2>2. ASSUME NEW q PROVE Owned(q)'
    <3>1. NodeAt(q)' = NodeAt(q) /\ Owned(q)
      BY <2>1, SameNode DEF InodeInv
    <3>2. PICK n : n = NodeAt(q)
      OBVIOUS
    <3>3. CASE Current' = Current + 1
      <4>1. n.type = "File" => n.inode \in DOMAIN data' /\ n.inode \in 0..Current' /\ n.inode # Current'
        BY <1>1, <2>1, <3>1, <3>2, <3>3 DEF Owned
      <4>. QED  BY <3>1, <3>2, <4>1 DEF Owned
    <3>4. CASE Current' = Current
      BY <2>1, <3>1, <3>4 DEF Owned, OfFile, Member
    <3>. QED  BY <2>1, <3>3, <3>4
  <2>. QED  BY <2>2 DEF InodeInv
<1>3. CASE ~NextMember
  <2>1. UNCHANGED members
    BY <1>3 DEF Step
  <2>2. Current' = Current /\ Member' = Member /\ OfFile' = OfFile
    BY <2>1 DEF Current, Member, OfFile
  <2>3. ASSUME NEW q PROVE Owned(q)'
    <3>1. CASE NodeAt(q)' = NodeAt(q)
      BY <1>1, <2>2, <3>1 DEF Owned, InodeInv
    <3>2. CASE Fresh(q)
      <4>1. todo # <<>> /\ Head(todo).op = "Create"
        BY <3>2 DEF Fresh, Doing
      <4>2. Current \in Nat \ {0} /\ Path = Member.path /\ Placed(Head(todo))
        BY <4>1, Here, Now DEF Settled, Closing
      <4>3. OfFile
        BY <4>1, <4>2 DEF Placed, OfFile
      <4>4. Current \in 0..Current
        BY <4>2
      <4>. QED  BY <2>2, <3>2, <4>2, <4>3, <4>4 DEF Owned, Fresh
    <3>3. CASE Named(q)
      <4>1. todo # <<>> /\ Head(todo).op = "Link"
        BY <3>3 DEF Named, Doing
      <4>2. PICK r : NodeAt(r).type = "File" /\ NodeAt(q)'.inode = NodeAt(r).inode
        BY <3>3 DEF Named
      <4>3. Owned(r) /\ Placed(Head(todo))
        BY <4>1, Now DEF InodeInv, Closing
      <4>4. ~OfFile
        BY <4>1, <4>3 DEF Placed, OfFile
      <4>. QED  BY <1>1, <2>2, <4>2, <4>3, <4>4 DEF Owned
    <3>. QED  BY <3>1, <3>2, <3>3, StepFiles DEF Owned
  <2>. QED  BY <2>3 DEF InodeInv
<1>. QED  BY <1>2, <1>3

LEMMA ByStep ==
  ASSUME Inv, ByInv, Step
  PROVE  ByInv'
<1>1. TypeInv /\ Current \in Nat
  BY DEF Inv, TypeInv, Current
<1>2. CASE NextMember
  <2>1. Current' \in {Current, Current + 1} /\ UNCHANGED <<buffered, task>>
        /\ (Current' = Current => UNCHANGED members)
    <3>1. (Current' = Current + 1) \/ (UNCHANGED members)
      BY <1>2, NextIs
    <3>2. (UNCHANGED members) => Current' = Current
      BY DEF Current
    <3>3. UNCHANGED <<buffered, task>>
      <4>1. NextMember => UNCHANGED buffered
        BY DEF NextMember, rootVars
      <4>2. UNCHANGED task
        BY <1>2 DEF Step, NextMember, Flush, Operation, Doing, Payload, Queue, Enqueue, Await, Replace,
             EnsureDirectory, Create, Write, Target, HardLink, Truncate, Reserve, Validate, MakeLink, Return
      <4>. QED  BY <1>2, <4>1, <4>2
    <3>. QED  BY <1>1, <3>1, <3>2, <3>3
  <2>2. Queued' = Queued
    BY <2>1, StillQueued
  <2>3. ASSUME NEW f \in Queued PROVE Sent(f)'
    <3>1. Sent(f)
      BY DEF ByInv
    <3>2. CASE Current' = Current + 1
      <4>1. f.by \in 1..Current' /\ f.by # Current'
        BY <1>1, <3>1, <3>2 DEF Sent
      <4>. QED  BY <4>1 DEF Sent
    <3>3. CASE Current' = Current
      BY <2>1, <3>1, <3>3 DEF Sent, OfFile, Member
    <3>. QED  BY <2>1, <3>2, <3>3
  <2>. QED  BY <2>2, <2>3 DEF ByInv
<1>3. CASE ~NextMember
  <2>1. UNCHANGED members
    BY <1>3 DEF Step
  <2>2. \A f : Sent(f) => Sent(f)'
    BY <2>1 DEF Sent, Current, Member, OfFile
  <2>3. CASE Flush
    BY <2>2, <2>3, FlushQueued DEF ByInv
  <2>4. CASE Operation /\ UNCHANGED <<buffered, task>>
    BY <2>2, <2>4, StillQueued DEF ByInv
  <2>5. CASE Enqueue /\ UNCHANGED task
    <3>1. todo # <<>> /\ Head(todo).op = "Enqueue" /\ buffered \in Seq(FileType)
      BY <1>1, <2>5 DEF Enqueue, Doing, TypeInv
    <3>2. Current \in Nat \ {0} /\ Path = Member.path /\ OfFile
      BY <3>1, Here, Now DEF Settled, Closing, Placed, OfFile
    <3>3. PICK f : f.path = Path /\ f.by = Current /\ buffered' \in {buffered, Append(buffered, f)}
      <4>. DEFINE file == [path |-> Path, size |-> Member.size, by |-> Current,
                          handle |-> IF handle.entry = Parent(Path) THEN handle ELSE NoHandle,
                          replacement |-> Replacement(Path)]
      <4>1. file.path = Path /\ file.by = Current
        OBVIOUS
      <4>2. buffered' \in {buffered, Append(buffered, file)}
        <5>. HIDE DEF file
        <5>. QED  BY <2>5 DEF Enqueue, rootVars, file
      <4>. HIDE DEF file
      <4>. QED  BY <4>1, <4>2
    <3>4. \A g \in Elems(buffered') : g \in Elems(buffered) \/ g = f
      <4>1. CASE buffered' = buffered
        BY <4>1
      <4>2. CASE buffered' = Append(buffered, f)
        <5>1. PICK n : n = Len(buffered) /\ n \in Nat
          BY <3>1
        <5>2. \A k \in 1..(n + 1) : Append(buffered, f)[k] = f
                                    \/ (k \in 1..n /\ Append(buffered, f)[k] = buffered[k])
          BY <3>1, <5>1
        <5>3. Len(Append(buffered, f)) = n + 1
          BY <3>1, <5>1
        <5>. QED  BY <4>2, <5>1, <5>2, <5>3 DEF Elems
      <4>. QED  BY <3>3, <4>1, <4>2
    <3>5. \A g \in Queued' : g \in Queued \/ g = f
      BY <2>5, <3>4 DEF Queued
    <3>6. Sent(f)
      BY <1>1, <3>2, <3>3 DEF Sent
    <3>. QED  BY <2>2, <3>5, <3>6 DEF ByInv
  <2>6. Operation => Enqueue \/ UNCHANGED buffered
    BY DEF Operation, Payload, Queue, Await, Replace, EnsureDirectory, Create, Write, Target, HardLink,
           Truncate, Reserve, Validate, MakeLink, Return, Fails, rootVars
  <2>. QED  BY <1>3, <2>3, <2>4, <2>5, <2>6 DEF Step
<1>. QED  BY <1>2, <1>3

LEMMA TaskStepIs ==
  ASSUME Inv, TaskStep
  PROVE  /\ task.files # <<>> /\ UNCHANGED <<policy, members, rootVars, cancelled, callVars>>
         /\ task'.files \in {task.files, Tail(task.files), <<>>}
         /\ Queued' \subseteq Queued
<1>1. TypeInv /\ TaskInv /\ UNCHANGED <<policy, members, rootVars, cancelled, callVars>>
  BY DEF TaskStep, Inv
<1>2. task.files # <<>>
  BY <1>1 DEF TaskStep, CheckCancellation, GoesOn, ClearLeaf, CreateFile, FillFile, SkipFiles, TaskInv
<1>3. task \in TaskType /\ Elems(task.files) = {Batched} \cup Elems(Tail(task.files))
  BY <1>2, Writing
<1>4. task'.files \in {task.files, Tail(task.files), <<>>}
  <2>1. CASE \E stage : task' = [task EXCEPT !.stage = stage]
    BY <1>3, <2>1 DEF TaskType
  <2>2. CASE task' = [task EXCEPT !.files = Tail(@), !.stage = "start"]
    BY <1>3, <2>2 DEF TaskType
  <2>3. CASE \E error : task' = [NoTask EXCEPT !.error = error]
    BY <2>3 DEF NoTask
  <2>4. CASE task' = NoTask
    BY <2>4 DEF NoTask
  <2>5. CASE CheckCancellation
    BY <2>1, <2>5 DEF CheckCancellation
  <2>6. CASE ClearLeaf
    BY <2>1, <2>3, <2>6 DEF ClearLeaf, BatchFails
  <2>7. CASE CreateFile
    BY <2>1, <2>3, <2>7 DEF CreateFile, BatchFails
  <2>8. CASE FillFile
    BY <2>2, <2>3, <2>8 DEF FillFile, BatchFails
  <2>. QED  BY <2>4, <2>5, <2>6, <2>7, <2>8 DEF TaskStep, SkipFiles
<1>5. Elems(task'.files) \subseteq Elems(task.files)
  BY <1>3, <1>4, LeftNone
<1>6. Queued' \subseteq Queued
  BY <1>1, <1>5 DEF Queued, rootVars
<1>. QED  BY <1>1, <1>2, <1>4, <1>6

LEMMA OwnElse ==
  ASSUME Inv, InodeInv, ByInv, TaskStep \/ DropFuture \/ UNCHANGED extractionVars
  PROVE  InodeInv' /\ ByInv'
<1>1. UNCHANGED members
  BY DEF TaskStep, DropFuture, extractionVars
<1>2. Current' = Current /\ Member' = Member /\ OfFile' = OfFile /\ Current \in Nat
  BY <1>1 DEF Current, Member, OfFile, Inv, TypeInv
<1>3. \A f : Sent(f) => Sent(f)'
  BY <1>2 DEF Sent
<1>4. ASSUME DOMAIN data \subseteq DOMAIN data', NEW q, NodeAt(q)' = NodeAt(q) PROVE Owned(q)'
  BY <1>2, <1>4 DEF Owned, InodeInv
<1>5. CASE DropFuture \/ UNCHANGED extractionVars
  <2>1. UNCHANGED <<fs, data, buffered, task>>
    BY <1>5 DEF DropFuture, extractionVars, diskVars, rootVars
  <2>2. Queued' = Queued /\ \A q : NodeAt(q)' = NodeAt(q)
    BY <2>1, StillQueued, SameNode
  <2>. QED  BY <1>3, <1>4, <2>1, <2>2 DEF ByInv, InodeInv
<1>6. CASE TaskStep
  <2>1. task.files # <<>> /\ Queued' \subseteq Queued
    BY <1>6, TaskStepIs
  <2>2. /\ Batched \in FileType /\ Batched \in Queued
        /\ BatchedSpot \in {OnDisk(Batched.path), Nowhere}
    BY <2>1, Writing
  <2>3. ByInv'
    BY <1>3, <2>1 DEF ByInv
  <2>4. CASE UNCHANGED fs /\ DOMAIN data \subseteq DOMAIN data'
    BY <1>4, <2>3, <2>4, SameNode DEF InodeInv
  <2>5. CASE BatchedNode # Nothing /\ Remove(BatchedSpot) /\ UNCHANGED data
    <3>1. BatchedSpot # <<>>
      BY <2>5 DEF BatchedNode, Nowhere
    <3>2. \A q : NodeAt(q)' = IF q = BatchedSpot THEN Nothing ELSE NodeAt(q)
      BY <2>5, <3>1, RemoveNode
    <3>3. ASSUME NEW q PROVE Owned(q)'
      <4>1. CASE q = BatchedSpot
        BY <3>2, <4>1 DEF Owned, Nothing
      <4>2. CASE q # BatchedSpot
        BY <1>4, <2>5, <3>2, <4>2
      <4>. QED  BY <4>1, <4>2
    <3>. QED  BY <2>3, <3>3 DEF InodeInv
  <2>6. CASE BatchedSpot # Nowhere /\ Put(BatchedSpot, File(Batched.by, Batched.by))
             /\ Written(Batched.by, Batched.by, FALSE)
    <3>1. PICK node : node = File(Batched.by, Batched.by)
      OBVIOUS
    <3>2. node.inode = Batched.by /\ DOMAIN data' = DOMAIN data \cup {Batched.by}
      BY <2>6, <3>1, WrittenMore DEF File
    <3>3. BatchedSpot # <<>> /\ Put(BatchedSpot, node)
      BY <2>6, <3>1 DEF Nowhere
    <3>4. \A q : NodeAt(q)' = IF q = BatchedSpot THEN node ELSE NodeAt(q)
      BY <3>3, PutNode
    <3>5. Sent(Batched) /\ BatchedSpot = OnDisk(Batched.path)
      BY <2>2, <2>6 DEF ByInv
    <3>6. ASSUME NEW q PROVE Owned(q)'
      <4>1. CASE q = BatchedSpot
        <5>1. Batched.by \in 0..Current /\ (Batched.by = Current => OfFile /\ Batched.path = Member.path)
          BY <1>2, <3>5 DEF Sent
        <5>2. NodeAt(q)' = node
          BY <3>4, <4>1
        <5>. QED  BY <1>2, <3>2, <3>5, <4>1, <5>1, <5>2 DEF Owned
      <4>2. CASE q # BatchedSpot
        BY <1>4, <3>2, <3>4, <4>2
      <4>. QED  BY <4>1, <4>2
    <3>. QED  BY <2>3, <3>6 DEF InodeInv
  <2>7. CASE CheckCancellation \/ SkipFiles \/ BatchFails("Filesystem") \/ BatchFails("PathCollision")
    BY <2>4, <2>7 DEF CheckCancellation, SkipFiles, BatchFails, diskVars
  <2>8. CASE ClearLeaf
    BY <2>5, <2>7, <2>8 DEF ClearLeaf
  <2>9. CASE CreateFile
    BY <2>6, <2>7, <2>9 DEF CreateFile
  <2>10. CASE FillFile
    BY <2>4, <2>7, <2>10, WrittenMore DEF FillFile
  <2>. QED  BY <1>6, <2>7, <2>8, <2>9, <2>10 DEF TaskStep
<1>. QED  BY <1>5, <1>6

LEMMA OwnInit ==
  ASSUME ExtractionInit
  PROVE  InodeInv /\ ByInv
<1>1. /\ fs \in Destinations /\ data = [i \in {0} |-> [by |-> 0, done |-> TRUE]] /\ members = <<>>
      /\ buffered = <<>> /\ task = NoTask
  BY DEF ExtractionInit
<1>2. Queued = {} /\ Current = 0
  BY <1>1, NoneQueued DEF NoTask, Current
<1>3. ASSUME NEW q, NodeAt(q).type = "File" PROVE NodeAt(q).inode = 0
  <2>1. q # <<>> /\ q \in DOMAIN fs /\ NodeAt(q) = fs[q]
    BY <1>3 DEF NodeAt, Directory, Nothing
  <2>2. WasThere(fs[q])
    BY <1>1, <2>1, ExtractionAssumption
  <2>. QED  BY <1>3, <2>1, <2>2 DEF WasThere, Directory, File, Link
<1>. QED  BY <1>1, <1>2, <1>3 DEF InodeInv, Owned, ByInv

-----------------------------------------------------------------------------
(* Which contents are written, and what the state of a path tells.         *)

(* Contents go to the file of the current member.                          *)
WroteInv ==
  phase = "running" /\ Doing("Write") => Member.kind = "HardLink" \/ NodeOf(Path).inode = Current

(* A file no later member takes the path of.                               *)
Last(i) ==
  /\ members[i].kind = "File"
  /\ \A j \in (i + 1)..Current : ~(Counts(members[j]) /\ members[j].path = members[i].path)

(* The current file is still to be put somewhere.                          *)
Unplaced == \E e \in Elems(todo) : e.op \in Placing

KnownInv ==
  Sound => \A i \in 1..Current :
    Last(i) /\ (i < Current \/ ~Unplaced) => StateOf(members[i].path).kind = "File"

LEMMA WroteStep ==
  ASSUME Inv, SuitInv, FollowInv, Step, Inv'
  PROVE  WroteInv'
<1>. SUFFICES ASSUME phase' = "running", (Doing("Write"))'
              PROVE  (Member.kind = "HardLink" \/ NodeOf(Path).inode = Current)'
  BY DEF WroteInv
<1>1. /\ todo # <<>> /\ Head(todo).op \in {"Create", "Truncate"} /\ Then(<<>>)
      /\ phase # "dropped" /\ UNCHANGED members
  BY RowStep
<1>2. Member' = Member /\ Current' = Current /\ todo' # <<>> /\ Head(todo').op = "Write"
  BY <1>1 DEF Member, Current, Doing
<1>3. CASE Head(todo).op = "Truncate"
  <2>1. Placed(Head(todo))
    BY <1>1, Now DEF Closing
  <2>. QED  BY <1>2, <1>3, <2>1 DEF Placed
<1>4. CASE Head(todo).op = "Create"
  <2>1. Create
    BY <1>1, <1>4, StepIs
  <2>2. /\ Path \in Paths \ {<<>>} /\ Path = Member.path /\ Spot \in {OnDisk(Path), Nowhere}
    BY <1>1, <1>4, Here DEF Settled
  <2>3. PICK p : p = Path
    OBVIOUS
  <2>4. Spot # Nowhere /\ Put(Spot, File(Current, Current))
    <3>1. ~\E error : Fails(error)
      <4>1. ASSUME NEW error, Fails(error) PROVE FALSE
        <5>1. todo' = << Op("Flush", <<>>), Op("Return", <<>>) >>
          BY <1>1, <4>1 DEF Fails, FailWith
        <5>2. Head(todo').op = "Flush"
          BY <5>1 DEF Op
        <5>. QED  BY <1>2, <5>2
      <4>. QED  BY <4>1
    <3>2. ~Then(<< Op("Replace", p), Op("Create", p) >>)
      <4>1. ASSUME Then(<< Op("Replace", p), Op("Create", p) >>) PROVE FALSE
        <5>. DEFINE r == Op("Replace", p)
                    c == Op("Create", p)
        <5>1. todo' = <<r, c>> \o Tail(todo) /\ todo \in Seq(OpType)
          BY <1>1, <4>1 DEF Then, Inv, TypeInv
        <5>2. r.op = "Replace" /\ r \in OpType /\ c \in OpType
          BY <2>2, <2>3 DEF Op, OpType, OpNames
        <5>. HIDE DEF r, c
        <5>3. <<r, c>> \in Seq(OpType) /\ <<r, c>> # <<>> /\ Head(<<r, c>>) = r
          BY <5>2
        <5>4. PICK ops \in Seq(OpType) : ops = <<r, c>> /\ ops # <<>> /\ Head(ops) = r
          BY <5>3
        <5>5. todo' = ops \o Tail(todo)
          BY <5>1, <5>4
        <5>6. Head(todo') = Head(ops)
          BY <1>1, <5>1, <5>4, <5>5, ThenParts
        <5>. QED  BY <1>2, <5>2, <5>4, <5>6
      <4>. QED  BY <4>1
    <3>. QED  BY <2>1, <2>3, <3>1, <3>2 DEF Create
  <2>5. Spot # <<>> /\ Spot = OnDisk(p)
    BY <2>2, <2>3, <2>4 DEF Nowhere
  <2>6. NodeAt(OnDisk(p))' = File(Current, Current)
    BY <2>4, <2>5, PutNode
  <2>7. Path' = p
    <3>1. Placed(Head(todo))' /\ Head(todo') \in OpType
      <4>1. RowInv' /\ TypeInv'
        BY DEF Inv
      <4>2. PICK s \in Seq(OpType) : s = todo' /\ s # <<>>
        BY <1>2, <4>1 DEF TypeInv
      <4>3. \E l \in Left(s) : l.do = Head(s) /\ l.after = {}
        BY <4>2, HeadLeft
      <4>4. Placed(Head(todo))'
        BY <4>1, <4>2, <4>3 DEF RowInv, Justified
      <4>. QED  BY <4>2, <4>4
    <3>. QED  BY <1>2, <2>2, <2>3, <3>1 DEF Placed, MemberOps, Path
  <2>8. NodeOf(Path)' = File(Current, Current)
    BY <2>6, <2>7 DEF NodeOf
  <2>. QED  BY <1>2, <2>8 DEF File
<1>. QED  BY <1>1, <1>3, <1>4

LEMMA WroteElse ==
  ASSUME Inv, WroteInv, TaskStep \/ DropFuture \/ UNCHANGED extractionVars
  PROVE  WroteInv'
<1>1. CASE TaskStep
  <2>1. task.files # <<>> /\ UNCHANGED <<phase, todo>>
    BY <1>1, TaskStepIs DEF callVars
  <2>2. phase = "running" => Doing("Await")
    BY <2>1 DEF Inv, TaskInv
  <2>. QED  BY <2>1, <2>2 DEF WroteInv, Doing
<1>2. CASE DropFuture
  BY <1>2 DEF DropFuture, WroteInv
<1>3. CASE UNCHANGED extractionVars
  BY <1>3 DEF extractionVars, diskVars, callVars, WroteInv, Doing, Member, Current, NodeOf, NodeAt, Path
<1>. QED  BY <1>1, <1>2, <1>3

(* What the archive knows to be a file stays one, unless it is replaced.   *)
LEMMA FileStays ==
  ASSUME Inv, StateInv, Step, todo # <<>>, Sound', NEW p, StateOf(p).kind = "File"
  PROVE  StateOf(p)'.kind = "File" \/ (Head(todo).op = "Replace" /\ p = Path)
<1>1. Sound /\ ~Fell /\ ~Return
  BY SoundStep
<1>2. UNCHANGED entries => StateOf(p)'.kind = "File"
  BY SameState
<1>3. ASSUME NEW q, q # <<>>, NEW state, SetState(q, state), p # q \/ state.kind = "File"
      PROVE  StateOf(p)'.kind = "File"
  BY <1>3, SetStateIs
<1>4. Head(todo).op \in Settled => Path # <<>>
  BY Here
<1>5. \A error : error # "Pending" => ~FailWith(error)
  BY <1>1 DEF Fell
<1>6. CASE Flush
  BY <1>2, <1>6 DEF Flush
<1>7. CASE Payload \/ Queue \/ Await \/ Write \/ Target \/ Truncate \/ Validate \/ MakeLink
  <2>1. UNCHANGED entries
    BY <1>7 DEF Payload, Queue, Await, Write, Target, Truncate, Validate, MakeLink, Fails, rootVars
  <2>. QED  BY <1>2, <2>1
<1>8. CASE Enqueue
  <2>1. Head(todo).op \in Settled
    BY <1>8 DEF Enqueue, Doing, Settled
  <2>2. UNCHANGED entries \/ SetState(Path, Plain("File"))
    BY <1>8 DEF Enqueue, rootVars
  <2>3. Plain("File").kind = "File"
    BY DEF Plain
  <2>. QED  BY <1>2, <1>3, <1>4, <2>1, <2>2, <2>3
<1>9. CASE Replace
  <2>1. Head(todo).op = "Replace" /\ Head(todo).op \in Settled
    BY <1>9 DEF Replace, Doing, Settled
  <2>2. UNCHANGED entries \/ ClearState(Path)
    BY <1>9 DEF Replace, Fails, rootVars
  <2>3. ASSUME ClearState(Path), p # Path PROVE StateOf(p)'.kind = "File"
    BY <1>4, <2>1, <2>3, ClearStateIs
  <2>. QED  BY <1>2, <2>1, <2>2, <2>3
<1>10. CASE EnsureDirectory
  <2>1. Head(todo).op \in Settled
    BY <1>10 DEF EnsureDirectory, Doing, Settled
  <2>2. UNCHANGED entries \/ (StateOf(Path).kind = "None" /\ \E state : SetState(Path, state))
    BY <1>10 DEF EnsureDirectory, Fails, rootVars
  <2>3. ASSUME StateOf(Path).kind = "None" PROVE p # Path
    BY <2>3
  <2>. QED  BY <1>2, <1>3, <1>4, <2>1, <2>2, <2>3
<1>11. CASE Create
  <2>1. Head(todo).op \in Settled
    BY <1>11 DEF Create, Doing, Settled
  <2>2. UNCHANGED entries \/ SetState(Path, Plain("File"))
    BY <1>11 DEF Create, Fails, rootVars
  <2>3. Plain("File").kind = "File"
    BY DEF Plain
  <2>. QED  BY <1>2, <1>3, <1>4, <2>1, <2>2, <2>3
<1>12. CASE HardLink
  <2>1. Head(todo).op \in Settled
    BY <1>12 DEF HardLink, Doing, Settled
  <2>2. UNCHANGED entries \/ SetState(Path, Plain("File"))
    BY <1>12 DEF HardLink, Fails, rootVars
  <2>3. Plain("File").kind = "File"
    BY DEF Plain
  <2>. QED  BY <1>2, <1>3, <1>4, <2>1, <2>2, <2>3
<1>13. CASE Reserve
  <2>1. Head(todo).op \in Settled /\ Doing("Reserve") /\ \E state : SetState(Path, state)
    BY <1>13 DEF Reserve, Doing, Settled
  <2>2. StateOf(Path).kind = "None"
    BY <1>1, <2>1 DEF StateInv, BareInv
  <2>3. p # Path
    BY <2>2
  <2>. QED  BY <1>3, <1>4, <2>1, <2>3
<1>. QED  BY <1>1, <1>6, <1>7, <1>8, <1>9, <1>10, <1>11, <1>12, <1>13, StepIs DEF Operation

(* A file is put where it belongs, or is still to be put there.            *)
LEMMA PlacingStep ==
  ASSUME Inv, Step, todo # <<>>, Sound', Head(todo).op \in {"Enqueue", "Create"}, NEW p, p = Path
  PROVE  StateOf(p)'.kind = "File" \/ Unplaced'
<1>1. Sound /\ ~Fell /\ todo \in Seq(OpType) /\ phase = "running"
  BY SoundStep DEF Inv, TypeInv, Sound
<1>2. p \in Paths \ {<<>>}
  BY Here DEF Settled
<1>3. ASSUME SetState(p, Plain("File")) PROVE StateOf(p)'.kind = "File"
  <2>1. \A q : StateOf(q)' = IF q = p THEN Plain("File") ELSE StateOf(q)
    BY <1>2, <1>3, SetStateIs
  <2>2. Plain("File").kind = "File"
    BY DEF Plain
  <2>. QED  BY <2>1, <2>2
<1>4. ASSUME NEW ops \in Seq(OpType), Then(ops), NEW e \in Elems(ops), e.op \in Placing
      PROVE  Unplaced'
  <2>1. todo' = IF phase = "dropped" THEN <<>> ELSE ops \o Tail(todo)
    BY <1>4 DEF Then
  <2>2. Elems(todo') = Elems(ops) \cup Elems(Tail(todo))
    BY <1>1, <2>1, ElemsThen
  <2>. QED  BY <1>4, <2>2 DEF Unplaced, Elems
<1>5. \A n \in OpNames : Op(n, p) \in OpType /\ Op(n, p).op = n
  BY <1>2 DEF Op, OpType
<1>6. ASSUME NEW a \in OpType, NEW b \in OpType, NEW c \in OpType, c.op \in Placing,
             Then(<<a, b, c>>) \/ Then(<<b, c>>)
      PROVE  Unplaced'
  <2>1. <<a, b, c>> \in Seq(OpType) /\ <<b, c>> \in Seq(OpType)
    OBVIOUS
  <2>2. c \in Elems(<<a, b, c>>) /\ c \in Elems(<<b, c>>)
    <3>1. c = <<a, b, c>>[3] /\ 3 \in 1..Len(<<a, b, c>>) /\ c = <<b, c>>[2] /\ 2 \in 1..Len(<<b, c>>)
      OBVIOUS
    <3>. QED  BY <3>1 DEF Elems
  <2>. QED  BY <1>4, <1>6, <2>1, <2>2
<1>7. CASE Head(todo).op = "Enqueue"
  <2>1. \/ Then(<< Op("Flush", p), Op("Replace", p), Op("Enqueue", p) >>)
        \/ Then(<< Op("Flush", p), Op("Enqueue", p) >>)
        \/ SetState(p, Plain("File"))
    BY <1>7, StepIs DEF Enqueue
  <2>2. CASE Then(<< Op("Flush", p), Op("Replace", p), Op("Enqueue", p) >>)
    BY <1>5, <1>6, <2>2 DEF OpNames, Placing
  <2>3. CASE Then(<< Op("Flush", p), Op("Enqueue", p) >>)
    <3>1. Op("Flush", p) \in OpType /\ Op("Enqueue", p) \in OpType /\ Op("Enqueue", p).op \in Placing
      BY <1>5 DEF OpNames, Placing
    <3>. QED  BY <1>6, <2>3, <3>1
  <2>. QED  BY <1>3, <2>1, <2>2, <2>3
<1>8. CASE Head(todo).op = "Create"
  <2>1. \/ Then(<< Op("Replace", p), Op("Create", p) >>)
        \/ SetState(p, Plain("File"))
    BY <1>1, <1>8, StepIs DEF Create, Fails, Fell
  <2>2. CASE Then(<< Op("Replace", p), Op("Create", p) >>)
    <3>1. Op("Replace", p) \in OpType /\ Op("Create", p) \in OpType /\ Op("Create", p).op \in Placing
      BY <1>5 DEF OpNames, Placing
    <3>. QED  BY <1>6, <2>2, <3>1
  <2>. QED  BY <1>3, <2>1, <2>2
<1>. QED  BY <1>7, <1>8

LEMMA LastIs ==
  ASSUME NEW i, Last(i), NEW j \in (i + 1)..Current, Counts(members[j])
  PROVE  members[j].path # members[i].path
BY DEF Last

(* Members that are added take nothing back of those before them.          *)
LEMMA LastEarlier ==
  ASSUME members \in Seq(Members), Current' \in {Current, Current + 1}, UNCHANGED policy,
         \A i \in 1..Current : members'[i] = members[i], NEW i \in 1..Current, Last(i)'
  PROVE  Last(i)
<1>1. Current \in Nat
  BY DEF Current
<1>2. members'[i] = members[i] /\ members'[i].kind = "File"
  BY DEF Last
<1>3. ASSUME NEW j \in (i + 1)..Current PROVE ~(Counts(members[j]) /\ members[j].path = members[i].path)
  <2>1. j \in 1..Current /\ j \in (i + 1)..Current'
    BY <1>1
  <2>2. members'[j] = members[j]
    BY <2>1
  <2>3. (~(Counts(members[j]) /\ members[j].path = members[i].path))'
    BY <2>1 DEF Last
  <2>. QED  BY <1>2, <2>2, <2>3 DEF Counts
<1>. QED  BY <1>2, <1>3 DEF Last

LEMMA KnownStep ==
  ASSUME Inv, StateInv, SuitInv, FollowInv, KnownInv, Step
  PROVE  KnownInv'
<1>. SUFFICES ASSUME Sound', NEW i \in 1..Current', Last(i)', i < Current' \/ ~Unplaced'
              PROVE  (StateOf(members[i].path).kind = "File")'
  BY DEF KnownInv
<1>1. Sound /\ ~Fell /\ ~Return /\ TypeInv /\ Current \in Nat /\ phase = "running"
      /\ members \in Seq(Members) /\ todo \in Seq(OpType) /\ UNCHANGED policy
  BY SoundStep DEF Inv, TypeInv, Current, Sound, Step
<1>2. \A j \in 1..Current : Last(j) /\ (j < Current \/ ~Unplaced) => StateOf(members[j].path).kind = "File"
  BY <1>1 DEF KnownInv
<1>3. CASE NextMember
  <2>1. /\ todo = <<>> /\ Elems(todo) = {} /\ UNCHANGED <<diskVars, rootVars>>
        /\ \/ /\ \E m \in Members : Member' = m /\ todo' = Program(m)
              /\ Current' = Current + 1 /\ \A j \in 1..Current : members'[j] = members[j]
              /\ members'[Current'] = Member'
           \/ UNCHANGED members
    BY <1>1, <1>3, NextIs DEF Fell
  <2>2. ~Unplaced /\ UNCHANGED entries
    BY <2>1 DEF Unplaced, rootVars
  <2>3. i \in 1..Current
    <3>1. CASE UNCHANGED members
      BY <3>1 DEF Current
    <3>2. ASSUME NEW m \in Members, Member' = m, todo' = Program(m), Current' = Current + 1,
                 members'[Current'] = Member'
          PROVE  i \in 1..Current
      <4>1. i # Current'
        <5>1. ASSUME i = Current' PROVE FALSE
          <6>1. m.kind = "File"
            BY <3>2, <5>1 DEF Last
          <6>2. \E e \in Elems(Program(m)) : e.op \in Placing
            BY <6>1, ProgramSuits DEF Fine
          <6>3. Unplaced'
            BY <3>2, <6>2 DEF Unplaced, Elems
          <6>. QED  BY <1>1, <3>2, <5>1, <6>3
        <5>. QED  BY <5>1
      <4>. QED  BY <1>1, <3>2, <4>1
    <3>. QED  BY <2>1, <3>1, <3>2
  <2>4. Current' \in {Current, Current + 1} /\ \A j \in 1..Current : members'[j] = members[j]
    BY <2>1 DEF Current
  <2>5. Last(i) /\ members'[i] = members[i]
    BY <1>1, <2>3, <2>4, LastEarlier
  <2>6. PICK p : p = members[i].path
    OBVIOUS
  <2>7. StateOf(p).kind = "File" /\ StateOf(p)' = StateOf(p)
    BY <1>2, <2>2, <2>3, <2>5, <2>6, SameState
  <2>. QED  BY <2>5, <2>6, <2>7 DEF StateOf
<1>4. CASE ~NextMember
  <2>1. todo # <<>> /\ UNCHANGED members
    BY <1>1, <1>4, StepMoves DEF Step
  <2>2. Current' = Current /\ i \in 1..Current /\ members'[i] = members[i]
    BY <2>1 DEF Current
  <2>3. Last(i)
    BY <1>1, <2>1, <2>2, LastEarlier
  <2>4. PICK p : p = members[i].path
    OBVIOUS
  <2>5. Moved /\ Head(todo) \in Elems(todo)
    BY <1>1, <1>4, <2>1, StepMoves, TailElems
  <2>6. ASSUME Head(todo).op = "Replace", p = Path, StateOf(p).kind = "File" PROVE i = Current /\ Unplaced
    <3>1. Counts(Member) /\ Path = Member.path
      <4>1. Head(todo).op \in MemberOps /\ Placed(Head(todo))
        BY <2>1, <2>6, Now DEF MemberOps, Closing
      <4>. QED  BY <2>5, <4>1 DEF SuitInv, Suits, Placed, Path
    <3>2. i = Current
      <4>1. ASSUME i # Current PROVE FALSE
        <5>1. Current \in (i + 1)..Current
          BY <1>1, <2>2, <4>1
        <5>. QED  BY <2>3, <2>4, <2>6, <3>1, <5>1, LastIs DEF Member
      <4>. QED  BY <4>1
    <3>3. OfFile
      BY <2>3, <3>2 DEF Last, OfFile, Member
    <3>4. Joined(todo, TRUE) /\ Closed(todo, TRUE)
      BY <1>1, <3>3 DEF FollowInv, OfFile
    <3>5. Len(todo) \in Nat \ {0} /\ Head(todo) = todo[1]
      BY <1>1, <2>1, SeqEnd
    <3>6. Len(todo) # 1
      BY <2>1, <2>6, <3>4, <3>5 DEF Closed, Open
    <3>7. 1 \in 1..(Len(todo) - 1) /\ 2 \in 1..Len(todo)
      BY <3>5, <3>6
    <3>8. Fits(todo[1], todo[2], TRUE)
      <4>1. Fits(todo[1], todo[1 + 1], TRUE)
        BY <3>4, <3>7 DEF Joined
      <4>2. 1 + 1 = 2
        OBVIOUS
      <4>. QED  BY <4>1, <4>2, Zenon
    <3>9. todo[2].op \in Placing
      BY <2>6, <3>5, <3>8 DEF Fits, Placing
    <3>. QED  BY <3>2, <3>7, <3>9 DEF Unplaced, Elems
  <2>7. CASE i < Current \/ ~Unplaced
    <3>1. StateOf(p).kind = "File"
      BY <1>2, <2>2, <2>3, <2>4, <2>7
    <3>2. StateOf(p)'.kind = "File"
      <4>1. ~(Head(todo).op = "Replace" /\ p = Path)
        <5>1. ASSUME Head(todo).op = "Replace", p = Path PROVE FALSE
          <6>1. i = Current /\ Unplaced
            BY <2>6, <3>1, <5>1
          <6>. QED  BY <1>1, <2>7, <6>1
        <5>. QED  BY <5>1
      <4>. QED  BY <2>1, <3>1, <4>1, FileStays
    <3>. QED  BY <2>2, <2>4, <3>2 DEF StateOf
  <2>8. CASE ~(i < Current) /\ Unplaced
    <3>1. i = Current /\ ~Unplaced'
      BY <1>1, <2>2, <2>8
    <3>2. PICK ops : Moves(ops)
      BY <2>5 DEF Moved
    <3>3. ops \in Seq(OpType) /\ Then(ops)
      BY <3>2 DEF Moves
    <3>4. Elems(todo') = Elems(ops) \cup Elems(Tail(todo)) /\ Elems(todo) = {Head(todo)} \cup Elems(Tail(todo))
      <4>1. todo' = IF phase = "dropped" THEN <<>> ELSE ops \o Tail(todo)
        BY <3>3 DEF Then
      <4>. QED  BY <1>1, <2>1, <3>3, <4>1, ElemsThen, TailElems
    <3>5. \A e \in Elems(todo') : e.op \notin Placing
      BY <3>1 DEF Unplaced, Elems
    <3>6. Head(todo).op \in Placing
      <4>1. PICK e \in Elems(todo) : e.op \in Placing
        BY <2>8 DEF Unplaced
      <4>. QED  BY <3>4, <3>5, <4>1
    <3>7. Head(todo).op # "Queue"
      BY <3>2, <3>4, <3>5 DEF Moves, Placing
    <3>8. Head(todo).op \in {"Enqueue", "Create"}
      BY <3>6, <3>7 DEF Placing
    <3>9. Path = p
      <4>1. Placed(Head(todo)) /\ Head(todo).op \in MemberOps
        BY <2>1, <3>8, Now DEF MemberOps, Closing
      <4>. QED  BY <2>4, <3>1, <4>1 DEF Placed, Path, Member
    <3>10. StateOf(p)'.kind = "File"
      BY <2>1, <3>1, <3>8, <3>9, PlacingStep
    <3>. QED  BY <2>2, <2>4, <3>10 DEF StateOf
  <2>. QED  BY <2>7, <2>8
<1>. QED  BY <1>3, <1>4

(* The task goes on undisturbed if it ends undisturbed.                    *)
LEMMA TaskSound ==
  ASSUME Inv, TaskStep, phase = "running", task'.error = "None"
  PROVE  /\ ~BatchFails("Filesystem") /\ ~BatchFails("PathCollision") /\ ~SkipFiles
         /\ task.error = "None" /\ UNCHANGED <<entries, callVars>>
<1>1. UNCHANGED <<rootVars, cancelled, callVars>> /\ TypeInv /\ TaskInv
  BY DEF TaskStep, Inv
<1>2. ~cancelled
  BY <1>1 DEF TaskInv
<1>3. ~BatchFails("Filesystem") /\ ~BatchFails("PathCollision") /\ ~SkipFiles
  BY <1>2 DEF BatchFails, SkipFiles, NoTask
<1>4. task \in TaskType
  BY Writing, TaskStepIs
<1>5. task.error = "None"
  <2>1. CASE \E stage : task' = [task EXCEPT !.stage = stage]
    BY <1>4, <2>1 DEF TaskType
  <2>2. CASE task' = [task EXCEPT !.files = Tail(@), !.stage = "start"]
    BY <1>4, <2>2 DEF TaskType
  <2>. QED  BY <1>3, <2>1, <2>2 DEF TaskStep, CheckCancellation, ClearLeaf, CreateFile, FillFile
<1>. QED  BY <1>1, <1>3, <1>5 DEF rootVars

LEMMA KnownElse ==
  ASSUME Inv, KnownInv, TaskStep \/ DropFuture \/ UNCHANGED extractionVars
  PROVE  KnownInv'
<1>. SUFFICES ASSUME Sound' PROVE KnownInv'
  BY DEF KnownInv
<1>1. UNCHANGED <<members, policy, entries, todo>> /\ Sound
  <2>1. CASE TaskStep
    BY <2>1, TaskSound, TaskStepIs DEF Sound, callVars, Elems, rootVars
  <2>2. CASE DropFuture
    BY <2>2 DEF DropFuture, Sound
  <2>3. CASE UNCHANGED extractionVars
    BY <2>3 DEF extractionVars, Sound, callVars, Elems, rootVars
  <2>. QED  BY <2>1, <2>2, <2>3
<1>. QED  BY <1>1 DEF KnownInv, Last, Current, Counts, StateOf, Unplaced, Elems

-----------------------------------------------------------------------------
(* How the call ends.                                                      *)

(* With the return in the row, nothing is done for a member any more.      *)
ReturnInv ==
  (\E e \in Elems(todo) : e.op = "Return") => \A e \in Elems(todo) : e.op \notin MemberOps

LEMMA ReturnStep ==
  ASSUME Inv, SuitInv, ReturnInv, Step
  PROVE  ReturnInv'
<1>1. TypeInv /\ todo \in Seq(OpType)
  BY DEF Inv, TypeInv
<1>. SUFFICES ASSUME NEW r \in Elems(todo'), r.op = "Return", NEW e \in Elems(todo')
              PROVE  e.op \notin MemberOps
  BY DEF ReturnInv, Elems
<1>2. CASE Fell
  BY <1>2, FellRow DEF MemberOps
<1>3. CASE Return
  BY <1>3, LeftNone DEF Return
<1>4. CASE NextMember
  <2>1. ASSUME NEW m \in Members, todo' = Program(m) PROVE FALSE
    BY <2>1, ProgramSuits DEF Fine
  <2>2. CASE todo' = << Op("Flush", <<>>), Op("Validate", <<>>) >>
    <3>1. \A k \in 1..2 : todo'[k].op # "Return"
      BY <2>2 DEF Op
    <3>2. Len(todo') = 2
      BY <2>2
    <3>. QED  BY <3>1, <3>2 DEF Elems
  <2>. QED  BY <1>2, <1>4, <2>1, <2>2, NextIs DEF Fell
<1>5. ASSUME NEW ops, Moves(ops) PROVE e.op \notin MemberOps
  <2>1. /\ todo # <<>> /\ Then(ops) /\ ops \in Seq(OpType)
        /\ \A d \in Elems(ops) :
             /\ d.op \in MemberOps => Head(todo).op \in MemberOps
             /\ d.op = "Return" => Head(todo).op = "Validate"
    BY <1>5 DEF Moves
  <2>2. /\ Elems(todo') \subseteq Elems(ops) \cup Elems(todo)
        /\ phase # "dropped" => Elems(todo') = Elems(ops) \cup Elems(Tail(todo))
        /\ Elems(todo) = {Head(todo)} \cup Elems(Tail(todo))
    BY <1>1, <2>1, ElemsThen, TailElems DEF Then
  <2>3. CASE r \in Elems(todo)
    BY <2>1, <2>2, <2>3 DEF ReturnInv
  <2>4. CASE r \in Elems(ops)
    <3>1. Head(todo).op = "Validate"
      BY <2>1, <2>4
    <3>2. Elems(todo) = {Head(todo)}
      <4>1. ASSUME NEW k \in 1..Len(todo) PROVE k = 1
        <5>1. ASSUME k # 1 PROVE FALSE
          <6>1. todo[1] \in { todo[j] : j \in 1..(k - 1) } /\ Head(todo) = todo[1]
            BY <1>1, <5>1, <2>1, EmptySeq
          <6>2. [do |-> todo[k], after |-> { todo[j] : j \in 1..(k - 1) }] \in Left(todo)
            BY DEF Left
          <6>3. Justified(todo[k], { todo[j] : j \in 1..(k - 1) })
            BY <6>2 DEF Inv, RowInv
          <6>. QED  BY <3>1, <6>1, <6>3 DEF Justified, Orderly
        <5>. QED  BY <5>1
      <4>2. Head(todo) = todo[1] /\ 1 \in 1..Len(todo)
        BY <1>1, <2>1, SeqEnd
      <4>. QED  BY <4>1, <4>2 DEF Elems
    <3>. QED  BY <2>1, <2>2, <3>1, <3>2 DEF MemberOps
  <2>. QED  BY <2>2, <2>3, <2>4
<1>. QED  BY <1>2, <1>3, <1>4, <1>5, StepMoves DEF Moved

LEMMA ReturnElse ==
  ASSUME Inv, ReturnInv, TaskStep \/ DropFuture \/ UNCHANGED extractionVars
  PROVE  ReturnInv'
<1>1. TaskStep \/ UNCHANGED extractionVars => UNCHANGED todo
  BY DEF TaskStep, extractionVars, callVars
<1>2. CASE UNCHANGED todo
  BY <1>2 DEF ReturnInv, Elems
<1>3. CASE DropFuture
  <2>1. todo' = <<>> \/ (todo # <<>> /\ todo' = <<Head(todo)>> /\ Head(todo).op \in BlockingOps)
    BY <1>3 DEF DropFuture
  <2>2. \A e \in Elems(todo') : e.op # "Return"
    <3>1. CASE todo' = <<>>
      BY <3>1, LeftNone
    <3>2. CASE todo # <<>> /\ todo' = <<Head(todo)>> /\ Head(todo).op \in BlockingOps
      <4>1. Elems(<<Head(todo)>>) = {Head(todo)}
        BY ElemsOne
      <4>. QED  BY <3>2, <4>1 DEF BlockingOps
    <3>. QED  BY <2>1, <3>1, <3>2
  <2>. QED  BY <2>2 DEF ReturnInv, Elems
<1>. QED  BY <1>1, <1>2, <1>3

Faults == {"Archive", "Policy", "UnsafePath", "InvalidLink"}

(* The call ends by a failure of the archive, and its batch met no other.  *)
Ending == phase \in {"running", "returned"} /\ result \in Faults /\ task.error = "None"

ErrorInv ==
  result \in Faults /\ phase # "dropped" =>
    task.error = "None" \/ (phase = "running" /\ Doing("Await"))

(* What is buffered is written before the call returns.                    *)
Closes ==
  \/ todo = << Op("Flush", <<>>), Op("Return", <<>>) >>
  \/ todo = << Op("Await", <<>>), Op("Return", <<>>) >> /\ buffered = <<>>
  \/ todo = << Op("Return", <<>>) >> /\ Queued = {}
  \/ phase = "returned" /\ Queued = {}

Stands(i) == Last(i) => Waits(members[i].path) \/ NodeOf(members[i].path).type = "File"

EndInv ==
  Ending =>
    /\ \A i \in 1..(Current - 1) : Stands(i)
    /\ task.stage = "created" => NodeOf(Batched.path).type = "File"
    /\ Closes

LEMMA FaultBegins ==
  ASSUME Inv, ReturnInv, SuitInv, Step, result \notin Faults, result' \in Faults, phase' # "dropped"
  PROVE  /\ Sound /\ UNCHANGED <<diskVars, rootVars, task>> /\ task.files = <<>> /\ task.stage = "start"
         /\ phase = "running" /\ phase' = "running"
         /\ todo' = << Op("Flush", <<>>), Op("Return", <<>>) >>
         /\ NextMember \/ (todo # <<>> /\ UNCHANGED members)
         /\ Doing("Write") => Write
<1>1. TypeInv /\ todo \in Seq(OpType) /\ result' # result
  BY DEF Inv, TypeInv
<1>2. ASSUME NEW error, FailWith(error), phase # "dropped"
      PROVE  phase' = phase /\ todo' = << Op("Flush", <<>>), Op("Return", <<>>) >>
  BY <1>2 DEF FailWith
<1>3. CASE todo = <<>>
  <2>1. NextMember /\ UNCHANGED task
    BY <1>3, StepMoves DEF Return, Doing
  <2>2. ~Doing("Write")
    BY <1>3 DEF Doing
  <2>3. FailWith("Policy") \/ FailWith("Archive")
    BY <1>1, <2>1, NextIs
  <2>. QED  BY <1>2, <2>1, <2>2, <2>3, NextIs
<1>4. CASE todo # <<>>
  <2>1. ~Flush /\ Operation /\ UNCHANGED <<members, task>>
    <3>1. ~Flush
      BY <1>1 DEF Flush, Then
    <3>. QED  BY <1>4, <3>1, StepIs
  <2>2. ~(Queue \/ Enqueue \/ Reserve)
    BY <1>1 DEF Queue, Enqueue, Reserve, Then
  <2>3. ~Await
    <3>1. task.error \in {"None", "Filesystem", "PathCollision"}
      BY <1>1 DEF TypeInv
    <3>. QED  BY <1>1, <3>1 DEF Await, Then, FailWith, Faults
  <2>4. ~Return
    BY <1>1 DEF Return, Faults
  <2>5. ~(Replace \/ EnsureDirectory \/ Create \/ HardLink \/ Truncate \/ MakeLink)
    <3>1. \A ops : ~Then(ops)
      BY <1>1 DEF Then
    <3>2. ~FailWith("Filesystem") /\ ~FailWith("PathCollision")
      BY DEF FailWith, Faults
    <3>. QED  BY <3>1, <3>2 DEF Replace, EnsureDirectory, Create, HardLink, Truncate, MakeLink, Fails
  <2>6. Payload \/ Write \/ Target \/ Validate
    BY <2>1, <2>2, <2>3, <2>4, <2>5 DEF Operation
  <2>7. Head(todo).op \in {"Payload", "Write", "Target", "Validate"}
    BY <2>6 DEF Payload, Write, Target, Validate, Doing
  <2>8. (\E error : FailWith(error)) /\ UNCHANGED <<diskVars, rootVars>>
    <3>1. \A ops : ~Then(ops)
      BY <1>1 DEF Then
    <3>2. CASE Payload \/ Write \/ Target
      BY <3>1, <3>2 DEF Payload, Write, Target, Fails
    <3>3. CASE Validate
      BY <3>1, <3>3 DEF Validate
    <3>. QED  BY <2>6, <3>2, <3>3
  <2>9. /\ task.files = <<>> /\ task.stage = "start" /\ phase \in {"running", "dropped"}
        /\ phase = "running" => result = "Pending" /\ task.error = "None"
    BY <1>4, <2>7, Now DEF Closing
  <2>10. phase = "running"
    BY <2>8, <2>9 DEF FailWith
  <2>11. Sound
    <3>1. CASE Head(todo).op = "Validate"
      BY <1>4, <3>1, JudgedSound DEF Doing
    <3>2. CASE Head(todo).op # "Validate"
      <4>1. Head(todo) \in Elems(todo) /\ Head(todo).op \in MemberOps
        BY <1>1, <1>4, <2>7, <3>2, TailElems DEF MemberOps
      <4>. QED  BY <2>9, <2>10, <4>1 DEF ReturnInv, Sound
    <3>. QED  BY <3>1, <3>2
  <2>12. Doing("Write") => Write
    BY StepIs DEF Doing
  <2>. QED  BY <1>2, <1>4, <2>1, <2>8, <2>9, <2>10, <2>11, <2>12
<1>. QED  BY <1>3, <1>4

LEMMA FaultGoesOn ==
  ASSUME Inv, SuitInv, ErrorInv, Step, result \in Faults, result' \in Faults, phase' # "dropped"
  PROVE  /\ Ending /\ phase = "running" /\ todo # <<>> /\ UNCHANGED <<diskVars, members>>
         /\ Head(todo).op \in {"Flush", "Await", "Return"}
         /\ Flush \/ (Await /\ Then(<<>>) /\ UNCHANGED <<rootVars, task>>)
                  \/ (Return /\ UNCHANGED <<rootVars, task>>)
         /\ task.files = <<>> /\ task.stage = "start"
         /\ Queued' = Queued /\ (task.stage # "created")' /\ task'.error = "None"
<1>1. TypeInv /\ TaskInv /\ todo \in Seq(OpType) /\ result # "Pending"
  BY DEF Inv, TypeInv, Faults
<1>2. todo # <<>>
  <2>1. todo = <<>> => NextMember
    BY StepMoves DEF Return, Doing
  <2>. QED  BY <1>1, <2>1, NextIs
<1>3. phase = "running"
  <2>1. ASSUME phase = "dropped" PROVE phase' = "dropped"
    <3>1. Head(todo).op # "Return"
      BY <1>1, <1>2, <2>1 DEF TaskInv, BlockingOps
    <3>2. ~Return
      BY <3>1 DEF Return, Doing
    <3>. QED  BY <1>2, <2>1, <3>2, StepMoves DEF NextMember, Moved, Moves, Then, Fell, FailWith
  <2>. QED  BY <1>1, <1>2, <2>1 DEF TypeInv, TaskInv
<1>4. Head(todo).op \in {"Flush", "Await", "Return"}
  <2>1. Head(todo) \in Elems(todo)
    BY <1>1, <1>2, TailElems
  <2>. QED  BY <1>1, <1>3, <2>1 DEF TaskInv
<1>5. CASE Head(todo).op = "Flush"
  <2>1. Flush /\ UNCHANGED members
    BY <1>2, <1>5, StepIs
  <2>2. task.error = "None" /\ task.files = <<>> /\ task.stage = "start"
    <3>1. ~Doing("Await")
      BY <1>5 DEF Doing
    <3>. QED  BY <1>1, <1>3, <3>1 DEF ErrorInv, TaskInv
  <2>3. task'.error = "None"
    BY <2>1, <2>2 DEF Flush, NoTask
  <2>4. UNCHANGED diskVars
    BY <2>1 DEF Flush
  <2>. QED  BY <1>2, <1>3, <1>4, <2>1, <2>2, <2>3, <2>4, FlushQueued DEF Ending
<1>6. CASE Head(todo).op = "Await"
  <2>1. Await /\ UNCHANGED <<members, task>>
    BY <1>2, <1>6, StepIs
  <2>2. task.files = <<>> /\ task.stage = "start" /\ UNCHANGED <<diskVars, rootVars>>
    BY <1>1, <2>1 DEF Await, TaskInv
  <2>3. task.error = "None"
    <3>1. task.error \in {"None", "Filesystem", "PathCollision"}
      BY <1>1 DEF TypeInv
    <3>. QED  BY <2>1, <3>1 DEF Await, FailWith, Faults
  <2>4. Then(<<>>)
    BY <2>1, <2>3 DEF Await
  <2>5. Queued' = Queued /\ (task.stage # "created")'
    <3>1. UNCHANGED <<buffered, task>>
      BY <2>1, <2>2 DEF rootVars
    <3>. QED  BY <2>2, <3>1, StillQueued
  <2>. QED  BY <1>2, <1>3, <1>4, <2>1, <2>2, <2>3, <2>4, <2>5 DEF Ending
<1>7. CASE Head(todo).op = "Return"
  <2>1. Return /\ UNCHANGED <<members, task>>
    BY <1>2, <1>7, StepIs
  <2>2. UNCHANGED <<diskVars, rootVars>>
    BY <2>1 DEF Return
  <2>3. task.error = "None" /\ task.files = <<>> /\ task.stage = "start"
    <3>1. ~Doing("Await")
      BY <1>7 DEF Doing
    <3>. QED  BY <1>1, <1>3, <3>1 DEF ErrorInv, TaskInv
  <2>4. Queued' = Queued /\ (task.stage # "created")'
    <3>1. UNCHANGED <<buffered, task>>
      BY <2>1, <2>2 DEF rootVars
    <3>. QED  BY <2>3, <3>1, StillQueued
  <2>. QED  BY <1>2, <1>3, <1>4, <2>1, <2>2, <2>3, <2>4 DEF Ending
<1>. QED  BY <1>4, <1>5, <1>6, <1>7

LEMMA ErrorStep ==
  ASSUME Inv, ReturnInv, SuitInv, ErrorInv, Step
  PROVE  ErrorInv'
<1>. SUFFICES ASSUME result' \in Faults, phase' # "dropped" PROVE task'.error = "None"
  BY DEF ErrorInv
<1>1. CASE result \notin Faults
  BY <1>1, FaultBegins DEF Sound
<1>2. CASE result \in Faults
  BY <1>2, FaultGoesOn
<1>. QED  BY <1>1, <1>2

LEMMA StandsNow ==
  ASSUME Inv, StateInv, KnownInv, Sound, NEW i \in 1..Current, i < Current \/ ~Unplaced
  PROVE  Stands(i)
<1>. SUFFICES ASSUME Last(i)
              PROVE  Waits(members[i].path) \/ NodeOf(members[i].path).type = "File"
  BY DEF Stands
<1>1. PICK p : p = members[i].path
  OBVIOUS
<1>2. StateOf(p).kind = "File"
  BY <1>1 DEF KnownInv
<1>3. p \in DOMAIN entries
  BY <1>2 DEF StateOf, Plain
<1>4. Holds(p)
  BY <1>3 DEF StateInv, TreeInv
<1>. QED  BY <1>1, <1>2, <1>4 DEF Holds

LEMMA EndStep ==
  ASSUME Inv, StateInv, ReturnInv, SuitInv, KnownInv, ErrorInv, EndInv, Step
  PROVE  EndInv'
<1>. SUFFICES ASSUME Ending'
              PROVE  (/\ \A i \in 1..(Current - 1) : Stands(i)
                      /\ task.stage = "created" => NodeOf(Batched.path).type = "File"
                      /\ Closes)'
  BY DEF EndInv
<1>1. result' \in Faults /\ phase' # "dropped"
  BY DEF Ending
<1>2. members \in Seq(Members) /\ Current \in Nat /\ UNCHANGED policy
  BY DEF Inv, TypeInv, Current, Step
<1>3. ASSUME UNCHANGED fs, Queued' = Queued, Current' \in {Current, Current + 1},
             \A j \in 1..Current : members'[j] = members[j], NEW i \in 1..Current, Stands(i)
      PROVE  Stands(i)'
  <2>. SUFFICES ASSUME Last(i)'
                PROVE  (Waits(members[i].path) \/ NodeOf(members[i].path).type = "File")'
    BY DEF Stands
  <2>1. Last(i) /\ members'[i] = members[i]
    BY <1>2, <1>3, LastEarlier
  <2>2. PICK p : p = members[i].path
    OBVIOUS
  <2>3. Waits(p) \/ NodeOf(p).type = "File"
    BY <1>3, <2>1, <2>2 DEF Stands
  <2>4. (Waits(p) \/ NodeOf(p).type = "File")'
    BY <1>3, <2>3, SameNodeOf DEF Waits
  <2>. QED  BY <2>1, <2>2, <2>4 DEF Waits, NodeOf
<1>4. CASE result \notin Faults
  <2>1. /\ Sound /\ UNCHANGED <<diskVars, rootVars, task>> /\ task.files = <<>> /\ task.stage = "start"
        /\ todo' = << Op("Flush", <<>>), Op("Return", <<>>) >>
        /\ NextMember \/ (todo # <<>> /\ UNCHANGED members)
    BY <1>1, <1>4, FaultBegins
  <2>2. UNCHANGED <<fs, buffered, task>>
    BY <2>1 DEF diskVars, rootVars
  <2>3. Queued' = Queued
    BY <2>2, StillQueued
  <2>4. /\ Current' \in {Current, Current + 1} /\ \A j \in 1..Current : members'[j] = members[j]
        /\ Current' = Current + 1 => todo = <<>>
    <3>1. CASE UNCHANGED members
      <4>1. Current' = Current /\ Current # Current + 1
        BY <1>2, <3>1 DEF Current
      <4>. QED  BY <3>1, <4>1
    <3>2. CASE NextMember
      BY <3>1, <3>2, NextIs
    <3>. QED  BY <2>1, <3>1, <3>2
  <2>5. todo = <<>> => ~Unplaced
    BY LeftNone DEF Unplaced
  <2>6. ASSUME NEW i \in 1..(Current' - 1) PROVE Stands(i)'
    <3>1. i \in 1..Current /\ (i < Current \/ ~Unplaced)
      <4>1. CASE Current' = Current
        BY <1>2, <4>1
      <4>2. CASE Current' = Current + 1
        <5>1. ~Unplaced
          BY <2>4, <2>5, <4>2
        <5>2. i \in 1..Current
          BY <1>2, <4>2
        <5>. QED  BY <5>1, <5>2
      <4>. QED  BY <2>4, <4>1, <4>2
    <3>2. Stands(i)
      BY <2>1, <3>1, StandsNow
    <3>. QED  BY <1>3, <2>2, <2>3, <2>4, <3>1, <3>2
  <2>. QED  BY <2>1, <2>6 DEF Closes
<1>5. CASE result \in Faults
  <2>1. /\ Ending /\ phase = "running" /\ todo # <<>> /\ UNCHANGED <<diskVars, members>>
        /\ Head(todo).op \in {"Flush", "Await", "Return"}
        /\ Flush \/ (Await /\ Then(<<>>) /\ UNCHANGED <<rootVars, task>>)
                 \/ (Return /\ UNCHANGED <<rootVars, task>>)
        /\ task.files = <<>> /\ task.stage = "start"
        /\ Queued' = Queued /\ (task.stage # "created")' /\ task'.error = "None"
    BY <1>1, <1>5, FaultGoesOn
  <2>2. UNCHANGED fs /\ Current' = Current
    BY <2>1 DEF diskVars, Current
  <2>3. ASSUME NEW i \in 1..(Current' - 1) PROVE Stands(i)'
    <3>1. i \in 1..Current /\ i \in 1..(Current - 1)
      BY <1>2, <2>2
    <3>2. Stands(i)
      BY <2>1, <3>1 DEF EndInv
    <3>. QED  BY <1>3, <2>1, <2>2, <3>1, <3>2
  <2>. DEFINE f == Op("Flush", <<>>)
              a == Op("Await", <<>>)
              r == Op("Return", <<>>)
  <2>4. f.op = "Flush" /\ a.op = "Await" /\ r.op = "Return" /\ f.path = <<>>
    BY DEF Op
  <2>5. todo = <<f, r>> \/ (todo = <<a, r>> /\ buffered = <<>>) \/ (todo = <<r>> /\ Queued = {})
    BY <2>1 DEF EndInv, Closes
  <2>6. \A ops : Then(ops) => todo' = ops \o Tail(todo)
    BY <2>1 DEF Then
  <2>7. Closes'
    <3>1. CASE Flush
      <4>1. todo = <<f, r>>
        <5>. HIDE DEF f, a, r
        <5>. QED  BY <2>4, <2>5, <3>1 DEF Flush, Doing
      <4>2. CASE buffered = <<>>
        <5>1. Then(<<>>) /\ UNCHANGED <<buffered, task>>
          BY <3>1, <4>2 DEF Flush
        <5>2. Queued' = {}
          BY <2>1, <4>2, NoneQueued
        <5>3. todo' = <<r>>
          <6>. HIDE DEF f, r
          <6>. QED  BY <2>6, <4>1, <5>1
        <5>. QED  BY <5>2, <5>3 DEF Closes
      <4>3. CASE buffered # <<>>
        <5>1. Path = <<>>
          <6>1. Head(todo) = f
            <7>. HIDE DEF f, r
            <7>. QED  BY <4>1
          <6>. QED  BY <2>4, <6>1 DEF Path
        <5>2. Then(<<a>>) /\ buffered' = <<>>
          BY <3>1, <4>3, <5>1 DEF Flush
        <5>3. todo' = <<a, r>>
          <6>. HIDE DEF f, a, r
          <6>. QED  BY <2>6, <4>1, <5>2
        <5>. QED  BY <5>2, <5>3 DEF Closes
      <4>. QED  BY <4>2, <4>3
    <3>2. CASE Await /\ Then(<<>>) /\ UNCHANGED <<rootVars, task>>
      <4>1. todo = <<a, r>> /\ buffered = <<>>
        <5>. HIDE DEF f, a, r
        <5>. QED  BY <2>4, <2>5, <3>2 DEF Await, Doing
      <4>2. Queued' = {}
        BY <2>1, <4>1, NoneQueued
      <4>3. todo' = <<r>>
        <5>. HIDE DEF a, r
        <5>. QED  BY <2>6, <3>2, <4>1
      <4>. QED  BY <4>2, <4>3 DEF Closes
    <3>3. CASE Return
      <4>1. Queued = {}
        <5>. HIDE DEF f, a, r
        <5>. QED  BY <2>4, <2>5, <3>3 DEF Return, Doing
      <4>2. phase' = "returned"
        BY <3>3 DEF Return
      <4>. QED  BY <2>1, <4>1, <4>2 DEF Closes
    <3>. QED  BY <2>1, <3>1, <3>2, <3>3
  <2>. QED  BY <2>1, <2>3, <2>7
<1>. QED  BY <1>4, <1>5

LEMMA EndElse ==
  ASSUME Inv, NamesApart, ErrorInv, EndInv, TaskStep \/ DropFuture \/ UNCHANGED extractionVars
  PROVE  ErrorInv' /\ EndInv'
<1>1. CASE DropFuture
  BY <1>1 DEF DropFuture, ErrorInv, EndInv, Ending
<1>2. CASE UNCHANGED extractionVars
  <2>1. UNCHANGED <<fs, policy, members, buffered, task, todo, phase, result>>
    BY <1>2 DEF extractionVars, diskVars, rootVars, callVars
  <2>2. ErrorInv'
    BY <2>1 DEF ErrorInv, Doing
  <2>3. Queued' = Queued /\ Batched' = Batched /\ Current' = Current
    BY <2>1, StillQueued DEF Batched, Current
  <2>4. \A p : NodeOf(p)' = NodeOf(p)
    BY <2>1, SameNodeOf
  <2>5. ASSUME NEW i, Stands(i) PROVE Stands(i)'
    BY <2>1, <2>3, <2>4, <2>5 DEF Stands, Last, Counts, Waits, NodeOf
  <2>6. Ending' => Ending
    BY <2>1 DEF Ending
  <2>7. Closes => Closes'
    BY <2>1, <2>3 DEF Closes
  <2>8. (task.stage = "created" => NodeOf(Batched.path).type = "File")
        => (task.stage = "created" => NodeOf(Batched.path).type = "File")'
    BY <2>1, <2>3, <2>4 DEF NodeOf
  <2>. QED  BY <2>2, <2>3, <2>5, <2>6, <2>7, <2>8 DEF EndInv
<1>3. CASE TaskStep
  <2>1. /\ task.files # <<>> /\ UNCHANGED <<policy, members, rootVars, cancelled, callVars>>
        /\ Queued' \subseteq Queued /\ TypeInv
    BY <1>3, TaskStepIs DEF Inv
  <2>2. /\ task \in TaskType /\ Batched \in FileType /\ Batched \in Queued
        /\ Tail(task.files) \in Seq(FileType)
        /\ Elems(task.files) = {Batched} \cup Elems(Tail(task.files))
        /\ (phase = "running" /\ Doing("Await")) \/ (phase = "dropped" /\ todo = <<>>)
        /\ BatchedSpot \in {OnDisk(Batched.path), Nowhere}
    BY <2>1, Writing
  <2>3. UNCHANGED <<buffered, todo, phase, result>>
    BY <2>1 DEF rootVars, callVars
  <2>4. ErrorInv'
    BY <2>2, <2>3 DEF ErrorInv, Doing
  <2>. SUFFICES ASSUME Ending' PROVE EndInv'
    BY <2>4 DEF EndInv
  <2>5. phase = "running" /\ task'.error = "None"
    BY <2>2, <2>3 DEF Ending
  <2>6. ~BatchFails("Filesystem") /\ ~BatchFails("PathCollision") /\ ~SkipFiles /\ Ending
    BY <1>3, <2>3, <2>5, TaskSound DEF Ending
  <2>7. /\ \A i \in 1..(Current - 1) : Stands(i)
        /\ task.stage = "created" => NodeOf(Batched.path).type = "File"
        /\ Closes
    BY <2>6 DEF EndInv
  <2>8. Closes'
    BY <2>1, <2>3, <2>7 DEF Closes
  <2>9. PICK p \in Paths \ {<<>>} : p = Batched.path
    BY <2>2 DEF FileType
  <2>10. Waits(p) /\ OnDisk(p) # <<>>
    BY <2>2, <2>9, PlaceIs DEF Waits
  <2>11. ASSUME \A q \in Paths : q # p => NodeOf(q)' = NodeOf(q),
                \A g \in Queued : g.path # p => g \in Queued',
                (Waits(p) \/ NodeOf(p).type = "File")',
                (task.stage = "created" => NodeOf(Batched.path).type = "File")'
         PROVE  EndInv'
    <3>1. ASSUME NEW i \in 1..(Current - 1) PROVE Stands(i)'
      <4>1. PICK q : q = members[i].path
        OBVIOUS
      <4>2. q \in Paths
        <5>1. members[i] \in MemberType
          <6>1. Current \in Nat /\ i \in 1..Current /\ members \in Seq(Members)
            BY <2>1 DEF TypeInv, Current
          <6>. QED  BY <6>1, ExtractionAssumption DEF Current
        <5>. QED  BY <4>1, <5>1 DEF MemberType, Paths
      <4>3. Last(i)' => Last(i)
        BY <2>1 DEF Last, Current, Counts
      <4>4. Last(i) => Waits(q) \/ NodeOf(q).type = "File"
        BY <2>7, <4>1 DEF Stands
      <4>5. Last(i) => (Waits(q) \/ NodeOf(q).type = "File")'
        <5>1. CASE q = p
          BY <2>11, <5>1
        <5>2. CASE q # p
          BY <2>11, <4>2, <4>4, <5>2 DEF Waits
        <5>. QED  BY <5>1, <5>2
      <4>. QED  BY <2>1, <4>1, <4>3, <4>5 DEF Stands, Waits, NodeOf
    <3>2. Current' = Current
      BY <2>1 DEF Current
    <3>. QED  BY <2>8, <2>11, <3>1, <3>2 DEF EndInv
  <2>12. ASSUME task'.files = task.files PROVE Queued' = Queued /\ Batched' = Batched /\ Waits(p)'
    <3>1. Queued' = Queued /\ Batched' = Batched
      BY <2>3, <2>12 DEF Queued, Elems, Batched
    <3>. QED  BY <2>10, <3>1 DEF Waits
  <2>13. CASE CheckCancellation
    <3>1. task'.files = task.files /\ task'.stage = "checked" /\ UNCHANGED fs
      BY <2>2, <2>13 DEF CheckCancellation, TaskType, diskVars
    <3>2. \A q \in Paths : NodeOf(q)' = NodeOf(q)
      BY <3>1, SameNodeOf
    <3>. QED  BY <2>11, <2>12, <3>1, <3>2
  <2>14. CASE ClearLeaf
    <3>1. BatchedNode # Nothing /\ Remove(BatchedSpot) /\ task' = [task EXCEPT !.stage = "removed"]
      BY <2>6, <2>14 DEF ClearLeaf
    <3>2. task'.files = task.files /\ task'.stage = "removed"
      BY <2>2, <3>1 DEF TaskType
    <3>3. BatchedSpot = OnDisk(p)
      BY <2>2, <2>9, <3>1 DEF BatchedNode
    <3>4. Remove(OnDisk(p))
      BY <3>1, <3>3
    <3>5. \A q : NodeAt(q)' = IF q = OnDisk(p) THEN Nothing ELSE NodeAt(q)
      BY <2>10, <3>4, RemoveNode
    <3>6. \A q \in Paths : q # p => NodeOf(q)' = NodeOf(q)
      BY <3>5, Elsewhere
    <3>. QED  BY <2>11, <2>12, <3>2, <3>6
  <2>15. CASE CreateFile
    <3>1. BatchedSpot # Nowhere /\ Put(BatchedSpot, File(Batched.by, Batched.by))
          /\ task' = [task EXCEPT !.stage = "created"]
      BY <2>6, <2>15 DEF CreateFile
    <3>2. task'.files = task.files
      BY <2>2, <3>1 DEF TaskType
    <3>3. BatchedSpot = OnDisk(p)
      BY <2>2, <2>9, <3>1
    <3>4. PICK node : node = File(Batched.by, Batched.by)
      OBVIOUS
    <3>5. node.type = "File"
      BY <3>4 DEF File
    <3>6. \A q : NodeAt(q)' = IF q = OnDisk(p) THEN node ELSE NodeAt(q)
      <4>1. Put(OnDisk(p), node)
        BY <3>1, <3>3, <3>4 DEF Put
      <4>. QED  BY <2>10, <4>1, PutNode
    <3>7. \A q \in Paths : q # p => NodeOf(q)' = NodeOf(q)
      BY <3>6, Elsewhere
    <3>8. (NodeOf(p).type = "File")' /\ (NodeOf(Batched.path).type = "File")'
      <4>1. NodeAt(OnDisk(p))'.type = "File"
        BY <3>5, <3>6
      <4>2. Batched'.path = p
        BY <2>9, <2>12, <3>2
      <4>. QED  BY <4>1, <4>2 DEF NodeOf
    <3>. QED  BY <2>11, <2>12, <3>2, <3>7, <3>8
  <2>16. CASE FillFile
    <3>1. task' = [task EXCEPT !.files = Tail(@), !.stage = "start"] /\ UNCHANGED fs /\ task.stage = "created"
      BY <2>6, <2>16 DEF FillFile
    <3>2. task'.files = Tail(task.files) /\ task'.stage = "start"
      BY <2>2, <3>1 DEF TaskType
    <3>3. \A q : NodeOf(q)' = NodeOf(q)
      BY <3>1, SameNodeOf
    <3>4. NodeOf(p)'.type = "File"
      BY <2>7, <2>9, <3>1, <3>3
    <3>5. Queued' = Elems(buffered) \cup Elems(Tail(task.files))
      <4>1. Elems(buffered') = Elems(buffered) /\ Elems(task'.files) = Elems(Tail(task.files))
        BY <2>3, <3>2
      <4>. QED  BY <4>1 DEF Queued, Elems
    <3>6. \A g \in Queued : g.path # p => g \in Queued'
      BY <2>2, <2>9, <3>5 DEF Queued
    <3>. QED  BY <2>11, <3>2, <3>3, <3>4, <3>6
  <2>. QED  BY <1>3, <2>6, <2>13, <2>14, <2>15, <2>16 DEF TaskStep
<1>. QED  BY <1>1, <1>2, <1>3

-----------------------------------------------------------------------------
(* Which contents are not whole.                                           *)

(* Contents may still be on their way, or never come for the member that   *)
(* failed, or for the file it shared as a hard link.                       *)
Excused(n) ==
  \/ task.stage = "created" /\ n = Batched.by
  \/ Sound /\ Doing("Write") /\ n = NodeOf(Path).inode
  \/ result # "Pending" /\ n = Current
  \/ Queued = {} /\ CutShort(n)

DoneInv == Sound \/ Ending => \A n \in DOMAIN data : data[n].done \/ Excused(n)

(* The file whose contents come next, once it was created or emptied.      *)
LEMMA WriteNext ==
  ASSUME Inv, SuitInv, FollowInv, Step, Inv', Sound', todo # <<>>,
         Head(todo).op \in {"Create", "Truncate"}, Then(<<>>), UNCHANGED members, NEW p, p = Path
  PROVE  (Doing("Write"))' /\ Path' = p
<1>1. Sound /\ phase = "running" /\ todo \in Seq(OpType)
  BY SoundStep DEF Sound, Inv, TypeInv
<1>2. Joined(todo, OfFile) /\ Closed(todo, OfFile)
  BY <1>1 DEF FollowInv
<1>3. Len(todo) \in Nat \ {0} /\ Head(todo) = todo[1]
  BY <1>1, SeqEnd
<1>4. Len(todo) # 1
  BY <1>2, <1>3 DEF Closed, Open
<1>5. 1 \in 1..(Len(todo) - 1) /\ 2 \in 1..Len(todo) /\ 1 + 1 = 2
  <2>1. \A n \in Nat \ {0} : n # 1 => 1 \in 1..(n - 1) /\ 2 \in 1..n /\ 1 + 1 = 2
    OBVIOUS
  <2>2. PICK n \in Nat \ {0} : n = Len(todo)
    BY <1>3
  <2>3. n # 1
    BY <1>4, <2>2
  <2>4. 1 \in 1..(n - 1) /\ 2 \in 1..n /\ 1 + 1 = 2
    BY <2>1, <2>3, Zenon
  <2>. QED  BY <2>2, <2>4, Zenon
<1>6. Fits(todo[1], todo[2], OfFile)
  BY <1>2, <1>5, Zenon DEF Joined
<1>7. todo[2].op = "Write"
  BY <1>3, <1>6 DEF Fits
<1>8. todo' # <<>> /\ Head(todo') = todo[2] /\ todo' \in Seq(OpType)
  <2>1. todo' = <<>> \o Tail(todo)
    BY <1>1 DEF Then
  <2>2. \A s \in Seq(OpType) : 2 \in 1..Len(s) /\ s # <<>> =>
          /\ <<>> \o Tail(s) = Tail(s) /\ Tail(s) # <<>> /\ Head(Tail(s)) = s[2]
          /\ Tail(s) \in Seq(OpType)
    <3>. SUFFICES ASSUME NEW s \in Seq(OpType), 2 \in 1..Len(s), s # <<>>
                  PROVE  /\ <<>> \o Tail(s) = Tail(s) /\ Tail(s) # <<>> /\ Head(Tail(s)) = s[2]
                         /\ Tail(s) \in Seq(OpType)
      OBVIOUS
    <3>1. Tail(s) \in Seq(OpType) /\ Len(Tail(s)) = Len(s) - 1 /\ Tail(s)[1] = s[1 + 1]
      OBVIOUS
    <3>2. Len(Tail(s)) # 0
      BY <3>1
    <3>3. Tail(s) # <<>>
      BY <3>2, EmptySeq
    <3>4. Head(Tail(s)) = Tail(s)[1]
      BY <3>1, <3>3, SeqEnd
    <3>. QED  BY <3>1, <3>3, <3>4
  <2>. QED  BY <1>1, <1>5, <2>1, <2>2
<1>9. (Doing("Write"))'
  BY <1>7, <1>8 DEF Doing
<1>10. Path = Member.path
  BY Here DEF Settled
<1>11. Path' = Member'.path
  <2>1. RowInv'
    BY DEF Inv
  <2>2. PICK s \in Seq(OpType) : s = todo' /\ s # <<>>
    BY <1>8
  <2>3. \E l \in Left(s) : l.do = Head(s) /\ l.after = {}
    BY <2>2, HeadLeft
  <2>4. Placed(Head(todo))'
    BY <2>1, <2>2, <2>3 DEF RowInv, Justified
  <2>. QED  BY <1>7, <1>8, <2>4 DEF Placed, MemberOps, Path
<1>. QED  BY <1>9, <1>10, <1>11 DEF Member, Current

(* No contents but those a create or a truncate leaves open, which are     *)
(* written next.                                                           *)
LEMMA DoneSound ==
  ASSUME Inv, Inv', SuitInv, FollowInv, DoneInv, Step, Sound', NEW n \in DOMAIN data'
  PROVE  data'[n].done \/ Excused(n)'
<1>1. Sound /\ ~Fell /\ ~Return /\ phase = "running" /\ result = "Pending"
  BY SoundStep DEF Sound
<1>2. task.files = <<>> /\ task.stage = "start"
  <2>1. task.files # <<>> => Doing("Await")
    BY <1>1 DEF Inv, TaskInv
  <2>2. Doing("Await") => task.files = <<>>
    BY StepIs DEF Doing, Await
  <2>3. task.files = <<>> => task.stage = "start"
    BY DEF Inv, TaskInv
  <2>. QED  BY <2>1, <2>2, <2>3
<1>3. \A i \in DOMAIN data : data[i].done \/ (Doing("Write") /\ i = NodeOf(Path).inode)
  BY <1>1, <1>2 DEF DoneInv, Excused, CutShort
<1>4. CASE UNCHANGED data /\ ~Doing("Write")
  BY <1>3, <1>4
<1>5. CASE todo = <<>>
  <2>1. NextMember
    BY <1>5, StepMoves DEF Return, Doing
  <2>. QED  BY <1>4, <1>5, <2>1, NextIs DEF diskVars, Doing
<1>6. ASSUME todo # <<>>, Head(todo).op \in {"Create", "Truncate"}, Then(<<>>), UNCHANGED members,
             NEW p, p = Path, NEW inode, NEW by, Written(inode, by, FALSE), NodeOf(p)'.inode = inode
      PROVE  data'[n].done \/ Excused(n)'
  <2>1. (Doing("Write"))' /\ Path' = p
    BY <1>6, WriteNext
  <2>2. ~Doing("Write")
    BY <1>6 DEF Doing
  <2>3. NodeOf(Path)'.inode = inode
    BY <1>6, <2>1 DEF NodeOf
  <2>4. CASE n = inode
    <3>1. (Sound /\ Doing("Write") /\ n = NodeOf(Path).inode)'
      BY <2>1, <2>3, <2>4
    <3>. QED  BY <3>1 DEF Excused
  <2>5. CASE n # inode
    <3>1. n \in DOMAIN data /\ data'[n] = data[n]
      BY <1>6, <2>5, WrittenMore
    <3>. QED  BY <1>3, <2>2, <3>1
  <2>. QED  BY <2>4, <2>5
<1>7. CASE todo # <<>> /\ Head(todo).op \in {"Create", "Truncate"}
  <2>1. PICK p \in Paths \ {<<>>} : p = Path
    BY <1>7, Here DEF Settled
  <2>2. Spot \in {OnDisk(p), Nowhere} /\ OnDisk(p) # Nowhere /\ OnDisk(p) # <<>>
    <3>1. Spot \in {OnDisk(Path), Nowhere}
      BY <1>7, Here DEF Settled
    <3>. QED  BY <2>1, <3>1, PlaceIs
  <2>3. ~Doing("Write") /\ UNCHANGED members
    BY <1>7, StepIs DEF Doing
  <2>4. ~Fails("Filesystem")
    BY <1>1 DEF Fails, Fell
  <2>5. CASE Head(todo).op = "Create" /\ ~UNCHANGED data
    <3>1. Create
      BY <1>7, <2>5, StepIs
    <3>2. Spot # Nowhere /\ Put(Spot, File(Current, Current)) /\ Written(Current, Current, FALSE) /\ Then(<<>>)
      BY <2>4, <2>5, <3>1 DEF Create, diskVars
    <3>3. PICK node : node = File(Current, Current)
      OBVIOUS
    <3>4. Put(OnDisk(p), node)
      BY <2>2, <3>2, <3>3 DEF Put
    <3>5. NodeAt(OnDisk(p))' = node
      <4>1. \A q : NodeAt(q)' = IF q = OnDisk(p) THEN node ELSE NodeAt(q)
        BY <2>2, <3>4, PutNode
      <4>. QED  BY <4>1
    <3>6. NodeOf(p)'.inode = Current
      BY <3>3, <3>5 DEF NodeOf, File
    <3>. QED  BY <1>6, <1>7, <2>1, <2>3, <3>2, <3>6
  <2>6. CASE Head(todo).op = "Truncate"
    <3>1. Truncate
      BY <1>7, <2>6, StepIs
    <3>2. SpotNode.type = "File" /\ Written(SpotNode.inode, Current, FALSE) /\ Then(<<>>) /\ UNCHANGED fs
      BY <2>4, <3>1 DEF Truncate
    <3>3. SpotNode = NodeOf(p)
      BY <2>2, <3>2 DEF SpotNode, Nothing, NodeOf
    <3>4. NodeOf(p)' = NodeOf(p)
      BY <3>2, SameNodeOf
    <3>5. NodeOf(p)'.inode = SpotNode.inode
      BY <3>3, <3>4
    <3>. QED  BY <1>6, <1>7, <2>1, <2>3, <3>2, <3>5
  <2>. QED  BY <1>4, <1>7, <2>3, <2>5, <2>6
<1>8. CASE todo # <<>> /\ Head(todo).op = "Write"
  <2>1. Write
    BY <1>8, StepIs
  <2>2. Written(SpotNode.inode, Current, TRUE)
    <3>1. ~Fails("Filesystem") /\ ~Fails("Archive")
      BY <1>1 DEF Fails, Fell
    <3>. QED  BY <2>1, <3>1 DEF Write
  <2>3. SpotNode = NodeOf(Path)
    <3>1. Spot = OnDisk(Path) /\ NodeAt(Spot).type = "File"
      BY <1>8 DEF Inv, WriteInv, Doing
    <3>2. Path \in Paths \ {<<>>}
      BY <1>8, Here DEF Settled
    <3>3. OnDisk(Path) # Nowhere
      <4>1. PICK p \in Paths \ {<<>>} : p = Path
        BY <3>2
      <4>. QED  BY <4>1, PlaceIs
    <3>. QED  BY <3>1, <3>3 DEF SpotNode, NodeOf
  <2>4. PICK inode : inode = SpotNode.inode
    OBVIOUS
  <2>5. data'[inode].done = TRUE
    BY <2>2, <2>4, WrittenMore
  <2>6. CASE n # inode
    <3>1. PICK by : by = Current
      OBVIOUS
    <3>2. Written(inode, by, TRUE)
      BY <2>2, <2>4, <3>1
    <3>3. /\ DOMAIN data' = DOMAIN data \cup {inode}
          /\ \A i \in DOMAIN data : i # inode => data'[i] = data[i]
      BY <3>2, WrittenMore, Zenon
    <3>. QED  BY <1>3, <2>3, <2>4, <2>6, <3>3
  <2>. QED  BY <2>5, <2>6
<1>9. CASE todo # <<>> /\ Head(todo).op \notin {"Create", "Truncate", "Write"}
  <2>1. ~Doing("Write") /\ ~Create /\ ~Truncate /\ ~Write
    BY <1>9 DEF Doing, Create, Truncate, Write
  <2>2. UNCHANGED data
    <3>1. CASE Flush
      BY <3>1 DEF Flush, diskVars
    <3>2. CASE Payload \/ Queue \/ Enqueue \/ Await \/ Target \/ Reserve \/ Validate
      BY <3>2 DEF Payload, Queue, Enqueue, Await, Target, Reserve, Validate, Fails, diskVars
    <3>3. CASE Replace \/ EnsureDirectory \/ HardLink \/ MakeLink
      BY <3>3 DEF Replace, EnsureDirectory, HardLink, MakeLink, Fails, diskVars
    <3>4. Flush \/ (Operation /\ ~Return)
      BY <1>1, <1>9, StepIs
    <3>. QED  BY <2>1, <3>1, <3>2, <3>3, <3>4 DEF Operation
  <2>. QED  BY <1>4, <2>1, <2>2
<1>. QED  BY <1>5, <1>7, <1>8, <1>9

LEMMA DoneStep ==
  ASSUME Inv, Inv', StateInv, ReturnInv, SuitInv, FollowInv, WroteInv, ErrorInv, DoneInv, Step
  PROVE  DoneInv'
<1>. SUFFICES ASSUME (Sound \/ Ending)', NEW n \in DOMAIN data'
              PROVE  data'[n].done \/ Excused(n)'
  BY DEF DoneInv
<1>1. CASE Sound'
  BY <1>1, DoneSound
<1>2. CASE Ending' /\ result \notin Faults
  <2>1. /\ Sound /\ UNCHANGED <<diskVars, rootVars, task>> /\ task.files = <<>> /\ task.stage = "start"
        /\ phase = "running" /\ (NextMember \/ (todo # <<>> /\ UNCHANGED members))
    BY <1>2, FaultBegins DEF Ending
  <2>2. data'[n] = data[n] /\ n \in DOMAIN data /\ result = "Pending"
    BY <2>1 DEF diskVars, Sound
  <2>3. data[n].done \/ (Doing("Write") /\ n = NodeOf(Path).inode)
    BY <2>1, <2>2 DEF DoneInv, Excused, CutShort
  <2>4. ASSUME Doing("Write"), n = NodeOf(Path).inode PROVE Excused(n)'
    <3>1. todo # <<>> /\ Head(todo).op = "Write"
      BY <2>4 DEF Doing
    <3>2. UNCHANGED members
      BY <2>1, <3>1, NextIs
    <3>3. Member' = Member /\ Current' = Current /\ fs' = fs /\ Queued' = Queued
      BY <2>1, <3>2, StillQueued DEF Member, Current, diskVars, rootVars
    <3>4. result' \in Faults
      BY <1>2 DEF Ending
    <3>5. CASE n = Current
      BY <3>3, <3>4, <3>5 DEF Excused, Faults
    <3>6. CASE n # Current
      <4>1. Member.kind = "HardLink" /\ Member.size > 0
        <5>1. Head(todo) \in Elems(todo)
          BY <3>1, TailElems DEF Inv, TypeInv
        <5>. QED  BY <2>1, <2>4, <3>1, <3>6, <5>1 DEF WroteInv, SuitInv, Suits
      <4>2. result' = "Archive"
        BY <1>2, <2>1, <2>2, <2>4, <3>4, FaultBegins DEF Ending, Write, Then, Fails, FailWith, Faults
      <4>3. NodeOf(Member.path).type = "File" /\ NodeOf(Member.path).inode = n /\ Queued = {}
        <5>1. Path = Member.path
          BY <3>1, Here DEF Settled
        <5>2. NodeOf(Path).type = "File"
          BY <2>4 DEF Inv, WriteInv, NodeOf
        <5>3. Queued = {}
          BY <2>1, <3>1, Dry DEF StateInv, Closing
        <5>. QED  BY <2>4, <5>1, <5>2, <5>3
      <4>. QED  BY <3>3, <4>1, <4>2, <4>3 DEF Excused, CutShort, NodeOf, NodeAt
    <3>. QED  BY <3>5, <3>6
  <2>. QED  BY <2>2, <2>3, <2>4
<1>3. CASE Ending' /\ result \in Faults
  <2>1. Ending /\ UNCHANGED <<diskVars, members>> /\ task.stage = "start"
    BY <1>3, FaultGoesOn DEF Ending
  <2>2. data'[n] = data[n] /\ n \in DOMAIN data /\ result # "Pending"
    BY <1>3, <2>1 DEF diskVars, Faults
  <2>3. data[n].done \/ n = Current \/ (Queued = {} /\ CutShort(n))
    BY <2>1, <2>2 DEF DoneInv, Excused, Sound
  <2>4. result' = result /\ Queued' = Queued
    BY <1>3, <2>2, FaultGoesOn DEF Ending, Flush, Then, Return
  <2>5. Member' = Member /\ Current' = Current /\ fs' = fs
    BY <2>1 DEF Member, Current, diskVars
  <2>. QED  BY <2>2, <2>3, <2>4, <2>5 DEF Excused, CutShort, NodeAt
<1>. QED  BY <1>1, <1>2, <1>3

LEMMA DoneElse ==
  ASSUME Inv, DoneInv, TaskStep \/ DropFuture \/ UNCHANGED extractionVars
  PROVE  DoneInv'
<1>. SUFFICES ASSUME (Sound \/ Ending)', NEW n \in DOMAIN data'
              PROVE  data'[n].done \/ Excused(n)'
  BY DEF DoneInv
<1>1. CASE DropFuture
  BY <1>1 DEF DropFuture, Sound, Ending
<1>2. CASE UNCHANGED extractionVars
  <2>1. UNCHANGED <<fs, data, members, task, todo, phase, result>>
    BY <1>2 DEF extractionVars, diskVars, callVars
  <2>2. Sound \/ Ending
    BY <2>1 DEF Sound, Ending, Elems
  <2>3. data[n].done \/ Excused(n)
    BY <2>1, <2>2 DEF DoneInv
  <2>4. NodeOf(Path)' = NodeOf(Path)
    BY <2>1 DEF NodeOf, NodeAt, Path
  <2>5. Member' = Member /\ Current' = Current /\ Queued' = Queued
    BY <1>2, <2>1, StillQueued DEF Member, Current, extractionVars, rootVars
  <2>6. CutShort(n)' = CutShort(n)
    BY <2>1, <2>5 DEF CutShort, NodeAt
  <2>7. Excused(n) => Excused(n)'
    BY <2>1, <2>4, <2>5, <2>6 DEF Excused, Sound, Doing, Elems, Batched
  <2>. QED  BY <2>1, <2>3, <2>7
<1>3. CASE TaskStep
  <2>1. /\ task.files # <<>> /\ UNCHANGED <<policy, members, rootVars, cancelled, callVars>>
        /\ UNCHANGED <<todo, phase, result>>
    BY <1>3, TaskStepIs DEF callVars
  <2>2. /\ task \in TaskType
        /\ (phase = "running" /\ Doing("Await")) \/ (phase = "dropped" /\ todo = <<>>)
    BY <2>1, Writing
  <2>3. phase = "running" /\ task'.error = "None"
    BY <2>1, <2>2 DEF Sound, Ending
  <2>4. ~BatchFails("Filesystem") /\ ~BatchFails("PathCollision") /\ ~SkipFiles /\ task.error = "None"
    BY <1>3, <2>3, TaskSound
  <2>5. Sound \/ Ending
    BY <2>1, <2>4 DEF Sound, Ending, Elems
  <2>6. \A i \in DOMAIN data : data[i].done \/ Excused(i)
    BY <2>5 DEF DoneInv
  <2>7. ~Doing("Write")
    BY <2>2, <2>3 DEF Doing
  <2>8. ASSUME NEW i, Excused(i), ~(task.stage = "created" /\ i = Batched.by) PROVE Excused(i)'
    <3>1. Queued # {}
      <4>1. task.files[1] \in Elems(task.files)
        BY <2>1, <2>2, EmptySeq DEF TaskType, Elems
      <4>. QED  BY <4>1 DEF Queued
    <3>. QED  BY <2>1, <2>7, <2>8, <3>1 DEF Excused, Current
  <2>9. CASE CheckCancellation \/ ClearLeaf
    <3>1. UNCHANGED data /\ task.stage # "created"
      BY <2>4, <2>9 DEF CheckCancellation, ClearLeaf, diskVars
    <3>. QED  BY <2>6, <2>8, <3>1
  <2>10. PICK by : by = Batched.by
    OBVIOUS
  <2>11. CASE CreateFile
    <3>1. Written(by, by, FALSE) /\ task' = [task EXCEPT !.stage = "created"] /\ task.stage # "created"
      BY <2>4, <2>10, <2>11 DEF CreateFile
    <3>2. task'.stage = "created" /\ task'.files = task.files
      BY <2>2, <3>1 DEF TaskType
    <3>3. n = by => Excused(n)'
      BY <2>10, <3>2 DEF Excused, Batched
    <3>4. n # by => n \in DOMAIN data /\ data'[n] = data[n]
      BY <3>1, WrittenMore
    <3>. QED  BY <2>6, <2>8, <3>1, <3>3, <3>4
  <2>12. CASE FillFile
    <3>1. Written(by, by, TRUE)
      BY <2>4, <2>10, <2>12 DEF FillFile
    <3>2. data'[by].done
      BY <3>1, WrittenMore
    <3>3. DOMAIN data' = DOMAIN data \cup {by} /\ \A i \in DOMAIN data : i # by => data'[i] = data[i]
      BY <3>1, WrittenMore, Zenon
    <3>. QED  BY <2>6, <2>8, <2>10, <3>2, <3>3
  <2>. QED  BY <1>3, <2>4, <2>9, <2>11, <2>12 DEF TaskStep
<1>. QED  BY <1>1, <1>2, <1>3

FileInv ==
  /\ SuitInv /\ FollowInv /\ InodeInv /\ ByInv /\ WroteInv
  /\ KnownInv /\ ReturnInv /\ ErrorInv /\ EndInv /\ DoneInv

LEMMA FileInit ==
  ASSUME ExtractionInit
  PROVE  FileInv
<1>1. /\ data = [i \in {0} |-> [by |-> 0, done |-> TRUE]] /\ members = <<>>
      /\ todo = <<>> /\ phase = "running" /\ result = "Pending"
  BY DEF ExtractionInit
<1>2. Elems(todo) = {} /\ Current = 0 /\ ~Doing("Write")
  BY <1>1, LeftNone DEF Current, Doing
<1>3. SuitInv /\ WroteInv /\ ReturnInv
  BY <1>2 DEF SuitInv, WroteInv, ReturnInv
<1>4. FollowInv
  <2>1. <<>> \in Seq(OpType) /\ Elems(<<>>) = {}
    BY LeftNone
  <2>2. Calm(<<>>)
    BY <2>1 DEF Calm
  <2>. QED  BY <1>1, <2>2, CalmRow DEF FollowInv
<1>5. KnownInv
  BY <1>2 DEF KnownInv
<1>6. ErrorInv /\ EndInv
  BY <1>1 DEF ErrorInv, EndInv, Ending, Faults
<1>7. DoneInv
  BY <1>1 DEF DoneInv
<1>. QED  BY <1>3, <1>4, <1>5, <1>6, <1>7, OwnInit DEF FileInv

LEMMA FileNext ==
  ASSUME NamesApart, Inv, Inv', StateInv, FileInv, [ClientNext]_clientVars
  PROVE  FileInv'
<1>1. SuitInv /\ FollowInv /\ InodeInv /\ ByInv /\ WroteInv
  BY DEF FileInv
<1>2. KnownInv /\ ReturnInv /\ ErrorInv /\ EndInv /\ DoneInv
  BY DEF FileInv
<1>3. CASE Step
  <2>1. SuitInv' /\ FollowInv' /\ WroteInv'
    BY <1>1, <1>3, RowStep, WroteStep
  <2>2. InodeInv' /\ ByInv'
    BY <1>1, <1>3, InodeStep, ByStep
  <2>3. KnownInv'
    BY <1>1, <1>2, <1>3, KnownStep
  <2>4. ReturnInv' /\ ErrorInv'
    BY <1>1, <1>2, <1>3, ReturnStep, ErrorStep
  <2>5. EndInv'
    BY <1>1, <1>2, <1>3, EndStep
  <2>6. DoneInv'
    BY <1>1, <1>2, <1>3, DoneStep
  <2>. QED  BY <2>1, <2>2, <2>3, <2>4, <2>5, <2>6 DEF FileInv
<1>4. CASE TaskStep \/ DropFuture \/ UNCHANGED extractionVars
  <2>1. SuitInv' /\ FollowInv' /\ WroteInv'
    BY <1>1, <1>4, RowElse, WroteElse
  <2>2. InodeInv' /\ ByInv'
    BY <1>1, <1>4, OwnElse
  <2>3. KnownInv'
    BY <1>2, <1>4, KnownElse
  <2>4. ReturnInv'
    BY <1>2, <1>4, ReturnElse
  <2>5. ErrorInv' /\ EndInv'
    BY <1>2, <1>4, EndElse
  <2>6. DoneInv'
    BY <1>2, <1>4, DoneElse
  <2>. QED  BY <2>1, <2>2, <2>3, <2>4, <2>5, <2>6 DEF FileInv
<1>. QED  BY <1>3, <1>4 DEF ClientNext, ExtractionNext, clientVars

LEMMA ClientFiles ==
  ASSUME NamesApart
  PROVE  ClientSpec => [](Inv /\ StateInv /\ FileInv)
<1>1. ClientInit => FileInv
  BY FileInit DEF ClientInit
<1>2. Inv /\ Inv' /\ StateInv /\ FileInv /\ [ClientNext]_clientVars => FileInv'
  BY FileNext
<1>. QED  BY <1>1, <1>2, ClientState, PTL DEF ClientSpec

(* The last member at a path is that which CHOOSE takes.                   *)
LEMMA LastChosen ==
  ASSUME TypeInv, NEW i \in 1..Current, members[i].kind = "File",
         LastAt(members[i].path, Current) = i
  PROVE  Last(i)
<1>. DEFINE S == At(members[i].path, Current)
<1>1. Current \in Nat /\ members[i] \in Members
  BY DEF TypeInv, Current
<1>2. Counts(members[i])
  BY <1>1, ExtractionAssumption DEF Counts
<1>3. i \in S /\ S \subseteq 1..Current
  BY <1>2 DEF At
<1>4. \E j \in S : \A k \in S : k <= j
  <2>. HIDE DEF S
  <2>1. PICK c \in Nat : c = Current
    BY <1>1
  <2>2. c - i \in Nat /\ c - (c - i) = i
    BY <2>1
  <2>. DEFINE G == { n \in Nat : c - n \in S }
  <2>3. G \subseteq Nat /\ G # {}
    BY <1>3, <2>2
  <2>4. PICK n \in G : \A m \in G : n <= m
    BY <2>3, LeastNatural
  <2>5. ASSUME NEW k \in S PROVE k <= c - n
    <3>1. k \in 1..c /\ c - k \in Nat /\ c - (c - k) = k
      BY <1>3, <2>1, <2>5
    <3>2. c - k \in G
      BY <2>5, <3>1
    <3>3. n \in Nat /\ n <= c - k
      BY <2>4, <3>2
    <3>. QED  BY <3>1, <3>3
  <2>. QED  BY <2>4, <2>5
<1>5. LastAt(members[i].path, Current) \in S /\ \A k \in S : k <= LastAt(members[i].path, Current)
  BY <1>4 DEF LastAt
<1>6. \A k \in S : k <= i
  BY <1>5
<1>7. ASSUME NEW j \in (i + 1)..Current, Counts(members[j]), members[j].path = members[i].path
      PROVE  FALSE
  <2>1. j \in 1..Current /\ ~(j <= i)
    BY <1>1
  <2>2. j \in S
    BY <1>7, <2>1 DEF At
  <2>. QED  BY <1>6, <2>1, <2>2
<1>. QED  BY <1>7 DEF Last

(* Whatever the archive, the policy and the destination, where the disk    *)
(* keeps different names apart: when the archive or a member of it fails,  *)
(* the files of the members before it, at other paths than its own, are on *)
(* the disk and whole, those that waited for their batch included, but for *)
(* the one a hard link with contents shares and had already emptied.       *)
THEOREM EarlierFilesAreWhole ==
  ASSUME NamesApart
  PROVE  ClientSpec => []EarlierFilesCommitted
<1>1. ASSUME Inv, StateInv, FileInv PROVE EarlierFilesCommitted
  <2>. SUFFICES ASSUME phase = "returned", result \in Faults, NEW i \in 1..(Current - 1),
                       members[i].kind = "File", LastAt(members[i].path, Current) = i
                PROVE  LET node == NodeAt(OnDisk(members[i].path))
                       IN  node.type = "File" /\ (data[node.inode].done \/ CutShort(node.inode))
    BY DEF EarlierFilesCommitted, Faults
  <2>1. TypeInv /\ TaskInv /\ InodeInv /\ ErrorInv /\ EndInv /\ DoneInv
    BY <1>1 DEF Inv, FileInv
  <2>2. todo = <<>> /\ task.files = <<>> /\ task.stage = "start"
    BY <2>1 DEF TaskInv
  <2>3. Ending
    BY <2>1 DEF ErrorInv, Ending
  <2>4. Queued = {}
    <3>1. \A o, r : todo # <<o, r>> /\ todo # <<o>>
      BY <2>2
    <3>. QED  BY <2>1, <2>3, <3>1 DEF EndInv, Closes
  <2>5. Current \in Nat /\ i \in 1..Current /\ Current \in (i + 1)..Current /\ Current > 0
    BY <2>1 DEF TypeInv, Current
  <2>6. members[i] \in Members /\ Member \in Members
    BY <2>1, <2>5 DEF TypeInv, Current, Member
  <2>7. Last(i)
    BY <2>1, <2>5, LastChosen
  <2>8. PICK p \in Paths : p = members[i].path
    BY <2>6, ExtractionAssumption DEF MemberType, Paths
  <2>9. NodeOf(p).type = "File"
    <3>1. Stands(i)
      BY <2>1, <2>3 DEF EndInv
    <3>. QED  BY <2>4, <2>7, <2>8, <3>1 DEF Stands, Waits
  <2>10. PICK n : n = NodeOf(p).inode
    OBVIOUS
  <2>11. n \in DOMAIN data /\ (n = Current => OfFile /\ OnDisk(p) = OnDisk(Member.path))
    <3>1. Owned(OnDisk(p))
      BY <2>1 DEF InodeInv
    <3>. QED  BY <2>5, <2>9, <2>10, <3>1 DEF Owned, NodeOf
  <2>12. n # Current
    <3>. SUFFICES ASSUME n = Current PROVE FALSE
      OBVIOUS
    <3>1. OfFile /\ OnDisk(p) = OnDisk(Member.path)
      BY <2>11
    <3>2. Member.path \in Paths /\ Counts(Member)
      BY <2>6, <3>1, ExtractionAssumption DEF MemberType, Paths, Counts, OfFile
    <3>3. PICK q \in Paths : q = Member.path
      BY <3>2
    <3>4. p = q
      BY <3>1, <3>3, Apart
    <3>. QED  BY <2>5, <2>7, <2>8, <3>2, <3>3, <3>4 DEF Last, Member
  <2>13. Excused(n) => CutShort(n)
    BY <2>2, <2>12 DEF Excused, Sound
  <2>14. data[n].done \/ CutShort(n)
    BY <2>1, <2>3, <2>11, <2>13 DEF DoneInv
  <2>. QED  BY <2>8, <2>9, <2>10, <2>14 DEF NodeOf
<1>. QED  BY <1>1, ClientFiles, PTL
=============================================================================
