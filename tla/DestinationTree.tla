--------------------------- MODULE DestinationTree ---------------------------
(***************************************************************************)
(* The directory an archive is extracted into, as the code uses it: the    *)
(* operations of a cap-std Dir and of the file system below it.  The root  *)
(* is the empty path; symbolic links are followed in every component but   *)
(* the last, and never out of the root.                                    *)
(***************************************************************************)
EXTENDS Integers, Sequences, FiniteSets

CONSTANTS
  Fold,         \* the name a component has on the disk: two may fold together
  Outside,      \* a component that leads out of the root
  MAX_LINKS     \* bound: the links one lookup follows

VARIABLES
  fs,       \* the nodes, by the path they have on the disk
  data      \* the contents, by inode: who wrote them, and are they complete?

diskVars == <<fs, data>>

(* A node tells which inode it is and which member put it there; both are  *)
(* 0 when it was there before.                                             *)
Directory(by)   == [type |-> "Directory", inode |-> 0, by |-> by, to |-> <<>>]
File(inode, by) == [type |-> "File", inode |-> inode, by |-> by, to |-> <<>>]
Link(to, by)    == [type |-> "Link", inode |-> 0, by |-> by, to |-> to]
Nothing         == [type |-> "Nothing", inode |-> 0, by |-> 0, to |-> <<>>]

Parent(p)  == SubSeq(p, 1, Len(p) - 1)
Prefixes(p) == { SubSeq(p, 1, n) : n \in 1..(Len(p) - 1) }

OnDisk(p) == [n \in 1..Len(p) |-> Fold[p[n]]]

NodeAt(p) ==
  IF p = <<>> THEN Directory(0) ELSE IF p \in DOMAIN fs THEN fs[p] ELSE Nothing

First(ns) == CHOOSE n \in ns : \A m \in ns : n <= m

LinksOn(p) == { n \in 1..Len(p) : NodeAt(SubSeq(p, 1, n)).type = "Link" }

Expand(p) ==
  IF LinksOn(p) = {} THEN p
  ELSE LET n == First(LinksOn(p))
       IN  NodeAt(SubSeq(p, 1, n)).to \o SubSeq(p, n + 1, Len(p))

Follow(p) ==
  LET walk[n \in 0..MAX_LINKS] == IF n = 0 THEN p ELSE Expand(walk[n - 1])
  IN  walk[MAX_LINKS]

(* Dir::metadata: what the path leads to, "Nothing", or another error than *)
(* NotFound: too many links, a way out of the root, a file on the way.     *)
Lookup(p) ==
  LET end == Follow(p)
  IN  IF \/ LinksOn(end) # {}
         \/ end # <<>> /\ Head(end) = Outside
         \/ \E q \in Prefixes(end) : NodeAt(q).type = "File"
      THEN "Error" ELSE NodeAt(end).type

(* A directory handle: the entry it was opened for, and the directory.     *)
NoHandle == [entry |-> <<>>, at |-> <<>>, by |-> 0]
Nowhere  == <<>>

(* The leaf on the disk a path relative to a capability leads to: the      *)
(* handle of its parent directory, if that is the one at hand, or the root.*)
Location(p, handle) ==
  LET parent == OnDisk(Parent(p))
      leaf   == OnDisk(p)[Len(p)]
  IN  IF parent = <<>> THEN <<leaf>>
      ELSE IF handle.entry = Parent(p)
      THEN IF NodeAt(handle.at) = Directory(handle.by) THEN Append(handle.at, leaf) ELSE Nowhere
      ELSE IF Lookup(parent) = "Directory" THEN Append(Follow(parent), leaf) ELSE Nowhere

IsEmpty(p) == ~\E q \in DOMAIN fs : p \in Prefixes(q)

(* The mutations.                                                          *)
Put(p, node) == fs' = [q \in DOMAIN fs \cup {p} |-> IF q = p THEN node ELSE fs[q]]
Remove(p)    == fs' = [q \in DOMAIN fs \ {p} |-> fs[q]]

Written(inode, by, done) ==
  data' = [i \in DOMAIN data \cup {inode} |->
             IF i = inode THEN [by |-> by, done |-> done] ELSE data[i]]
=============================================================================
