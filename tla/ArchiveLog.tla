------------------------------ MODULE ArchiveLog ------------------------------
(***************************************************************************)
(* What an archive builder promises, with no hooks, batches, failures in   *)
(* mid-write or dropped futures in sight: a log of complete members that   *)
(* grows by whole additions and stays extractable, until it is finished or *)
(* broken for good.                                                        *)
(***************************************************************************)
EXTENDS Integers, Sequences

VARIABLES
  log,     \* the members added, in order
  status   \* "active", "broken" or "finished"

Prefixes(path) == { SubSeq(path, 1, k) : k \in 1..(Len(path) - 1) }

(* Every member can be extracted beside the others: no path twice, and     *)
(* nothing beneath a path that is no directory.                            *)
Extractable(members) ==
  \A i, j \in 1..Len(members) : i # j =>
    /\ members[i].path # members[j].path
    /\ members[i].path \in Prefixes(members[j].path) => members[i].kind = "Directory"

Whole(member) == member.done = member.due

Init == log = <<>> /\ status = "active"

Add ==
  /\ status = "active"
  /\ Len(log') > Len(log)
  /\ SubSeq(log', 1, Len(log)) = log
  /\ \A i \in 1..Len(log') : Whole(log'[i])
  /\ Extractable(log')
  /\ UNCHANGED status

Break  == status = "active" /\ status' = "broken" /\ UNCHANGED log
Finish == status = "active" /\ status' = "finished" /\ UNCHANGED log

Next == Add \/ Break \/ Finish

Spec == Init /\ [][Next]_<<log, status>>
=============================================================================
